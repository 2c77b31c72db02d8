------------------------ MODULE Experiments_proofs ------------------------
(***************************************************************************)
(* What the csv files of Experiments say, for every number of lengths,     *)
(* datasets, queries, threads, executions, interruptions and deaths.       *)
(*                                                                         *)
(* The argument has three parts.                                           *)
(*                                                                         *)
(* The script (Positions ... SpecialCommands) is unrolled to tables of     *)
(* which command is where.  All that is used of them afterwards is RunFact *)
(* and CatFact: a job has one process; a cat comes after the process whose *)
(* results it is to read, and between the two nobody else writes the file  *)
(* or removes it; every file is removed after its last writer.             *)
(*                                                                         *)
(* The invariant Inv follows a line from the process to the csv file.      *)
(* That a process which has replaced its file finds only its own lines in  *)
(* it (Fresh) gives CreditedRight; that all of them are still there (Kept) *)
(* and are read (Read) gives Complete.  What a process that replaced       *)
(* nothing leaves to be read is of an interrupted execution (Stamps),      *)
(* because a complete one removed its files (Removed), or of a command of  *)
(* this one after which the file was not removed (Origin).                 *)
(*                                                                         *)
(* The loop of parallel_expr is Climbing while it runs and Climbed when it *)
(* has ended; whether max_thr is measured is arithmetic on max_thr % inc.  *)
(***************************************************************************)
EXTENDS Experiments, TLAPS

\* What a line, an entry and the name of a job are.
Says == Nat \cup {"time", "result", "garbage"}
Name == {"agm", "cube", "gz_unlim", "asp_unlim", "ter_unlim", "gz_lim", "asp_lim",
         "in_mem", "disk", "parallel", "cont_test", "none"}
JobName == Name \X Nat
Line == [run : Nat, job : JobName, says : Says]
Entry == [line : Line, as : JobName, at : Nat]
End == {"ok", "died", "unopened"}

\* Command k is a process, which writes f.
Runs(k) == k \in DOMAIN Script /\ Script[k].op = "run"

Types ==
    /\ run \in Nat /\ ip \in 0 .. Len(Script) + 1
    /\ compare \in BOOLEAN /\ max_thr \in MaxThreads
    /\ lines \in Seq(Line) /\ groups \in Nat /\ working \in BOOLEAN /\ opened \in BOOLEAN
    /\ file \in [File -> Seq(Line)] /\ csv \in [Csv -> Seq(Entry)]
    /\ \A j \in DOMAIN outcome : outcome[j] \in [end : End, lines : Seq(Line)]
    /\ deaths \in Nat /\ cut \subseteq 1 .. run

\* A process has its own lines, and once its file has been opened and emptied
\* has them in the file.
Opening ==
    working => /\ Command.mode \in {"early", "append"} => opened
               /\ Command.mode = "late" => ~opened
               /\ Command.mode = "open" /\ ~opened => lines = <<>>
               /\ Command.mode \in {"early", "open"} /\ opened => file[Command.file] = lines
Processes ==
    /\ working => Runs(ip)
    /\ ~working => lines = <<>> /\ groups = 1 /\ ~opened
    /\ \A n \in DOMAIN lines : lines[n].run = run /\ lines[n].job = Command.job
    /\ Opening
    /\ working /\ Command.job[1] \notin Queries \cup {"parallel"} => Len(lines) <= 1

\* Who may have written what there is.
Stamps ==
    /\ ip = 0 <=> run = 0 \/ run \in cut
    /\ \A f \in File \ {"parallel_out"} : \A n \in DOMAIN file[f] :
          file[f][n].run # 0 /\ file[f][n].run \in {run} \cup cut
    /\ \A c \in Csv : \A n \in DOMAIN csv[c] : csv[c][n].at \in 1 .. run

\* The outcomes are of the commands that have been executed.
Outcomes ==
    ip # 0 =>
       /\ \A k \in ip .. Len(Script) : Runs(k) => Script[k].job \notin DOMAIN outcome
       /\ \A k \in 1 .. ip - 1 : Runs(k) /\ Script[k].job[1] \notin Comparison
                                   => Script[k].job \in DOMAIN outcome

\* No process from command k + 1 on has written to the file f.
Unwritten(f, k) == \A n \in k + 1 .. ip : Runs(n) => Script[n].file # f
Unremoved(f, k) == \A n \in k + 1 .. ip - 1 : Script[n].op = "rm" => f \notin Script[n].files

\* What was removed and not written again is not there.
Removed ==
    \A k \in 1 .. ip - 1 : Script[k].op = "rm" =>
        \A f \in Script[k].files : Unwritten(f, k) => file[f] = <<>>

\* A line of this execution is of a command after which the file was not removed.
Wrote(k, f, j) == Runs(k) /\ Script[k].file = f /\ Script[k].job = j /\ Unremoved(f, k)
Origin ==
    ip # 0 => \A f \in File \ {"parallel_out"} : \A n \in DOMAIN file[f] :
        file[f][n].run = run => \E k \in 1 .. ip : Wrote(k, f, file[f][n].job)

\* Command k has emptied its file or replaced it.
Replaced(k) ==
    /\ Script[k].mode # "append"
    /\ \/ k < ip /\ Outcome(Script[k].job) \in {"ok", "died"}
       \/ k = ip /\ working /\ opened

\* Then the file has only lines of command k.
Fresh ==
    \A k \in 1 .. ip : Runs(k) /\ Unwritten(Script[k].file, k) /\ Replaced(k) =>
        \A n \in DOMAIN file[Script[k].file] :
            /\ file[Script[k].file][n].run = run
            /\ file[Script[k].file][n].job = Script[k].job

\* What is presented as the result of a job comes after the job.
Settled ==
    ip # 0 => \A k \in ip .. Len(Script) : Runs(k) =>
        \A c \in Csv \ {"sketch"} : \A n \in Reported(c) : csv[c][n].as # Script[k].job

\* The results of a job stay in its file until they are read ...
Delivered(k) == Runs(k) /\ Script[k].job[1] \notin {"agm", "cube", "parallel"}
Kept ==
    \A k \in 1 .. ip - 1 :
        LET f == Script[k].file IN
        Delivered(k) /\ Outcome(Script[k].job) = "ok" /\ Unwritten(f, k) /\ Unremoved(f, k)
            => file[f] = Result(Script[k].job)

\* ... and in the csv file from then on.
Present(c, j) == Holds(c, j, Result(j))
Read ==
    \A k \in 1 .. ip - 1 : Script[k].op = "cat" /\ Outcome(Script[k].job) = "ok"
        => Present(Script[k].csv, Script[k].job)

AllNew(c) == \A n \in DOMAIN csv[c] : csv[c][n].at = run
RenewedBefore ==
    \A k \in 1 .. ip - 1 : /\ Script[k].op = "new" => \A c \in Script[k].csvs : AllNew(c)
                           /\ Script[k].op = "combine" => AllNew("sketch")
ParallelAnew ==
    Outcome(<<"parallel", 1>>) = "ok" => AllNew("parallel") /\ Present("parallel", <<"parallel", 1>>)
Renewed == RenewedBefore /\ ParallelAnew

\* The n-th line of a sketch is the one of the n-th length.
Measures(name, offset, f) ==
    /\ ip \in offset + 1 .. 2 * Lengths + 1
    /\ ip > offset + 1 \/ working
    /\ \A k \in 1 .. Lengths : ~Died(<<name, k>>)
    => /\ Len(file[f]) = IF ip > offset + Lengths THEN Lengths ELSE ip - offset - 1 + Len(lines)
       /\ \A n \in DOMAIN file[f] : file[f][n].run = run /\ file[f][n].job = <<name, n>>

NoRows == ip \in 1 .. 2 * Lengths + 1 => Reported("sketch") = {}
AllAlive == \A k \in 1 .. Lengths : ~Died(<<"agm", k>>) /\ ~Died(<<"cube", k>>)
AllRows == ip > 2 * Lengths + 1 /\ AllAlive => Reported("sketch") = 1 .. Lengths
Sketches ==
    /\ Measures("agm", 0, "agm_results")
    /\ Measures("cube", Lengths, "cube_results")
    /\ NoRows
    /\ AllRows

\* Every row compares the two sketches at its own length.
Paired ==
    AllAlive => \A n \in Reported("sketch") :
                   Own(csv["sketch"][n]) /\ csv["sketch"][n].as = <<"cube", n>>

\* The loop of parallel_expr: every multiple of inc below the counter has been
\* measured, until the counter is cut down to max_thr.
Multiples(s, top, max) ==
    \A g \in 1 .. max : g % inc = 0 /\ g < top => \E n \in DOMAIN s : s[n] = g
Increasing(s) == \A n, k \in DOMAIN s : n < k => s[n] < s[k]
Climbing(s, g, max) ==
    /\ \A n \in DOMAIN s : s[n] \in 1 .. max
    /\ Increasing(s)
    /\ Multiples(s, g, max)
    /\ IF s = <<>> THEN g = 1
       ELSE /\ s[1] = 1
            /\ \/ /\ g % inc = 0 /\ g >= inc /\ g - inc <= max
                  /\ \A n \in DOMAIN s : s[n] < g /\ (s[n] = 1 \/ s[n] % inc = 0)
               \/ /\ g = max + inc /\ 2 * (max % inc) >= inc
                  /\ \E n \in DOMAIN s : s[n] = max
SaysOf(ls) == [n \in DOMAIN ls |-> ls[n].says]
Loop == working /\ Command.job[1] = "parallel" => Climbing(SaysOf(lines), groups, max_thr)

\* All that the loop measured, once it has ended.
Climbed(s, max) ==
    /\ \A n \in DOMAIN s : s[n] \in 1 .. max
    /\ Increasing(s)
    /\ \E n \in DOMAIN s : s[n] = 1
    /\ Multiples(s, max + 1, max)
    /\ (\E n \in DOMAIN s : s[n] = max)
          <=> max = 1 \/ max % inc = 0 \/ 2 * (max % inc) >= inc
RowsOf(es) == [n \in DOMAIN es |-> es[n].line.says]
Loops ==
    /\ Loop
    /\ \A n, k \in DOMAIN csv["parallel"] : csv["parallel"][n].at = csv["parallel"][k].at
    /\ csv["parallel"] # <<>> => Climbed(RowsOf(csv["parallel"]), max_thr)

Inv ==
    /\ Types /\ Processes /\ Stamps /\ Outcomes /\ Removed /\ Origin /\ Fresh /\ Settled
    /\ CreditedRight /\ Kept /\ Read /\ Renewed /\ Sketches /\ Paired /\ Loops

---------------------------------------------------------------------------
(* The script: which command is where.                                     *)

Middle == 2 * Lengths
Tests == 2 * Lengths + 21

IsSeq(s, n) == \E S : s \in Seq(S) /\ Len(s) = n

\* The numbers of lengths, datasets and queries are at least 1.
LEMMA Sizes == Lengths \in Nat /\ Lengths >= 1 /\ Datasets \in Nat /\ Datasets >= 1
                 /\ samples \in Nat /\ samples >= 1
  BY SizesAssumption

\* The fields of a command.
LEMMA RunFields ==
    ASSUME NEW j, NEW f, NEW mode
    PROVE  /\ Run(j, f, mode).op = "run" /\ Run(j, f, mode).job = j
           /\ Run(j, f, mode).file = f /\ Run(j, f, mode).mode = mode
  BY DEF Run
\* The same for cat.
LEMMA CatFields ==
    ASSUME NEW j, NEW f, NEW c
    PROVE  /\ Cat(f, c, j).op = "cat" /\ Cat(f, c, j).job = j
           /\ Cat(f, c, j).file = f /\ Cat(f, c, j).csv = c
  BY DEF Cat
\* The same for the other commands.
LEMMA OtherFields ==
    /\ \A fs : Rm(fs).op = "rm" /\ Rm(fs).files = fs
    /\ \A cs : New(cs).op = "new" /\ New(cs).csvs = cs
    /\ Combine.op = "combine"
  BY DEF Rm, New, Combine

\* Concatenation, kept folded so that the provers see only what Joined says of it.
Join(a, b) == a \o b

\* A concatenation of sequences of known lengths, position by position.
LEMMA Joined ==
    ASSUME NEW a, NEW b, NEW n \in Nat, NEW p \in Nat, IsSeq(a, n), IsSeq(b, p)
    PROVE  /\ IsSeq(Join(a, b), n + p)
           /\ \A k \in 1 .. n : Join(a, b)[k] = a[k]
           /\ \A k \in 1 .. p : Join(a, b)[n + k] = b[k]
  <1>1. PICK S : a \in Seq(S) /\ Len(a) = n
    BY DEF IsSeq
  <1>2. PICK T : b \in Seq(T) /\ Len(b) = p
    BY DEF IsSeq
  <1> DEFINE U == S \cup T
  <1>3. a \in Seq(U) /\ b \in Seq(U)
    BY <1>1, <1>2
  <1> HIDE DEF U
  <1>4. a \o b \in Seq(U) /\ Len(a \o b) = n + p
    BY <1>1, <1>2, <1>3
  <1>5. /\ \A k \in 1 .. n : (a \o b)[k] = a[k]
        /\ \A k \in 1 .. p : (a \o b)[n + k] = b[k]
    BY <1>1, <1>2, <1>3
  <1> QED BY <1>4, <1>5 DEF IsSeq, Join

\* A function on 1 .. n is a sequence.
LEMMA SeqOf ==
    ASSUME NEW n \in Nat, NEW f, f = [k \in 1 .. n |-> f[k]]
    PROVE  IsSeq(f, n)
  <1> DEFINE S == {f[k] : k \in 1 .. n}
  <1>1. f \in [1 .. n -> S]
    OBVIOUS
  <1> HIDE DEF S
  <1>2. f \in Seq(S) /\ Len(f) = n
    BY <1>1
  <1> QED BY <1>2 DEF IsSeq

\* The commands of one sketch.
LEMMA SketchSeq ==
    ASSUME NEW name, NEW f
    PROVE  /\ IsSeq(Sketch(name, f), Lengths)
           /\ \A k \in 1 .. Lengths :
                 Sketch(name, f)[k] = Run(<<name, k>>, f, IF k = 1 THEN "early" ELSE "append")
  <1> DEFINE R(k) == Run(<<name, k>>, f, IF k = 1 THEN "early" ELSE "append")
             s == [k \in 1 .. Lengths |-> R(k)]
  <1>1. Sketch(name, f) = s
    BY DEF Sketch
  <1> HIDE DEF R
  <1>2. s = [k \in 1 .. Lengths |-> s[k]] /\ \A k \in 1 .. Lengths : s[k] = R(k)
    OBVIOUS
  <1> HIDE DEF s
  <1>3. IsSeq(s, Lengths)
    BY <1>2, Sizes, SeqOf
  <1> QED BY <1>1, <1>2, <1>3 DEF R

\* Tuples are sequences.
LEMMA Tuple1 == ASSUME NEW a1 PROVE IsSeq(<<a1>>, 1)
  <1>1. <<a1>> \in Seq({a1}) /\ Len(<<a1>>) = 1
    OBVIOUS
  <1> QED BY <1>1 DEF IsSeq

\* The same for two elements.
LEMMA Tuple2 == ASSUME NEW a1, NEW a2 PROVE IsSeq(<<a1, a2>>, 2)
  <1>1. <<a1, a2>> \in Seq({a1, a2}) /\ Len(<<a1, a2>>) = 2
    OBVIOUS
  <1> QED BY <1>1 DEF IsSeq

\* The same for six elements.
LEMMA Tuple6 ==
    ASSUME NEW a1, NEW a2, NEW a3, NEW a4, NEW a5, NEW a6
    PROVE  IsSeq(<<a1, a2, a3, a4, a5, a6>>, 6)
  <1> DEFINE t == <<a1, a2, a3, a4, a5, a6>>
  <1>1. t \in Seq({a1, a2, a3, a4, a5, a6}) /\ Len(t) = 6
    OBVIOUS
  <1> QED BY <1>1 DEF IsSeq

\* The same for eleven elements.
LEMMA Tuple11 ==
    ASSUME NEW a1, NEW a2, NEW a3, NEW a4, NEW a5, NEW a6, NEW a7, NEW a8, NEW a9, NEW a10, NEW a11
    PROVE  IsSeq(<<a1, a2, a3, a4, a5, a6, a7, a8, a9, a10, a11>>, 11)
  <1> DEFINE t == <<a1, a2, a3, a4, a5, a6, a7, a8, a9, a10, a11>>
  <1>1. t \in Seq({a1, a2, a3, a4, a5, a6, a7, a8, a9, a10, a11}) /\ Len(t) = 11
    OBVIOUS
  <1> QED BY <1>1 DEF IsSeq

\* The parts of the script that are tuples, and their lengths.
LEMMA TupleSeqs ==
    /\ IsSeq(query_expr_manager, 11) /\ IsSeq(run_buffer_expr, 6)
    /\ IsSeq(parallel_expr, 1) /\ IsSeq(clean_up, 1)
  <1>1. IsSeq(query_expr_manager, 11)
    BY Tuple11 DEF query_expr_manager
  <1>2. IsSeq(run_buffer_expr, 6)
    BY Tuple6 DEF run_buffer_expr
  <1>3. IsSeq(parallel_expr, 1) /\ IsSeq(clean_up, 1)
    BY Tuple1 DEF parallel_expr, clean_up
  <1> QED BY <1>1, <1>2, <1>3

TestLoop == [n \in 1 .. 3 * Datasets |-> correctness_test(((n - 1) \div 3) + 1)[((n - 1) % 3) + 1]]

\* The three commands of each dataset of the correctness test.
LEMMA TestSeq ==
    /\ IsSeq(TestLoop, 3 * Datasets)
    /\ \A k \in 1 .. Datasets :
          /\ TestLoop[3 * k - 2] = Run(<<"cont_test", k>>, "temp_out", "late")
          /\ TestLoop[3 * k - 1] = Cat("temp_out", "correctness", <<"cont_test", k>>)
          /\ TestLoop[3 * k] = Rm({"temp_out"})
  <1> DEFINE C(k) == correctness_test(k)
  <1>1. ASSUME NEW k \in 1 .. Datasets
        PROVE  /\ C(k)[1] = Run(<<"cont_test", k>>, "temp_out", "late")
               /\ C(k)[2] = Cat("temp_out", "correctness", <<"cont_test", k>>)
               /\ C(k)[3] = Rm({"temp_out"})
    BY DEF correctness_test
  <1>3. \A n \in 1 .. 3 * Datasets : TestLoop[n] = C(((n - 1) \div 3) + 1)[((n - 1) % 3) + 1]
    BY DEF TestLoop
  <1>4. TestLoop = [n \in 1 .. 3 * Datasets |-> TestLoop[n]]
    BY DEF TestLoop
  <1> HIDE DEF C
  <1>6. 3 * Datasets \in Nat
    BY Sizes
  <1>7. IsSeq(TestLoop, 3 * Datasets)
    BY <1>4, <1>6, SeqOf
  <1>8. ASSUME NEW k \in 1 .. Datasets
        PROVE  /\ TestLoop[3 * k - 2] = C(k)[1]
               /\ TestLoop[3 * k - 1] = C(k)[2]
               /\ TestLoop[3 * k] = C(k)[3]
    <2>0. k \in Int /\ Datasets \in Int
      BY Sizes
    <2>1. /\ 3 * k - 2 \in 1 .. 3 * Datasets /\ ((3 * k - 2 - 1) \div 3) + 1 = k
          /\ ((3 * k - 2 - 1) % 3) + 1 = 1
      BY <2>0
    <2>2. /\ 3 * k - 1 \in 1 .. 3 * Datasets /\ ((3 * k - 1 - 1) \div 3) + 1 = k
          /\ ((3 * k - 1 - 1) % 3) + 1 = 2
      BY <2>0
    <2>3. /\ 3 * k \in 1 .. 3 * Datasets /\ ((3 * k - 1) \div 3) + 1 = k
          /\ ((3 * k - 1) % 3) + 1 = 3
      BY <2>0
    <2>4. TestLoop[3 * k - 2] = C(k)[1]
      BY <1>3, <2>1
    <2>5. TestLoop[3 * k - 1] = C(k)[2]
      BY <1>3, <2>2
    <2>6. TestLoop[3 * k] = C(k)[3]
      BY <1>3, <2>3
    <2> QED BY <2>4, <2>5, <2>6
  <1> QED BY <1>1, <1>7, <1>8

\* The script, command by command.
LEMMA ScriptAt ==
    /\ IsSeq(Script, Tests + 3 * Datasets + 1)
    /\ \A k \in 1 .. Lengths :
          /\ Script[k] =
               Run(<<"agm", k>>, "agm_results", IF k = 1 THEN "early" ELSE "append")
          /\ Script[Lengths + k] =
               Run(<<"cube", k>>, "cube_results", IF k = 1 THEN "early" ELSE "append")
    /\ Script[Middle + 1] = Combine
    /\ Script[Middle + 2] = Rm({"agm_results", "cube_results"})
    /\ Script[Middle + 3] = New({"unlim_query", "lim_query"})
    /\ Script[Middle + 4] = Run(<<"gz_unlim", 1>>, "temp_gz", "late")
    /\ Script[Middle + 5] = Run(<<"asp_unlim", 1>>, "temp_asp", "open")
    /\ Script[Middle + 6] = Run(<<"ter_unlim", 1>>, "temp_ter", "open")
    /\ Script[Middle + 7] = Cat("temp_gz", "unlim_query", <<"gz_unlim", 1>>)
    /\ Script[Middle + 8] = Cat("temp_asp", "unlim_query", <<"asp_unlim", 1>>)
    /\ Script[Middle + 9] = Cat("temp_ter", "unlim_query", <<"ter_unlim", 1>>)
    /\ Script[Middle + 10] = Run(<<"gz_lim", 1>>, "temp_gz", "late")
    /\ Script[Middle + 11] = Run(<<"asp_lim", 1>>, "temp_asp", "open")
    /\ Script[Middle + 12] = Cat("temp_gz", "lim_query", <<"gz_lim", 1>>)
    /\ Script[Middle + 13] = Cat("temp_asp", "lim_query", <<"asp_lim", 1>>)
    /\ Script[Middle + 14] = Run(<<"in_mem", 1>>, "in_mem_buffer", "late")
    /\ Script[Middle + 15] = Run(<<"disk", 1>>, "disk_buffer", "late")
    /\ Script[Middle + 16] = New({"buffer"})
    /\ Script[Middle + 17] = Cat("in_mem_buffer", "buffer", <<"in_mem", 1>>)
    /\ Script[Middle + 18] = Cat("disk_buffer", "buffer", <<"disk", 1>>)
    /\ Script[Middle + 19] = Rm({"in_mem_buffer", "disk_buffer"})
    /\ Script[Middle + 20] = Run(<<"parallel", 1>>, "parallel_out", "late")
    /\ Script[Middle + 21] = New({"correctness"})
    /\ \A k \in 1 .. Datasets :
          /\ Script[Tests + (3 * k - 2)] = Run(<<"cont_test", k>>, "temp_out", "late")
          /\ Script[Tests + (3 * k - 1)] = Cat("temp_out", "correctness", <<"cont_test", k>>)
          /\ Script[Tests + 3 * k] = Rm({"temp_out"})
    /\ Script[Tests + 3 * Datasets + 1] = Rm({"temp_gz", "temp_asp", "temp_ter", "temp_out"})
  <1> DEFINE A == Sketch("agm", "agm_results")
             B == Sketch("cube", "cube_results")
             T == <<Combine, Rm({"agm_results", "cube_results"})>>
             N == <<New({"correctness"})>>
             L == Lengths
             D == 3 * Datasets
  <1>1. /\ IsSeq(A, L) /\ IsSeq(B, L) /\ IsSeq(T, 2) /\ IsSeq(N, 1) /\ L \in Nat /\ D \in Nat
    BY SketchSeq, Tuple1, Tuple2, Sizes
  <1>2. /\ T[1] = Combine /\ T[2] = Rm({"agm_results", "cube_results"})
        /\ N[1] = New({"correctness"})
    OBVIOUS
  <1>3. Script = ((((((A \o B) \o T) \o query_expr_manager) \o run_buffer_expr) \o parallel_expr)
                    \o (N \o TestLoop)) \o clean_up
    BY DEF Script, run_sketch_expr, run_correctness_test, TestLoop
  <1>4. \A k \in 1 .. L :
          /\ A[k] = Run(<<"agm", k>>, "agm_results", IF k = 1 THEN "early" ELSE "append")
          /\ B[k] = Run(<<"cube", k>>, "cube_results", IF k = 1 THEN "early" ELSE "append")
    BY SketchSeq
  <1>5. Middle = L + L /\ Tests = L + L + 21 /\ D = 3 * Datasets /\ L = Lengths
    BY Sizes DEF Middle, Tests
  <1>6. IsSeq(TestLoop, D)
    BY TestSeq
  <1> HIDE DEF A, B, T, N, L, D
  <1> DEFINE S1 == Join(A, B)
             S2 == Join(S1, T)
             S3 == Join(S2, query_expr_manager)
             S4 == Join(S3, run_buffer_expr)
             S5 == Join(S4, parallel_expr)
             E == Join(N, TestLoop)
             S6 == Join(S5, E)
  <1>7. /\ IsSeq(S1, L + L)
        /\ \A k \in 1 .. L : S1[k] = A[k]
        /\ \A k \in 1 .. L : S1[L + k] = B[k]
    <2>1. L \in Nat /\ L \in Nat
      BY <1>1
    <2>2. IsSeq(A, L) /\ IsSeq(B, L)
      BY <1>1
    <2> QED BY ONLY <2>1, <2>2, Joined DEF S1
  <1> HIDE DEF S1
  <1>8. /\ IsSeq(S2, (L + L) + 2)
        /\ \A k \in 1 .. (L + L) : S2[k] = S1[k]
        /\ \A k \in 1 .. 2 : S2[(L + L) + k] = T[k]
    <2>1. (L + L) \in Nat /\ 2 \in Nat
      BY <1>1
    <2>2. IsSeq(S1, (L + L)) /\ IsSeq(T, 2)
      BY <1>1, <1>7
    <2> QED BY ONLY <2>1, <2>2, Joined DEF S2
  <1> HIDE DEF S2
  <1>9. /\ IsSeq(S3, (L + L + 2) + 11)
        /\ \A k \in 1 .. (L + L + 2) : S3[k] = S2[k]
        /\ \A k \in 1 .. 11 : S3[(L + L + 2) + k] = query_expr_manager[k]
    <2>1. (L + L + 2) \in Nat /\ 11 \in Nat
      BY <1>1
    <2>2. IsSeq(S2, (L + L + 2)) /\ IsSeq(query_expr_manager, 11)
      BY <1>8, TupleSeqs
    <2> QED BY ONLY <2>1, <2>2, Joined DEF S3
  <1> HIDE DEF S3
  <1>10. IsSeq(S3, L + L + 13)
    <2>1. L + L + 2 + 11 = L + L + 13
      BY <1>1
    <2> QED BY <1>9, <2>1
  <1>11. /\ IsSeq(S4, (L + L + 13) + 6)
         /\ \A k \in 1 .. (L + L + 13) : S4[k] = S3[k]
         /\ \A k \in 1 .. 6 : S4[(L + L + 13) + k] = run_buffer_expr[k]
    <2>1. (L + L + 13) \in Nat /\ 6 \in Nat
      BY <1>1
    <2>2. IsSeq(S3, (L + L + 13)) /\ IsSeq(run_buffer_expr, 6)
      BY <1>10, TupleSeqs
    <2> QED BY ONLY <2>1, <2>2, Joined DEF S4
  <1> HIDE DEF S4
  <1>12. IsSeq(S4, L + L + 19)
    <2>1. L + L + 13 + 6 = L + L + 19
      BY <1>1
    <2> QED BY <1>11, <2>1
  <1>13. /\ IsSeq(S5, (L + L + 19) + 1)
         /\ \A k \in 1 .. (L + L + 19) : S5[k] = S4[k]
         /\ \A k \in 1 .. 1 : S5[(L + L + 19) + k] = parallel_expr[k]
    <2>1. (L + L + 19) \in Nat /\ 1 \in Nat
      BY <1>1
    <2>2. IsSeq(S4, (L + L + 19)) /\ IsSeq(parallel_expr, 1)
      BY <1>12, TupleSeqs
    <2> QED BY ONLY <2>1, <2>2, Joined DEF S5
  <1> HIDE DEF S5
  <1>14. IsSeq(S5, L + L + 20)
    <2>1. L + L + 19 + 1 = L + L + 20
      BY <1>1
    <2> QED BY <1>13, <2>1
  <1>15. /\ IsSeq(E, 1 + D)
         /\ \A k \in 1 .. 1 : E[k] = N[k]
         /\ \A k \in 1 .. D : E[1 + k] = TestLoop[k]
    <2>1. 1 \in Nat /\ D \in Nat
      BY <1>1
    <2>2. IsSeq(N, 1) /\ IsSeq(TestLoop, D)
      BY <1>1, <1>6
    <2> QED BY ONLY <2>1, <2>2, Joined DEF E
  <1> HIDE DEF E
  <1>16. /\ IsSeq(S6, (L + L + 20) + (1 + D))
         /\ \A k \in 1 .. (L + L + 20) : S6[k] = S5[k]
         /\ \A k \in 1 .. (1 + D) : S6[(L + L + 20) + k] = E[k]
    <2>1. (L + L + 20) \in Nat /\ (1 + D) \in Nat
      BY <1>1
    <2>2. IsSeq(S5, (L + L + 20)) /\ IsSeq(E, (1 + D))
      BY <1>14, <1>15
    <2> QED BY ONLY <2>1, <2>2, Joined DEF S6
  <1> HIDE DEF S6
  <1>17. IsSeq(S6, L + L + 21 + D)
    <2>1. L + L + 20 + (1 + D) = L + L + 21 + D
      BY <1>1
    <2> QED BY <1>16, <2>1
  <1>18. Script = Join(S6, clean_up)
    BY <1>3 DEF S1, S2, S3, S4, S5, S6, E, Join
  <1>19. /\ IsSeq(Script, (L + L + 21 + D) + 1)
         /\ \A k \in 1 .. (L + L + 21 + D) : Script[k] = S6[k]
         /\ \A k \in 1 .. 1 : Script[(L + L + 21 + D) + k] = clean_up[k]
    <2>1. (L + L + 21 + D) \in Nat /\ 1 \in Nat
      BY <1>1
    <2>2. IsSeq(S6, (L + L + 21 + D)) /\ IsSeq(clean_up, 1)
      BY <1>17, TupleSeqs
    <2> QED BY ONLY <1>18, <2>1, <2>2, Joined
  <1>20. \A k \in 1 .. L + L + 20 : Script[k] = S5[k]
    <2>1. \A k \in 1 .. L + L + 20 : k \in 1 .. L + L + 21 + D
      BY <1>1
    <2> QED BY <2>1, <1>16, <1>19
  <1>21. \A k \in 1 .. L + L + 19 : Script[k] = S4[k]
    <2>1. \A k \in 1 .. L + L + 19 : k \in 1 .. L + L + 20
      BY <1>1
    <2> QED BY <2>1, <1>13, <1>20
  <1>22. \A k \in 1 .. L + L + 13 : Script[k] = S3[k]
    <2>1. \A k \in 1 .. L + L + 13 : k \in 1 .. L + L + 19
      BY <1>1
    <2> QED BY <2>1, <1>11, <1>21
  <1>23. \A k \in 1 .. L + L + 2 : Script[k] = S2[k]
    <2>1. \A k \in 1 .. L + L + 2 : k \in 1 .. L + L + 13
      BY <1>1
    <2> QED BY <2>1, <1>9, <1>22
  <1>24. \A k \in 1 .. L + L : Script[k] = S1[k]
    <2>1. \A k \in 1 .. L + L : k \in 1 .. L + L + 2
      BY <1>1
    <2> QED BY <2>1, <1>8, <1>23
  <1>25. \A k \in 1 .. L : Script[k] = A[k] /\ Script[L + k] = B[k]
    <2>1. \A k \in 1 .. L : k \in 1 .. L + L /\ L + k \in 1 .. L + L
      BY <1>1
    <2> QED BY <1>7, <1>24, <2>1
  <1>26. Script[L + L + 1] = T[1] /\ Script[L + L + 2] = T[2]
    <2>1. 1 \in 1 .. 2 /\ 2 \in 1 .. 2 /\ L + L + 1 \in 1 .. L + L + 2 /\ L + L + 2 \in 1 .. L + L + 2
      BY <1>1
    <2> QED BY <1>8, <1>23, <2>1
  <1>27. \A k \in 1 .. 11 : Script[L + L + 2 + k] = query_expr_manager[k]
    <2>1. \A k \in 1 .. 11 : L + L + 2 + k \in 1 .. L + L + 13
      BY <1>1
    <2> QED BY <1>9, <1>22, <2>1
  <1>28. \A k \in 1 .. 6 : Script[L + L + 13 + k] = run_buffer_expr[k]
    <2>1. \A k \in 1 .. 6 : L + L + 13 + k \in 1 .. L + L + 19
      BY <1>1
    <2> QED BY <1>11, <1>21, <2>1
  <1>29. Script[L + L + 20] = parallel_expr[1]
    <2>1. L + L + 20 \in 1 .. L + L + 20 /\ 1 \in 1 .. 1 /\ L + L + 19 + 1 = L + L + 20
      BY <1>1
    <2> QED BY <1>13, <1>20, <2>1
  <1>30. \A k \in 1 .. 1 + D : Script[L + L + 20 + k] = E[k]
    <2>1. \A k \in 1 .. 1 + D : L + L + 20 + k \in 1 .. L + L + 21 + D
      BY <1>1
    <2> QED BY <1>16, <1>19, <2>1
  <1>31. Script[L + L + 21] = N[1]
    <2>1. 1 \in 1 .. 1 + D /\ 1 \in 1 .. 1 /\ L + L + 20 + 1 = L + L + 21
      BY <1>1
    <2> QED BY <1>15, <1>30, <2>1
  <1>32. \A k \in 1 .. D : Script[L + L + 21 + k] = TestLoop[k]
    <2>1. \A k \in 1 .. D : 1 + k \in 1 .. 1 + D /\ L + L + 20 + (1 + k) = L + L + 21 + k
      BY <1>1
    <2> QED BY <1>15, <1>30, <2>1
  <1>33. Script[L + L + 21 + D + 1] = clean_up[1]
    <2>1. 1 \in 1 .. 1
      OBVIOUS
    <2> QED BY <1>19, <2>1
  <1>34. IsSeq(Script, Tests + 3 * Datasets + 1)
    BY <1>5, <1>19
  <1>35. \A k \in 1 .. Lengths :
          /\ Script[k] =
               Run(<<"agm", k>>, "agm_results", IF k = 1 THEN "early" ELSE "append")
          /\ Script[Lengths + k] =
               Run(<<"cube", k>>, "cube_results", IF k = 1 THEN "early" ELSE "append")
    BY <1>4, <1>5, <1>25
  <1>36. \A k \in 1 .. Datasets :
          /\ Script[Tests + (3 * k - 2)] = Run(<<"cont_test", k>>, "temp_out", "late")
          /\ Script[Tests + (3 * k - 1)] = Cat("temp_out", "correctness", <<"cont_test", k>>)
          /\ Script[Tests + 3 * k] = Rm({"temp_out"})
    <2>1. \A k \in 1 .. Datasets : 3 * k - 2 \in 1 .. D /\ 3 * k - 1 \in 1 .. D /\ 3 * k \in 1 .. D
      BY <1>5, Sizes
    <2> QED BY <1>5, <1>32, <2>1, TestSeq
  <1>37. Script[Tests + 3 * Datasets + 1] = Rm({"temp_gz", "temp_asp", "temp_ter", "temp_out"})
    BY <1>5, <1>33 DEF clean_up
  <1>38. /\ Script[Middle + 1] = Combine
         /\ Script[Middle + 2] = Rm({"agm_results", "cube_results"})
    BY <1>2, <1>5, <1>26
  <1>39. /\ Script[Middle + 3] = New({"unlim_query", "lim_query"})
         /\ Script[Middle + 4] = Run(<<"gz_unlim", 1>>, "temp_gz", "late")
         /\ Script[Middle + 5] = Run(<<"asp_unlim", 1>>, "temp_asp", "open")
         /\ Script[Middle + 6] = Run(<<"ter_unlim", 1>>, "temp_ter", "open")
         /\ Script[Middle + 7] = Cat("temp_gz", "unlim_query", <<"gz_unlim", 1>>)
         /\ Script[Middle + 8] = Cat("temp_asp", "unlim_query", <<"asp_unlim", 1>>)
         /\ Script[Middle + 9] = Cat("temp_ter", "unlim_query", <<"ter_unlim", 1>>)
         /\ Script[Middle + 10] = Run(<<"gz_lim", 1>>, "temp_gz", "late")
         /\ Script[Middle + 11] = Run(<<"asp_lim", 1>>, "temp_asp", "open")
         /\ Script[Middle + 12] = Cat("temp_gz", "lim_query", <<"gz_lim", 1>>)
         /\ Script[Middle + 13] = Cat("temp_asp", "lim_query", <<"asp_lim", 1>>)
    <2>1. /\ query_expr_manager[1] = New({"unlim_query", "lim_query"})
          /\ query_expr_manager[2] = Run(<<"gz_unlim", 1>>, "temp_gz", "late")
          /\ query_expr_manager[3] = Run(<<"asp_unlim", 1>>, "temp_asp", "open")
          /\ query_expr_manager[4] = Run(<<"ter_unlim", 1>>, "temp_ter", "open")
          /\ query_expr_manager[5] = Cat("temp_gz", "unlim_query", <<"gz_unlim", 1>>)
          /\ query_expr_manager[6] = Cat("temp_asp", "unlim_query", <<"asp_unlim", 1>>)
          /\ query_expr_manager[7] = Cat("temp_ter", "unlim_query", <<"ter_unlim", 1>>)
          /\ query_expr_manager[8] = Run(<<"gz_lim", 1>>, "temp_gz", "late")
          /\ query_expr_manager[9] = Run(<<"asp_lim", 1>>, "temp_asp", "open")
          /\ query_expr_manager[10] = Cat("temp_gz", "lim_query", <<"gz_lim", 1>>)
          /\ query_expr_manager[11] = Cat("temp_asp", "lim_query", <<"asp_lim", 1>>)
      BY DEF query_expr_manager
    <2>2. /\ 1 \in 1 .. 11 /\ L + L + 2 + 1 = Middle + 3
          /\ 2 \in 1 .. 11 /\ L + L + 2 + 2 = Middle + 4
          /\ 3 \in 1 .. 11 /\ L + L + 2 + 3 = Middle + 5
          /\ 4 \in 1 .. 11 /\ L + L + 2 + 4 = Middle + 6
          /\ 5 \in 1 .. 11 /\ L + L + 2 + 5 = Middle + 7
          /\ 6 \in 1 .. 11 /\ L + L + 2 + 6 = Middle + 8
          /\ 7 \in 1 .. 11 /\ L + L + 2 + 7 = Middle + 9
          /\ 8 \in 1 .. 11 /\ L + L + 2 + 8 = Middle + 10
          /\ 9 \in 1 .. 11 /\ L + L + 2 + 9 = Middle + 11
          /\ 10 \in 1 .. 11 /\ L + L + 2 + 10 = Middle + 12
          /\ 11 \in 1 .. 11 /\ L + L + 2 + 11 = Middle + 13
      BY <1>1, <1>5
    <2>3. /\ Script[Middle + 3] = query_expr_manager[1]
          /\ Script[Middle + 4] = query_expr_manager[2]
          /\ Script[Middle + 5] = query_expr_manager[3]
          /\ Script[Middle + 6] = query_expr_manager[4]
          /\ Script[Middle + 7] = query_expr_manager[5]
          /\ Script[Middle + 8] = query_expr_manager[6]
          /\ Script[Middle + 9] = query_expr_manager[7]
          /\ Script[Middle + 10] = query_expr_manager[8]
          /\ Script[Middle + 11] = query_expr_manager[9]
          /\ Script[Middle + 12] = query_expr_manager[10]
          /\ Script[Middle + 13] = query_expr_manager[11]
      BY <2>2, <1>27
    <2> QED BY <2>1, <2>3
  <1>40. /\ Script[Middle + 14] = Run(<<"in_mem", 1>>, "in_mem_buffer", "late")
         /\ Script[Middle + 15] = Run(<<"disk", 1>>, "disk_buffer", "late")
         /\ Script[Middle + 16] = New({"buffer"})
         /\ Script[Middle + 17] = Cat("in_mem_buffer", "buffer", <<"in_mem", 1>>)
         /\ Script[Middle + 18] = Cat("disk_buffer", "buffer", <<"disk", 1>>)
         /\ Script[Middle + 19] = Rm({"in_mem_buffer", "disk_buffer"})
    <2>1. /\ run_buffer_expr[1] = Run(<<"in_mem", 1>>, "in_mem_buffer", "late")
          /\ run_buffer_expr[2] = Run(<<"disk", 1>>, "disk_buffer", "late")
          /\ run_buffer_expr[3] = New({"buffer"})
          /\ run_buffer_expr[4] = Cat("in_mem_buffer", "buffer", <<"in_mem", 1>>)
          /\ run_buffer_expr[5] = Cat("disk_buffer", "buffer", <<"disk", 1>>)
          /\ run_buffer_expr[6] = Rm({"in_mem_buffer", "disk_buffer"})
      BY DEF run_buffer_expr
    <2>2. /\ 1 \in 1 .. 6 /\ L + L + 13 + 1 = Middle + 14
          /\ 2 \in 1 .. 6 /\ L + L + 13 + 2 = Middle + 15
          /\ 3 \in 1 .. 6 /\ L + L + 13 + 3 = Middle + 16
          /\ 4 \in 1 .. 6 /\ L + L + 13 + 4 = Middle + 17
          /\ 5 \in 1 .. 6 /\ L + L + 13 + 5 = Middle + 18
          /\ 6 \in 1 .. 6 /\ L + L + 13 + 6 = Middle + 19
      BY <1>1, <1>5
    <2>3. /\ Script[Middle + 14] = run_buffer_expr[1]
          /\ Script[Middle + 15] = run_buffer_expr[2]
          /\ Script[Middle + 16] = run_buffer_expr[3]
          /\ Script[Middle + 17] = run_buffer_expr[4]
          /\ Script[Middle + 18] = run_buffer_expr[5]
          /\ Script[Middle + 19] = run_buffer_expr[6]
      BY <2>2, <1>28
    <2> QED BY <2>1, <2>3
  <1>41. /\ Script[Middle + 20] = Run(<<"parallel", 1>>, "parallel_out", "late")
         /\ Script[Middle + 21] = New({"correctness"})
    BY <1>2, <1>5, <1>29, <1>31 DEF parallel_expr
  <1> QED BY <1>34, <1>35, <1>36, <1>37, <1>38, <1>39, <1>40, <1>41

\* The script is a sequence.
LEMMA ScriptSeq ==
    /\ Len(Script) = Tests + 3 * Datasets + 1 /\ Len(Script) \in Nat
    /\ DOMAIN Script = 1 .. Len(Script) /\ Middle \in Nat /\ Tests = Middle + 21
  <1>1. PICK S : Script \in Seq(S) /\ Len(Script) = Tests + 3 * Datasets + 1
    BY ScriptAt DEF IsSeq
  <1> QED BY <1>1, Sizes DEF Middle, Tests

\* The positions of the script, part by part.
LEMMA Positions ==
    ASSUME NEW k \in 1 .. Len(Script)
    PROVE  \/ k \in 1 .. Lengths
           \/ \E n \in 1 .. Lengths : k = Lengths + n
           \/ k \in Middle + 1 .. Middle + 21
           \/ \E n \in 1 .. Datasets :
                 k = Tests + (3 * n - 2) \/ k = Tests + (3 * n - 1) \/ k = Tests + 3 * n
           \/ k = Tests + 3 * Datasets + 1
  <1>1. k \in Int /\ 1 <= k /\ k <= Tests + 3 * Datasets + 1
    BY ScriptSeq
  <1>2. CASE k <= Lengths
    BY <1>1, <1>2, Sizes
  <1>3. CASE k > Lengths /\ k <= Middle
    <2>1. k - Lengths \in 1 .. Lengths /\ k = Lengths + (k - Lengths)
      BY <1>1, <1>3, Sizes DEF Middle
    <2> QED BY <2>1
  <1>4. CASE k > Middle /\ k <= Tests
    BY <1>1, <1>4, Sizes DEF Middle, Tests
  <1>5. CASE k > Tests /\ k <= Tests + 3 * Datasets
    <2>1. PICK x \in Nat : k = Tests + 1 + x /\ x < 3 * Datasets
      <3>1. k - Tests - 1 \in Nat /\ k = Tests + 1 + (k - Tests - 1) /\ k - Tests - 1 < 3 * Datasets
        BY <1>1, <1>5, Sizes DEF Tests
      <3> QED BY <3>1
    <2>2. PICK n \in 1 .. Datasets : x = 3 * n - 3 \/ x = 3 * n - 2 \/ x = 3 * n - 1
      <3>1. (x \div 3) + 1 \in 1 .. Datasets
        BY <2>1, Sizes
      <3>2. \/ x = 3 * ((x \div 3) + 1) - 3 \/ x = 3 * ((x \div 3) + 1) - 2
            \/ x = 3 * ((x \div 3) + 1) - 1
        OBVIOUS
      <3> QED BY <3>1, <3>2
    <2>3. \/ k = Tests + (3 * n - 2) \/ k = Tests + (3 * n - 1) \/ k = Tests + 3 * n
      BY <2>1, <2>2, Sizes DEF Tests
    <2> QED BY <2>3
  <1>6. CASE k > Tests + 3 * Datasets
    BY <1>1, <1>6, Sizes DEF Tests
  <1> QED BY <1>1, <1>2, <1>3, <1>4, <1>5, <1>6, Sizes DEF Middle, Tests

\* The positions from the combination to the start of the correctness test.
LEMMA MiddlePositions ==
    ASSUME NEW k \in Middle + 1 .. Middle + 21
    PROVE  \/ k = Middle + 1 \/ k = Middle + 2 \/ k = Middle + 3 \/ k = Middle + 4 \/ k = Middle + 5
           \/ k = Middle + 6 \/ k = Middle + 7 \/ k = Middle + 8 \/ k = Middle + 9 \/ k = Middle + 10
           \/ k = Middle + 11 \/ k = Middle + 12 \/ k = Middle + 13 \/ k = Middle + 14 \/ k = Middle + 15
           \/ k = Middle + 16 \/ k = Middle + 17 \/ k = Middle + 18 \/ k = Middle + 19 \/ k = Middle + 20 \/ k = Middle + 21
  <1>1. k \in Int /\ Middle \in Int /\ Middle + 1 <= k /\ k <= Middle + 21
    BY ScriptSeq
  <1> QED BY ONLY <1>1

\* The processes.
RunAt(k, j, f, mode) ==
    /\ Script[k].op = "run" /\ Script[k].job = j /\ Script[k].file = f /\ Script[k].mode = mode
CatAt(k, f, c, j) ==
    /\ Script[k].op = "cat" /\ Script[k].job = j /\ Script[k].file = f /\ Script[k].csv = c
RmAt(k, fs) == Script[k].op = "rm" /\ Script[k].files = fs
NewAt(k, cs) == Script[k].op = "new" /\ Script[k].csvs = cs


\* The fields of every command of the script.
LEMMA CommandAt ==
    /\ \A k \in 1 .. Lengths :
          /\ RunAt(k, <<"agm", k>>, "agm_results", IF k = 1 THEN "early" ELSE "append")
          /\ RunAt(Lengths + k, <<"cube", k>>, "cube_results", IF k = 1 THEN "early" ELSE "append")
    /\ Script[Middle + 1].op = "combine"
    /\ RmAt(Middle + 2, {"agm_results", "cube_results"})
    /\ NewAt(Middle + 3, {"unlim_query", "lim_query"})
    /\ RunAt(Middle + 4, <<"gz_unlim", 1>>, "temp_gz", "late")
    /\ RunAt(Middle + 5, <<"asp_unlim", 1>>, "temp_asp", "open")
    /\ RunAt(Middle + 6, <<"ter_unlim", 1>>, "temp_ter", "open")
    /\ CatAt(Middle + 7, "temp_gz", "unlim_query", <<"gz_unlim", 1>>)
    /\ CatAt(Middle + 8, "temp_asp", "unlim_query", <<"asp_unlim", 1>>)
    /\ CatAt(Middle + 9, "temp_ter", "unlim_query", <<"ter_unlim", 1>>)
    /\ RunAt(Middle + 10, <<"gz_lim", 1>>, "temp_gz", "late")
    /\ RunAt(Middle + 11, <<"asp_lim", 1>>, "temp_asp", "open")
    /\ CatAt(Middle + 12, "temp_gz", "lim_query", <<"gz_lim", 1>>)
    /\ CatAt(Middle + 13, "temp_asp", "lim_query", <<"asp_lim", 1>>)
    /\ RunAt(Middle + 14, <<"in_mem", 1>>, "in_mem_buffer", "late")
    /\ RunAt(Middle + 15, <<"disk", 1>>, "disk_buffer", "late")
    /\ NewAt(Middle + 16, {"buffer"})
    /\ CatAt(Middle + 17, "in_mem_buffer", "buffer", <<"in_mem", 1>>)
    /\ CatAt(Middle + 18, "disk_buffer", "buffer", <<"disk", 1>>)
    /\ RmAt(Middle + 19, {"in_mem_buffer", "disk_buffer"})
    /\ RunAt(Middle + 20, <<"parallel", 1>>, "parallel_out", "late")
    /\ NewAt(Middle + 21, {"correctness"})
    /\ \A k \in 1 .. Datasets :
          /\ RunAt(Tests + (3 * k - 2), <<"cont_test", k>>, "temp_out", "late")
          /\ CatAt(Tests + (3 * k - 1), "temp_out", "correctness", <<"cont_test", k>>)
          /\ RmAt(Tests + 3 * k, {"temp_out"})
    /\ RmAt(Tests + 3 * Datasets + 1, {"temp_gz", "temp_asp", "temp_ter", "temp_out"})
  <1>1. \A k, j, f, mode : Script[k] = Run(j, f, mode) => RunAt(k, j, f, mode)
    BY RunFields DEF RunAt
  <1>2. \A k, j, f, c : Script[k] = Cat(f, c, j) => CatAt(k, f, c, j)
    BY CatFields DEF CatAt
  <1>3. /\ \A k, fs : Script[k] = Rm(fs) => RmAt(k, fs)
        /\ \A k, cs : Script[k] = New(cs) => NewAt(k, cs)
        /\ \A k : Script[k] = Combine => Script[k].op = "combine"
    BY OtherFields DEF RmAt, NewAt
  <1>4. ASSUME NEW k \in 1 .. Lengths
        PROVE  /\ RunAt(k, <<"agm", k>>, "agm_results", IF k = 1 THEN "early" ELSE "append")
               /\ RunAt(Lengths + k, <<"cube", k>>, "cube_results",
                        IF k = 1 THEN "early" ELSE "append")
    BY <1>1, ScriptAt
  <1>5. ASSUME NEW k \in 1 .. Datasets
        PROVE  /\ RunAt(Tests + (3 * k - 2), <<"cont_test", k>>, "temp_out", "late")
               /\ CatAt(Tests + (3 * k - 1), "temp_out", "correctness", <<"cont_test", k>>)
               /\ RmAt(Tests + 3 * k, {"temp_out"})
    BY <1>1, <1>2, <1>3, ScriptAt
  <1>6. /\ Script[Middle + 1].op = "combine"
        /\ RmAt(Middle + 2, {"agm_results", "cube_results"})
        /\ NewAt(Middle + 3, {"unlim_query", "lim_query"})
        /\ RunAt(Middle + 4, <<"gz_unlim", 1>>, "temp_gz", "late")
        /\ RunAt(Middle + 5, <<"asp_unlim", 1>>, "temp_asp", "open")
        /\ RunAt(Middle + 6, <<"ter_unlim", 1>>, "temp_ter", "open")
        /\ CatAt(Middle + 7, "temp_gz", "unlim_query", <<"gz_unlim", 1>>)
    BY <1>1, <1>2, <1>3, ScriptAt
  <1>7. /\ CatAt(Middle + 8, "temp_asp", "unlim_query", <<"asp_unlim", 1>>)
        /\ CatAt(Middle + 9, "temp_ter", "unlim_query", <<"ter_unlim", 1>>)
        /\ RunAt(Middle + 10, <<"gz_lim", 1>>, "temp_gz", "late")
        /\ RunAt(Middle + 11, <<"asp_lim", 1>>, "temp_asp", "open")
        /\ CatAt(Middle + 12, "temp_gz", "lim_query", <<"gz_lim", 1>>)
        /\ CatAt(Middle + 13, "temp_asp", "lim_query", <<"asp_lim", 1>>)
        /\ RunAt(Middle + 14, <<"in_mem", 1>>, "in_mem_buffer", "late")
    BY <1>1, <1>2, <1>3, ScriptAt
  <1>8. /\ RunAt(Middle + 15, <<"disk", 1>>, "disk_buffer", "late")
        /\ NewAt(Middle + 16, {"buffer"})
        /\ CatAt(Middle + 17, "in_mem_buffer", "buffer", <<"in_mem", 1>>)
        /\ CatAt(Middle + 18, "disk_buffer", "buffer", <<"disk", 1>>)
        /\ RmAt(Middle + 19, {"in_mem_buffer", "disk_buffer"})
        /\ RunAt(Middle + 20, <<"parallel", 1>>, "parallel_out", "late")
        /\ NewAt(Middle + 21, {"correctness"})
    BY <1>1, <1>2, <1>3, ScriptAt
  <1>9. RmAt(Tests + 3 * Datasets + 1, {"temp_gz", "temp_asp", "temp_ter", "temp_out"})
    BY <1>3, ScriptAt
  <1> QED BY <1>4, <1>5, <1>6, <1>7, <1>8, <1>9


\* The commands from the combination to the start of the correctness test.
LEMMA MiddleTable ==
    ASSUME NEW k \in Middle + 1 .. Middle + 21
    PROVE  \/ k = Middle + 1 /\ Script[k].op = "combine"
           \/ k = Middle + 2 /\ RmAt(k, {"agm_results", "cube_results"})
           \/ k = Middle + 3 /\ NewAt(k, {"unlim_query", "lim_query"})
           \/ k = Middle + 4 /\ RunAt(k, <<"gz_unlim", 1>>, "temp_gz", "late")
           \/ k = Middle + 5 /\ RunAt(k, <<"asp_unlim", 1>>, "temp_asp", "open")
           \/ k = Middle + 6 /\ RunAt(k, <<"ter_unlim", 1>>, "temp_ter", "open")
           \/ k = Middle + 7 /\ CatAt(k, "temp_gz", "unlim_query", <<"gz_unlim", 1>>)
           \/ k = Middle + 8 /\ CatAt(k, "temp_asp", "unlim_query", <<"asp_unlim", 1>>)
           \/ k = Middle + 9 /\ CatAt(k, "temp_ter", "unlim_query", <<"ter_unlim", 1>>)
           \/ k = Middle + 10 /\ RunAt(k, <<"gz_lim", 1>>, "temp_gz", "late")
           \/ k = Middle + 11 /\ RunAt(k, <<"asp_lim", 1>>, "temp_asp", "open")
           \/ k = Middle + 12 /\ CatAt(k, "temp_gz", "lim_query", <<"gz_lim", 1>>)
           \/ k = Middle + 13 /\ CatAt(k, "temp_asp", "lim_query", <<"asp_lim", 1>>)
           \/ k = Middle + 14 /\ RunAt(k, <<"in_mem", 1>>, "in_mem_buffer", "late")
           \/ k = Middle + 15 /\ RunAt(k, <<"disk", 1>>, "disk_buffer", "late")
           \/ k = Middle + 16 /\ NewAt(k, {"buffer"})
           \/ k = Middle + 17 /\ CatAt(k, "in_mem_buffer", "buffer", <<"in_mem", 1>>)
           \/ k = Middle + 18 /\ CatAt(k, "disk_buffer", "buffer", <<"disk", 1>>)
           \/ k = Middle + 19 /\ RmAt(k, {"in_mem_buffer", "disk_buffer"})
           \/ k = Middle + 20 /\ RunAt(k, <<"parallel", 1>>, "parallel_out", "late")
           \/ k = Middle + 21 /\ NewAt(k, {"correctness"})
  <1>1. CASE k = Middle + 1 \/ k = Middle + 2 \/ k = Middle + 3 \/ k = Middle + 4 \/ k = Middle + 5 \/ k = Middle + 6 \/ k = Middle + 7
    <2>1. /\ Script[Middle + 1].op = "combine"
          /\ RmAt(Middle + 2, {"agm_results", "cube_results"})
          /\ NewAt(Middle + 3, {"unlim_query", "lim_query"})
          /\ RunAt(Middle + 4, <<"gz_unlim", 1>>, "temp_gz", "late")
          /\ RunAt(Middle + 5, <<"asp_unlim", 1>>, "temp_asp", "open")
          /\ RunAt(Middle + 6, <<"ter_unlim", 1>>, "temp_ter", "open")
          /\ CatAt(Middle + 7, "temp_gz", "unlim_query", <<"gz_unlim", 1>>)
      BY CommandAt
    <2> QED BY <1>1, <2>1
  <1>2. CASE k = Middle + 8 \/ k = Middle + 9 \/ k = Middle + 10 \/ k = Middle + 11 \/ k = Middle + 12 \/ k = Middle + 13 \/ k = Middle + 14
    <2>1. /\ CatAt(Middle + 8, "temp_asp", "unlim_query", <<"asp_unlim", 1>>)
          /\ CatAt(Middle + 9, "temp_ter", "unlim_query", <<"ter_unlim", 1>>)
          /\ RunAt(Middle + 10, <<"gz_lim", 1>>, "temp_gz", "late")
          /\ RunAt(Middle + 11, <<"asp_lim", 1>>, "temp_asp", "open")
          /\ CatAt(Middle + 12, "temp_gz", "lim_query", <<"gz_lim", 1>>)
          /\ CatAt(Middle + 13, "temp_asp", "lim_query", <<"asp_lim", 1>>)
          /\ RunAt(Middle + 14, <<"in_mem", 1>>, "in_mem_buffer", "late")
      BY CommandAt
    <2> QED BY <1>2, <2>1
  <1>3. CASE k = Middle + 15 \/ k = Middle + 16 \/ k = Middle + 17 \/ k = Middle + 18 \/ k = Middle + 19 \/ k = Middle + 20 \/ k = Middle + 21
    <2>1. /\ RunAt(Middle + 15, <<"disk", 1>>, "disk_buffer", "late")
          /\ NewAt(Middle + 16, {"buffer"})
          /\ CatAt(Middle + 17, "in_mem_buffer", "buffer", <<"in_mem", 1>>)
          /\ CatAt(Middle + 18, "disk_buffer", "buffer", <<"disk", 1>>)
          /\ RmAt(Middle + 19, {"in_mem_buffer", "disk_buffer"})
          /\ RunAt(Middle + 20, <<"parallel", 1>>, "parallel_out", "late")
          /\ NewAt(Middle + 21, {"correctness"})
      BY CommandAt
    <2> QED BY <1>3, <2>1
  <1> QED BY <1>1, <1>2, <1>3, MiddlePositions


\* Every command is one of these.
LEMMA Table ==
    ASSUME NEW k \in 1 .. Len(Script)
    PROVE  \/ /\ k \in 1 .. Lengths
              /\ RunAt(k, <<"agm", k>>, "agm_results", IF k = 1 THEN "early" ELSE "append")
           \/ \E n \in 1 .. Lengths :
                 /\ k = Lengths + n
                 /\ RunAt(k, <<"cube", n>>, "cube_results", IF n = 1 THEN "early" ELSE "append")
           \/ k = Middle + 1 /\ Script[k].op = "combine"
           \/ k = Middle + 2 /\ RmAt(k, {"agm_results", "cube_results"})
           \/ k = Middle + 3 /\ NewAt(k, {"unlim_query", "lim_query"})
           \/ k = Middle + 4 /\ RunAt(k, <<"gz_unlim", 1>>, "temp_gz", "late")
           \/ k = Middle + 5 /\ RunAt(k, <<"asp_unlim", 1>>, "temp_asp", "open")
           \/ k = Middle + 6 /\ RunAt(k, <<"ter_unlim", 1>>, "temp_ter", "open")
           \/ k = Middle + 7 /\ CatAt(k, "temp_gz", "unlim_query", <<"gz_unlim", 1>>)
           \/ k = Middle + 8 /\ CatAt(k, "temp_asp", "unlim_query", <<"asp_unlim", 1>>)
           \/ k = Middle + 9 /\ CatAt(k, "temp_ter", "unlim_query", <<"ter_unlim", 1>>)
           \/ k = Middle + 10 /\ RunAt(k, <<"gz_lim", 1>>, "temp_gz", "late")
           \/ k = Middle + 11 /\ RunAt(k, <<"asp_lim", 1>>, "temp_asp", "open")
           \/ k = Middle + 12 /\ CatAt(k, "temp_gz", "lim_query", <<"gz_lim", 1>>)
           \/ k = Middle + 13 /\ CatAt(k, "temp_asp", "lim_query", <<"asp_lim", 1>>)
           \/ k = Middle + 14 /\ RunAt(k, <<"in_mem", 1>>, "in_mem_buffer", "late")
           \/ k = Middle + 15 /\ RunAt(k, <<"disk", 1>>, "disk_buffer", "late")
           \/ k = Middle + 16 /\ NewAt(k, {"buffer"})
           \/ k = Middle + 17 /\ CatAt(k, "in_mem_buffer", "buffer", <<"in_mem", 1>>)
           \/ k = Middle + 18 /\ CatAt(k, "disk_buffer", "buffer", <<"disk", 1>>)
           \/ k = Middle + 19 /\ RmAt(k, {"in_mem_buffer", "disk_buffer"})
           \/ k = Middle + 20 /\ RunAt(k, <<"parallel", 1>>, "parallel_out", "late")
           \/ k = Middle + 21 /\ NewAt(k, {"correctness"})
           \/ \E n \in 1 .. Datasets :
                 \/ k = Tests + (3 * n - 2) /\ RunAt(k, <<"cont_test", n>>, "temp_out", "late")
                 \/ k = Tests + (3 * n - 1)
                    /\ CatAt(k, "temp_out", "correctness", <<"cont_test", n>>)
                 \/ k = Tests + 3 * n /\ RmAt(k, {"temp_out"})
           \/ /\ k = Tests + 3 * Datasets + 1
              /\ RmAt(k, {"temp_gz", "temp_asp", "temp_ter", "temp_out"})
  <1>1. CASE k \in 1 .. Lengths
    BY <1>1, CommandAt
  <1>2. CASE \E n \in 1 .. Lengths : k = Lengths + n
    BY <1>2, CommandAt
  <1>3. CASE k \in Middle + 1 .. Middle + 21
    BY <1>3, MiddleTable
  <1>4. CASE \E n \in 1 .. Datasets :
               k = Tests + (3 * n - 2) \/ k = Tests + (3 * n - 1) \/ k = Tests + 3 * n
    BY <1>4, CommandAt
  <1>5. CASE k = Tests + 3 * Datasets + 1
    BY <1>5, CommandAt
  <1> QED BY <1>1, <1>2, <1>3, <1>4, <1>5, Positions


\* Which commands start a process ...
LEMMA RunTable ==
    ASSUME NEW k \in 1 .. Len(Script), Script[k].op = "run"
    PROVE  \/ /\ k \in 1 .. Lengths
              /\ RunAt(k, <<"agm", k>>, "agm_results", IF k = 1 THEN "early" ELSE "append")
           \/ \E n \in 1 .. Lengths :
                 /\ k = Lengths + n
                 /\ RunAt(k, <<"cube", n>>, "cube_results", IF n = 1 THEN "early" ELSE "append")
           \/ k = Middle + 4 /\ RunAt(k, <<"gz_unlim", 1>>, "temp_gz", "late")
           \/ k = Middle + 5 /\ RunAt(k, <<"asp_unlim", 1>>, "temp_asp", "open")
           \/ k = Middle + 6 /\ RunAt(k, <<"ter_unlim", 1>>, "temp_ter", "open")
           \/ k = Middle + 10 /\ RunAt(k, <<"gz_lim", 1>>, "temp_gz", "late")
           \/ k = Middle + 11 /\ RunAt(k, <<"asp_lim", 1>>, "temp_asp", "open")
           \/ k = Middle + 14 /\ RunAt(k, <<"in_mem", 1>>, "in_mem_buffer", "late")
           \/ k = Middle + 15 /\ RunAt(k, <<"disk", 1>>, "disk_buffer", "late")
           \/ k = Middle + 20 /\ RunAt(k, <<"parallel", 1>>, "parallel_out", "late")
           \/ \E n \in 1 .. Datasets :
                 k = Tests + (3 * n - 2) /\ RunAt(k, <<"cont_test", n>>, "temp_out", "late")
  <1>1. /\ \A f, c, j : ~CatAt(k, f, c, j)
        /\ \A fs : ~RmAt(k, fs)
        /\ \A cs : ~NewAt(k, cs)
        /\ Script[k].op # "combine"
    BY DEF CatAt, RmAt, NewAt
  <1> QED BY <1>1, Table

\* ... which read a file into a csv file ...
LEMMA CatTable ==
    ASSUME NEW k \in 1 .. Len(Script), Script[k].op = "cat"
    PROVE  \/ k = Middle + 7 /\ CatAt(k, "temp_gz", "unlim_query", <<"gz_unlim", 1>>)
           \/ k = Middle + 8 /\ CatAt(k, "temp_asp", "unlim_query", <<"asp_unlim", 1>>)
           \/ k = Middle + 9 /\ CatAt(k, "temp_ter", "unlim_query", <<"ter_unlim", 1>>)
           \/ k = Middle + 12 /\ CatAt(k, "temp_gz", "lim_query", <<"gz_lim", 1>>)
           \/ k = Middle + 13 /\ CatAt(k, "temp_asp", "lim_query", <<"asp_lim", 1>>)
           \/ k = Middle + 17 /\ CatAt(k, "in_mem_buffer", "buffer", <<"in_mem", 1>>)
           \/ k = Middle + 18 /\ CatAt(k, "disk_buffer", "buffer", <<"disk", 1>>)
           \/ \E n \in 1 .. Datasets :
                 /\ k = Tests + (3 * n - 1)
                 /\ CatAt(k, "temp_out", "correctness", <<"cont_test", n>>)
  <1>1. /\ \A j, f, mode : ~RunAt(k, j, f, mode)
        /\ \A fs : ~RmAt(k, fs)
        /\ \A cs : ~NewAt(k, cs)
        /\ Script[k].op # "combine"
    BY DEF RunAt, RmAt, NewAt
  <1> QED BY <1>1, Table

\* ... which begin a csv file ...
LEMMA NewTable ==
    ASSUME NEW k \in 1 .. Len(Script), Script[k].op = "new"
    PROVE  \/ k = Middle + 3 /\ NewAt(k, {"unlim_query", "lim_query"})
           \/ k = Middle + 16 /\ NewAt(k, {"buffer"})
           \/ k = Middle + 21 /\ NewAt(k, {"correctness"})
  <1>1. /\ \A j, f, mode : ~RunAt(k, j, f, mode)
        /\ \A f, c, j : ~CatAt(k, f, c, j)
        /\ \A fs : ~RmAt(k, fs)
        /\ Script[k].op # "combine"
    BY DEF RunAt, RmAt, CatAt
  <1> QED BY <1>1, Table

\* ... which remove files ...
LEMMA RmTable ==
    ASSUME NEW k \in 1 .. Len(Script), Script[k].op = "rm"
    PROVE  \/ k = Middle + 2 /\ RmAt(k, {"agm_results", "cube_results"})
           \/ k = Middle + 19 /\ RmAt(k, {"in_mem_buffer", "disk_buffer"})
           \/ \E n \in 1 .. Datasets : k = Tests + 3 * n /\ RmAt(k, {"temp_out"})
           \/ /\ k = Tests + 3 * Datasets + 1
              /\ RmAt(k, {"temp_gz", "temp_asp", "temp_ter", "temp_out"})
  <1>1. /\ \A j, f, mode : ~RunAt(k, j, f, mode)
        /\ \A f, c, j : ~CatAt(k, f, c, j)
        /\ \A cs : ~NewAt(k, cs)
        /\ Script[k].op # "combine"
    BY DEF RunAt, NewAt, CatAt
  <1> QED BY <1>1, Table

\* ... and which combines the two sketches.
LEMMA CombineTable ==
    ASSUME NEW k \in 1 .. Len(Script), Script[k].op = "combine"
    PROVE  k = Middle + 1
  <1>1. /\ \A j, f, mode : ~RunAt(k, j, f, mode)
        /\ \A f, c, j : ~CatAt(k, f, c, j)
        /\ \A cs : ~NewAt(k, cs)
        /\ \A fs : ~RmAt(k, fs)
    BY DEF RunAt, NewAt, CatAt, RmAt
  <1> QED BY <1>1, Table

---------------------------------------------------------------------------
(* What the order of the commands is good for.                             *)

\* Where the process of a job is.
PositionOf(j) ==
    CASE j[1] = "agm" -> j[2]
      [] j[1] = "cube" -> Lengths + j[2]
      [] j[1] = "gz_unlim" -> Middle + 4
      [] j[1] = "asp_unlim" -> Middle + 5
      [] j[1] = "ter_unlim" -> Middle + 6
      [] j[1] = "gz_lim" -> Middle + 10
      [] j[1] = "asp_lim" -> Middle + 11
      [] j[1] = "in_mem" -> Middle + 14
      [] j[1] = "disk" -> Middle + 15
      [] j[1] = "parallel" -> Middle + 20
      [] j[1] = "cont_test" -> Tests + (3 * j[2] - 2)

\* No process writes a file after this command, and the command after which it
\* is removed.
LastWrite(f) ==
    CASE f = "agm_results" -> Lengths
      [] f = "cube_results" -> Middle
      [] f \in {"in_mem_buffer", "disk_buffer"} -> Middle + 15
      [] f = "parallel_out" -> Middle + 20
      [] f \in {"temp_gz", "temp_asp", "temp_ter", "temp_out"} -> Tests + 3 * Datasets

\* Where a csv file is emptied.
NewOf(c) ==
    CASE c \in {"unlim_query", "lim_query"} -> Middle + 3
      [] c = "buffer" -> Middle + 16
      [] c = "correctness" -> Middle + 21

\* What is known of a process at command k.
RunFact(k) ==
    LET c == Script[k] IN
    /\ k \in 1 .. Len(Script) /\ k = PositionOf(c.job) /\ k <= LastWrite(c.file)
    /\ c.job \in JobName /\ c.file \in File /\ c.mode \in {"early", "append", "open", "late"}
    /\ c.job[1] \in Comparison <=> c.mode = "open"
    /\ c.mode = "append" => k <= Middle
    /\ c.job[1] = "parallel" <=> k = Middle + 20
    /\ k = Middle + 20 => c.job = <<"parallel", 1>> /\ c.mode = "late"
    /\ c.file = "agm_results" <=> k <= Lengths
    /\ c.file = "cube_results" <=> k > Lengths /\ k <= Middle
    /\ c.job[1] = "agm" <=> k <= Lengths
    /\ c.job[1] = "cube" <=> k > Lengths /\ k <= Middle
    /\ c.file = "parallel_out" <=> k = Middle + 20
    /\ k <= Lengths => c.job = <<"agm", k>>
    /\ k > Lengths /\ k <= Middle => c.job = <<"cube", k - Lengths>>
    /\ k <= Middle => c.mode = IF k \in {1, Lengths + 1} THEN "early" ELSE "append"

\* What the proofs use of a command that starts a process.
LEMMA RunFacts ==
    ASSUME NEW k, Runs(k)
    PROVE  RunFact(k)
  <1>1. k \in 1 .. Len(Script) /\ Script[k].op = "run"
    BY ScriptSeq DEF Runs
  <1>2. /\ k \in Int /\ Lengths \in Int /\ Lengths >= 1 /\ Datasets \in Int /\ Datasets >= 1
        /\ Middle = Lengths + Lengths /\ Tests = Middle + 21
    BY <1>1, Sizes DEF Middle, Tests
  <1> USE DEF RunAt, File, Name, JobName, PositionOf, LastWrite, Comparison, RunFact
  <1>3. CASE /\ k \in 1 .. Lengths
             /\ RunAt(k, <<"agm", k>>, "agm_results", IF k = 1 THEN "early" ELSE "append")
    BY <1>1, <1>2, <1>3
  <1>4. ASSUME NEW n \in 1 .. Lengths, k = Lengths + n,
               RunAt(k, <<"cube", n>>, "cube_results", IF n = 1 THEN "early" ELSE "append")
        PROVE  RunFact(k)
    BY <1>1, <1>2, <1>4
  <1>5. CASE k = Middle + 4 /\ RunAt(k, <<"gz_unlim", 1>>, "temp_gz", "late")
    BY <1>1, <1>2, <1>5
  <1>6. CASE k = Middle + 5 /\ RunAt(k, <<"asp_unlim", 1>>, "temp_asp", "open")
    BY <1>1, <1>2, <1>6
  <1>7. CASE k = Middle + 6 /\ RunAt(k, <<"ter_unlim", 1>>, "temp_ter", "open")
    BY <1>1, <1>2, <1>7
  <1>8. CASE k = Middle + 10 /\ RunAt(k, <<"gz_lim", 1>>, "temp_gz", "late")
    BY <1>1, <1>2, <1>8
  <1>9. CASE k = Middle + 11 /\ RunAt(k, <<"asp_lim", 1>>, "temp_asp", "open")
    BY <1>1, <1>2, <1>9
  <1>10. CASE k = Middle + 14 /\ RunAt(k, <<"in_mem", 1>>, "in_mem_buffer", "late")
    BY <1>1, <1>2, <1>10
  <1>11. CASE k = Middle + 15 /\ RunAt(k, <<"disk", 1>>, "disk_buffer", "late")
    BY <1>1, <1>2, <1>11
  <1>12. CASE k = Middle + 20 /\ RunAt(k, <<"parallel", 1>>, "parallel_out", "late")
    BY <1>1, <1>2, <1>12
  <1>13. ASSUME NEW n \in 1 .. Datasets, k = Tests + (3 * n - 2),
               RunAt(k, <<"cont_test", n>>, "temp_out", "late")
        PROVE  RunFact(k)
    BY <1>1, <1>2, <1>13
  <1> HIDE DEF RunAt, File, Name, JobName, PositionOf, LastWrite, Comparison, RunFact
  <1> QED BY <1>1, <1>3, <1>4, <1>5, <1>6, <1>7, <1>8, <1>9, <1>10, <1>11, <1>12, <1>13, RunTable

\* A job is the work of one command.
LEMMA OneCommand ==
    ASSUME NEW k, NEW n, Runs(k), Runs(n), Script[k].job = Script[n].job
    PROVE  k = n
  BY RunFacts DEF RunFact

\* A file is read after the process that wrote it, before any other writes or
\* removes it, into a csv file that is not emptied any more.
CatFact(p) ==
    LET c == Script[p] IN
    /\ c.file \in File \ {"parallel_out"} /\ c.csv \in Csv \ {"sketch", "parallel"}
    /\ c.job \in JobName /\ p > NewOf(c.csv)
    /\ \E k \in 1 .. p - 1 :
          /\ Delivered(k) /\ Script[k].job = c.job /\ Script[k].file = c.file
          /\ Script[k].mode # "append"
          /\ \A n \in k + 1 .. p :
                /\ Runs(n) => Script[n].file # c.file
                /\ Script[n].op = "rm" => c.file \notin Script[n].files

\* A cat, its process and what is between them give CatFact.
LEMMA CatWitness ==
    ASSUME NEW p \in 1 .. Len(Script), NEW k \in 1 .. p - 1, NEW f, NEW c, NEW j, NEW mode,
           CatAt(p, f, c, j), RunAt(k, j, f, mode), mode # "append",
           f \in File \ {"parallel_out"}, c \in Csv \ {"sketch", "parallel"}, j \in JobName,
           j[1] \notin {"agm", "cube", "parallel"}, p > NewOf(c),
           \A n \in k + 1 .. p : /\ Runs(n) => Script[n].file # f
                                 /\ Script[n].op = "rm" => f \notin Script[n].files
    PROVE  CatFact(p)
  <1>1. k \in DOMAIN Script
    BY ScriptSeq
  <1>2. Delivered(k)
    BY <1>1 DEF Delivered, Runs, RunAt
  <1> QED BY <1>2 DEF CatFact, CatAt, RunAt

\* Every file is read before another process writes it and before it is removed.
LEMMA CatFacts ==
    ASSUME NEW p \in 1 .. Len(Script), Script[p].op = "cat"
    PROVE  CatFact(p)
  <1>1. /\ p \in Int /\ Lengths \in Int /\ Lengths >= 1 /\ Datasets \in Int /\ Datasets >= 1
        /\ Middle = Lengths + Lengths /\ Tests = Middle + 21 /\ Len(Script) \in Int
    BY Sizes, ScriptSeq DEF Middle, Tests
  <1>2. CASE p = Middle + 7 /\ CatAt(p, "temp_gz", "unlim_query", <<"gz_unlim", 1>>)
    <2>1. Middle + 4 \in 1 .. p - 1 /\ RunAt(Middle + 4, <<"gz_unlim", 1>>, "temp_gz", "late")
      BY <1>1, <1>2, CommandAt
    <2>2. \A n \in Middle + 4 + 1 .. p : n = Middle + 5 \/ n = Middle + 6 \/ n = Middle + 7
      <3>1. Middle \in Int /\ p = Middle + 7
        BY <1>1, <1>2
      <3> QED BY ONLY <3>1
    <2>3. /\ RunAt(Middle + 5, <<"asp_unlim", 1>>, "temp_asp", "open")
          /\ RunAt(Middle + 6, <<"ter_unlim", 1>>, "temp_ter", "open")
          /\ CatAt(Middle + 7, "temp_gz", "unlim_query", <<"gz_unlim", 1>>)
      BY CommandAt
    <2>4. \A n \in Middle + 4 + 1 .. p :
            /\ Runs(n) => Script[n].file # "temp_gz"
            /\ Script[n].op = "rm" => "temp_gz" \notin Script[n].files
      BY <2>2, <2>3 DEF Runs, RunAt, CatAt, RmAt, NewAt
    <2>5. /\ "temp_gz" \in File \ {"parallel_out"} /\ "unlim_query" \in Csv \ {"sketch", "parallel"}
          /\ <<"gz_unlim", 1>> \in JobName /\ p > NewOf("unlim_query")
      BY <1>1, <1>2 DEF File, Csv, JobName, Name, NewOf
    <2> QED BY ONLY <1>2, <2>1, <2>4, <2>5, CatWitness, p \in 1 .. Len(Script)
  <1>3. CASE p = Middle + 8 /\ CatAt(p, "temp_asp", "unlim_query", <<"asp_unlim", 1>>)
    <2>1. Middle + 5 \in 1 .. p - 1 /\ RunAt(Middle + 5, <<"asp_unlim", 1>>, "temp_asp", "open")
      BY <1>1, <1>3, CommandAt
    <2>2. \A n \in Middle + 5 + 1 .. p : n = Middle + 6 \/ n = Middle + 7 \/ n = Middle + 8
      <3>1. Middle \in Int /\ p = Middle + 8
        BY <1>1, <1>3
      <3> QED BY ONLY <3>1
    <2>3. /\ RunAt(Middle + 6, <<"ter_unlim", 1>>, "temp_ter", "open")
          /\ CatAt(Middle + 7, "temp_gz", "unlim_query", <<"gz_unlim", 1>>)
          /\ CatAt(Middle + 8, "temp_asp", "unlim_query", <<"asp_unlim", 1>>)
      BY CommandAt
    <2>4. \A n \in Middle + 5 + 1 .. p :
            /\ Runs(n) => Script[n].file # "temp_asp"
            /\ Script[n].op = "rm" => "temp_asp" \notin Script[n].files
      BY <2>2, <2>3 DEF Runs, RunAt, CatAt, RmAt, NewAt
    <2>5. /\ "temp_asp" \in File \ {"parallel_out"} /\ "unlim_query" \in Csv \ {"sketch", "parallel"}
          /\ <<"asp_unlim", 1>> \in JobName /\ p > NewOf("unlim_query")
      BY <1>1, <1>3 DEF File, Csv, JobName, Name, NewOf
    <2> QED BY ONLY <1>3, <2>1, <2>4, <2>5, CatWitness, p \in 1 .. Len(Script)
  <1>4. CASE p = Middle + 9 /\ CatAt(p, "temp_ter", "unlim_query", <<"ter_unlim", 1>>)
    <2>1. Middle + 6 \in 1 .. p - 1 /\ RunAt(Middle + 6, <<"ter_unlim", 1>>, "temp_ter", "open")
      BY <1>1, <1>4, CommandAt
    <2>2. \A n \in Middle + 6 + 1 .. p : n = Middle + 7 \/ n = Middle + 8 \/ n = Middle + 9
      <3>1. Middle \in Int /\ p = Middle + 9
        BY <1>1, <1>4
      <3> QED BY ONLY <3>1
    <2>3. /\ CatAt(Middle + 7, "temp_gz", "unlim_query", <<"gz_unlim", 1>>)
          /\ CatAt(Middle + 8, "temp_asp", "unlim_query", <<"asp_unlim", 1>>)
          /\ CatAt(Middle + 9, "temp_ter", "unlim_query", <<"ter_unlim", 1>>)
      BY CommandAt
    <2>4. \A n \in Middle + 6 + 1 .. p :
            /\ Runs(n) => Script[n].file # "temp_ter"
            /\ Script[n].op = "rm" => "temp_ter" \notin Script[n].files
      BY <2>2, <2>3 DEF Runs, RunAt, CatAt, RmAt, NewAt
    <2>5. /\ "temp_ter" \in File \ {"parallel_out"} /\ "unlim_query" \in Csv \ {"sketch", "parallel"}
          /\ <<"ter_unlim", 1>> \in JobName /\ p > NewOf("unlim_query")
      BY <1>1, <1>4 DEF File, Csv, JobName, Name, NewOf
    <2> QED BY ONLY <1>4, <2>1, <2>4, <2>5, CatWitness, p \in 1 .. Len(Script)
  <1>5. CASE p = Middle + 12 /\ CatAt(p, "temp_gz", "lim_query", <<"gz_lim", 1>>)
    <2>1. Middle + 10 \in 1 .. p - 1 /\ RunAt(Middle + 10, <<"gz_lim", 1>>, "temp_gz", "late")
      BY <1>1, <1>5, CommandAt
    <2>2. \A n \in Middle + 10 + 1 .. p : n = Middle + 11 \/ n = Middle + 12
      <3>1. Middle \in Int /\ p = Middle + 12
        BY <1>1, <1>5
      <3> QED BY ONLY <3>1
    <2>3. /\ RunAt(Middle + 11, <<"asp_lim", 1>>, "temp_asp", "open")
          /\ CatAt(Middle + 12, "temp_gz", "lim_query", <<"gz_lim", 1>>)
      BY CommandAt
    <2>4. \A n \in Middle + 10 + 1 .. p :
            /\ Runs(n) => Script[n].file # "temp_gz"
            /\ Script[n].op = "rm" => "temp_gz" \notin Script[n].files
      BY <2>2, <2>3 DEF Runs, RunAt, CatAt, RmAt, NewAt
    <2>5. /\ "temp_gz" \in File \ {"parallel_out"} /\ "lim_query" \in Csv \ {"sketch", "parallel"}
          /\ <<"gz_lim", 1>> \in JobName /\ p > NewOf("lim_query")
      BY <1>1, <1>5 DEF File, Csv, JobName, Name, NewOf
    <2> QED BY ONLY <1>5, <2>1, <2>4, <2>5, CatWitness, p \in 1 .. Len(Script)
  <1>6. CASE p = Middle + 13 /\ CatAt(p, "temp_asp", "lim_query", <<"asp_lim", 1>>)
    <2>1. Middle + 11 \in 1 .. p - 1 /\ RunAt(Middle + 11, <<"asp_lim", 1>>, "temp_asp", "open")
      BY <1>1, <1>6, CommandAt
    <2>2. \A n \in Middle + 11 + 1 .. p : n = Middle + 12 \/ n = Middle + 13
      <3>1. Middle \in Int /\ p = Middle + 13
        BY <1>1, <1>6
      <3> QED BY ONLY <3>1
    <2>3. /\ CatAt(Middle + 12, "temp_gz", "lim_query", <<"gz_lim", 1>>)
          /\ CatAt(Middle + 13, "temp_asp", "lim_query", <<"asp_lim", 1>>)
      BY CommandAt
    <2>4. \A n \in Middle + 11 + 1 .. p :
            /\ Runs(n) => Script[n].file # "temp_asp"
            /\ Script[n].op = "rm" => "temp_asp" \notin Script[n].files
      BY <2>2, <2>3 DEF Runs, RunAt, CatAt, RmAt, NewAt
    <2>5. /\ "temp_asp" \in File \ {"parallel_out"} /\ "lim_query" \in Csv \ {"sketch", "parallel"}
          /\ <<"asp_lim", 1>> \in JobName /\ p > NewOf("lim_query")
      BY <1>1, <1>6 DEF File, Csv, JobName, Name, NewOf
    <2> QED BY ONLY <1>6, <2>1, <2>4, <2>5, CatWitness, p \in 1 .. Len(Script)
  <1>7. CASE p = Middle + 17 /\ CatAt(p, "in_mem_buffer", "buffer", <<"in_mem", 1>>)
    <2>1. Middle + 14 \in 1 .. p - 1 /\ RunAt(Middle + 14, <<"in_mem", 1>>, "in_mem_buffer", "late")
      BY <1>1, <1>7, CommandAt
    <2>2. \A n \in Middle + 14 + 1 .. p : n = Middle + 15 \/ n = Middle + 16 \/ n = Middle + 17
      <3>1. Middle \in Int /\ p = Middle + 17
        BY <1>1, <1>7
      <3> QED BY ONLY <3>1
    <2>3. /\ RunAt(Middle + 15, <<"disk", 1>>, "disk_buffer", "late")
          /\ NewAt(Middle + 16, {"buffer"})
          /\ CatAt(Middle + 17, "in_mem_buffer", "buffer", <<"in_mem", 1>>)
      BY CommandAt
    <2>4. \A n \in Middle + 14 + 1 .. p :
            /\ Runs(n) => Script[n].file # "in_mem_buffer"
            /\ Script[n].op = "rm" => "in_mem_buffer" \notin Script[n].files
      BY <2>2, <2>3 DEF Runs, RunAt, CatAt, RmAt, NewAt
    <2>5. /\ "in_mem_buffer" \in File \ {"parallel_out"} /\ "buffer" \in Csv \ {"sketch", "parallel"}
          /\ <<"in_mem", 1>> \in JobName /\ p > NewOf("buffer")
      BY <1>1, <1>7 DEF File, Csv, JobName, Name, NewOf
    <2> QED BY ONLY <1>7, <2>1, <2>4, <2>5, CatWitness, p \in 1 .. Len(Script)
  <1>8. CASE p = Middle + 18 /\ CatAt(p, "disk_buffer", "buffer", <<"disk", 1>>)
    <2>1. Middle + 15 \in 1 .. p - 1 /\ RunAt(Middle + 15, <<"disk", 1>>, "disk_buffer", "late")
      BY <1>1, <1>8, CommandAt
    <2>2. \A n \in Middle + 15 + 1 .. p : n = Middle + 16 \/ n = Middle + 17 \/ n = Middle + 18
      <3>1. Middle \in Int /\ p = Middle + 18
        BY <1>1, <1>8
      <3> QED BY ONLY <3>1
    <2>3. /\ NewAt(Middle + 16, {"buffer"})
          /\ CatAt(Middle + 17, "in_mem_buffer", "buffer", <<"in_mem", 1>>)
          /\ CatAt(Middle + 18, "disk_buffer", "buffer", <<"disk", 1>>)
      BY CommandAt
    <2>4. \A n \in Middle + 15 + 1 .. p :
            /\ Runs(n) => Script[n].file # "disk_buffer"
            /\ Script[n].op = "rm" => "disk_buffer" \notin Script[n].files
      BY <2>2, <2>3 DEF Runs, RunAt, CatAt, RmAt, NewAt
    <2>5. /\ "disk_buffer" \in File \ {"parallel_out"} /\ "buffer" \in Csv \ {"sketch", "parallel"}
          /\ <<"disk", 1>> \in JobName /\ p > NewOf("buffer")
      BY <1>1, <1>8 DEF File, Csv, JobName, Name, NewOf
    <2> QED BY ONLY <1>8, <2>1, <2>4, <2>5, CatWitness, p \in 1 .. Len(Script)
  <1>9. ASSUME NEW d \in 1 .. Datasets, p = Tests + (3 * d - 1),
               CatAt(p, "temp_out", "correctness", <<"cont_test", d>>)
        PROVE  CatFact(p)
    <2>0. d \in Nat
      BY <1>1
    <2>1. /\ Tests + (3 * d - 2) \in 1 .. p - 1
          /\ RunAt(Tests + (3 * d - 2), <<"cont_test", d>>, "temp_out", "late")
      BY <1>1, <1>9, <2>0, CommandAt
    <2>2. \A n \in Tests + (3 * d - 2) + 1 .. p : n = p
      BY <1>1, <1>9, <2>0
    <2>4. \A n \in Tests + (3 * d - 2) + 1 .. p :
            /\ Runs(n) => Script[n].file # "temp_out"
            /\ Script[n].op = "rm" => "temp_out" \notin Script[n].files
      BY <1>9, <2>2 DEF Runs, CatAt
    <2>5. /\ "temp_out" \in File \ {"parallel_out"} /\ "correctness" \in Csv \ {"sketch", "parallel"}
          /\ <<"cont_test", d>> \in JobName /\ p > NewOf("correctness")
      BY <1>1, <1>9, <2>0 DEF File, Csv, JobName, Name, NewOf
    <2> QED BY ONLY <1>9, <2>1, <2>4, <2>5, CatWitness, p \in 1 .. Len(Script)
  <1> QED BY CatTable, <1>2, <1>3, <1>4, <1>5, <1>6, <1>7, <1>8, <1>9

\* The processes that write a file which is read.
LEMMA FileWriters ==
    ASSUME NEW k, Runs(k)
    PROVE  LET f == Script[k].file
               j == Script[k].job IN
           /\ k \in Int
           /\ f = "temp_gz" => \/ (k = Middle + 4 /\ j = <<"gz_unlim", 1>>)
                               \/ (k = Middle + 10 /\ j = <<"gz_lim", 1>>)
           /\ f = "temp_asp" => \/ (k = Middle + 5 /\ j = <<"asp_unlim", 1>>)
                                \/ (k = Middle + 11 /\ j = <<"asp_lim", 1>>)
           /\ f = "temp_ter" => j = <<"ter_unlim", 1>>
           /\ f = "in_mem_buffer" => j = <<"in_mem", 1>>
           /\ f = "disk_buffer" => j = <<"disk", 1>>
           /\ f = "temp_out" => \E n \in 1 .. Datasets :
                                  k = Tests + (3 * n - 2) /\ j = <<"cont_test", n>>
  <1>1. k \in 1 .. Len(Script) /\ Script[k].op = "run" /\ k \in Int
    BY ScriptSeq DEF Runs
  <1> QED BY <1>1, RunTable DEF RunAt

\* Whose lines of the same execution a cat can find: those of its job, or of
\* the job that wrote the file before and left it.
LEMMA EarlierWriter ==
    ASSUME NEW p \in 1 .. Len(Script), Script[p].op = "cat",
           NEW k \in 1 .. p, Runs(k), Script[k].file = Script[p].file,
           \A n \in k + 1 .. p - 1 : Script[n].op = "rm" => Script[p].file \notin Script[n].files
    PROVE  Script[k].job = Script[p].job \/ <<Script[k].job, Script[p].job>> \in Inherits
  <1>1. /\ p \in Int /\ k \in Int /\ k <= p /\ Middle \in Int /\ Tests = Middle + 21
        /\ Datasets \in Int
    BY Sizes, ScriptSeq
  <1>2. ASSUME NEW d \in 1 .. Datasets, p = Tests + (3 * d - 1),
               CatAt(p, "temp_out", "correctness", <<"cont_test", d>>)
        PROVE  Script[k].job = Script[p].job
    <2>1. PICK n \in 1 .. Datasets : k = Tests + (3 * n - 2) /\ Script[k].job = <<"cont_test", n>>
      BY <1>2, FileWriters DEF CatAt
    <2>2. d \in Int /\ n \in Int
      BY <1>1
    <2>3. n <= d
      BY <1>1, <1>2, <2>1, <2>2
    <2>4. CASE n < d
      <3>1. Tests + 3 * n \in k + 1 .. p - 1
        BY <1>1, <1>2, <2>1, <2>2, <2>4
      <3>2. RmAt(Tests + 3 * n, {"temp_out"})
        BY CommandAt
      <3> QED BY <1>2, <3>1, <3>2 DEF RmAt, CatAt
    <2>5. CASE n = d
      BY <1>2, <2>1, <2>5 DEF CatAt
    <2> QED BY <2>2, <2>3, <2>4, <2>5
  <1>3. CASE p = Middle + 7 /\ CatAt(p, "temp_gz", "unlim_query", <<"gz_unlim", 1>>)
    BY <1>1, <1>3, FileWriters DEF CatAt
  <1>4. CASE p = Middle + 8 /\ CatAt(p, "temp_asp", "unlim_query", <<"asp_unlim", 1>>)
    BY <1>1, <1>4, FileWriters DEF CatAt
  <1>5. CASE p = Middle + 12 /\ CatAt(p, "temp_gz", "lim_query", <<"gz_lim", 1>>)
    BY <1>5, FileWriters DEF CatAt, Inherits
  <1>6. CASE p = Middle + 13 /\ CatAt(p, "temp_asp", "lim_query", <<"asp_lim", 1>>)
    BY <1>6, FileWriters DEF CatAt, Inherits
  <1>7. CASE \/ CatAt(p, "temp_ter", "unlim_query", <<"ter_unlim", 1>>)
             \/ CatAt(p, "in_mem_buffer", "buffer", <<"in_mem", 1>>)
             \/ CatAt(p, "disk_buffer", "buffer", <<"disk", 1>>)
    BY <1>7, FileWriters DEF CatAt
  <1> QED BY <1>2, <1>3, <1>4, <1>5, <1>6, <1>7, CatTable

\* A csv file is begun by one command.
LEMMA NewFacts ==
    ASSUME NEW k \in 1 .. Len(Script), Script[k].op = "new"
    PROVE  /\ Script[k].csvs \subseteq Csv \ {"sketch", "parallel"}
           /\ \A c \in Script[k].csvs : k = NewOf(c)
  BY NewTable DEF NewAt, Csv, NewOf

\* Files are removed after the sketches are combined.
LEMMA RmFacts ==
    ASSUME NEW k \in 1 .. Len(Script), Script[k].op = "rm"
    PROVE  Script[k].files \subseteq File /\ k > Middle + 1
  <1>1. /\ Middle \in Int /\ Tests = Middle + 21 /\ Datasets \in Nat
    BY Sizes, ScriptSeq
  <1> QED BY <1>1, RmTable DEF RmAt, File

\* A command after which the file f is gone for good.
RemovedFrom(f, k) ==
    /\ k \in 1 .. Len(Script) /\ Script[k].op = "rm" /\ f \in Script[k].files
    /\ \A n : Runs(n) => n < k \/ Script[n].file # f

\* A file that is removed after its last writer stays removed.
LEMMA RemovedWitness ==
    ASSUME NEW f, NEW k, NEW fs, RmAt(k, fs), f \in fs, k \in 1 .. Len(Script),
           LastWrite(f) \in Int, k > LastWrite(f)
    PROVE  RemovedFrom(f, k)
  <1>1. ASSUME NEW n, Runs(n), Script[n].file = f PROVE n < k
    <2>1. n \in 1 .. Len(Script) /\ n <= LastWrite(f)
      BY <1>1, RunFacts DEF RunFact
    <2> QED BY <2>1, ScriptSeq
  <1> QED BY <1>1 DEF RemovedFrom, RmAt

\* Every file but that of the parallel experiment is removed in the end.
LEMMA AllRemoved ==
    ASSUME NEW f \in File \ {"parallel_out"}
    PROVE  \E k : RemovedFrom(f, k)
  <1>1. /\ Lengths \in Int /\ Lengths >= 1 /\ Datasets \in Int /\ Datasets >= 1
        /\ Middle = Lengths + Lengths /\ Tests = Middle + 21
        /\ Len(Script) = Tests + 3 * Datasets + 1
    BY Sizes, ScriptSeq DEF Middle
  <1>2. /\ Middle + 2 \in 1 .. Len(Script) /\ Middle + 19 \in 1 .. Len(Script)
        /\ Tests + 3 * Datasets + 1 \in 1 .. Len(Script)
    BY <1>1
  <1>3. /\ RmAt(Middle + 2, {"agm_results", "cube_results"})
        /\ RmAt(Middle + 19, {"in_mem_buffer", "disk_buffer"})
        /\ RmAt(Tests + 3 * Datasets + 1, {"temp_gz", "temp_asp", "temp_ter", "temp_out"})
    BY CommandAt
  <1>4. CASE f \in {"agm_results", "cube_results"}
    <2>1. LastWrite(f) \in Int /\ Middle + 2 > LastWrite(f)
      BY <1>1, <1>4 DEF LastWrite
    <2> QED BY <1>2, <1>3, <1>4, <2>1, RemovedWitness
  <1>5. CASE f \in {"in_mem_buffer", "disk_buffer"}
    <2>1. LastWrite(f) \in Int /\ Middle + 19 > LastWrite(f)
      BY <1>1, <1>5 DEF LastWrite
    <2> QED BY <1>2, <1>3, <1>5, <2>1, RemovedWitness
  <1>6. CASE f \in {"temp_gz", "temp_asp", "temp_ter", "temp_out"}
    <2>1. LastWrite(f) \in Int /\ Tests + 3 * Datasets + 1 > LastWrite(f)
      BY <1>1, <1>6 DEF LastWrite
    <2> QED BY <1>2, <1>3, <1>6, <2>1, RemovedWitness
  <1> QED BY <1>4, <1>5, <1>6 DEF File

\* Every csv file is begun anew by a command, but for the two a program writes itself.
LEMMA AllEmptied ==
    ASSUME NEW c \in Csv \ {"sketch", "parallel"}
    PROVE  \E k \in 1 .. Len(Script) : Script[k].op = "new" /\ c \in Script[k].csvs
  <1>1. Middle + 3 \in 1 .. Len(Script) /\ Middle + 16 \in 1 .. Len(Script)
        /\ Middle + 21 \in 1 .. Len(Script)
    BY Sizes, ScriptSeq
  <1>2. /\ NewAt(Middle + 3, {"unlim_query", "lim_query"}) /\ NewAt(Middle + 16, {"buffer"})
        /\ NewAt(Middle + 21, {"correctness"})
    BY CommandAt
  <1> QED BY <1>1, <1>2 DEF NewAt, Csv

\* The places of the combination and of the parallel experiment.
LEMMA SpecialCommands ==
    /\ Middle + 1 \in 1 .. Len(Script) /\ Script[Middle + 1].op = "combine"
    /\ Runs(Middle + 20) /\ Middle + 20 \in 1 .. Len(Script)
    /\ Script[Middle + 20].job = <<"parallel", 1>>
  <1>1. Middle + 1 \in 1 .. Len(Script) /\ Middle + 20 \in 1 .. Len(Script)
    BY Sizes, ScriptSeq
  <1>2. /\ Script[Middle + 1].op = "combine"
        /\ RunAt(Middle + 20, <<"parallel", 1>>, "parallel_out", "late")
    BY CommandAt
  <1> QED BY <1>1, <1>2, ScriptSeq DEF RunAt, Runs

\* What a process leaves in its file is read by a later command.
LEMMA AllRead ==
    ASSUME NEW k, Delivered(k)
    PROVE  \E p \in 1 .. Len(Script) : Script[p].op = "cat" /\ Script[p].job = Script[k].job
  <1>1. k \in 1 .. Len(Script) /\ Script[k].op = "run"
    BY ScriptSeq DEF Delivered, Runs
  <1>2. /\ Middle \in Int /\ Middle >= 0 /\ Datasets \in Int /\ Datasets >= 1
        /\ Tests = Middle + 21 /\ Len(Script) = Tests + 3 * Datasets + 1
    BY Sizes, ScriptSeq
  <1>3. /\ Middle + 7 \in 1 .. Len(Script) /\ Middle + 8 \in 1 .. Len(Script)
        /\ Middle + 9 \in 1 .. Len(Script) /\ Middle + 12 \in 1 .. Len(Script)
        /\ Middle + 13 \in 1 .. Len(Script) /\ Middle + 17 \in 1 .. Len(Script)
        /\ Middle + 18 \in 1 .. Len(Script)
    BY <1>2
  <1>4. /\ CatAt(Middle + 7, "temp_gz", "unlim_query", <<"gz_unlim", 1>>)
        /\ CatAt(Middle + 8, "temp_asp", "unlim_query", <<"asp_unlim", 1>>)
        /\ CatAt(Middle + 9, "temp_ter", "unlim_query", <<"ter_unlim", 1>>)
        /\ CatAt(Middle + 12, "temp_gz", "lim_query", <<"gz_lim", 1>>)
        /\ CatAt(Middle + 13, "temp_asp", "lim_query", <<"asp_lim", 1>>)
        /\ CatAt(Middle + 17, "in_mem_buffer", "buffer", <<"in_mem", 1>>)
        /\ CatAt(Middle + 18, "disk_buffer", "buffer", <<"disk", 1>>)
    BY CommandAt
  <1>5. ASSUME NEW d \in 1 .. Datasets, RunAt(k, <<"cont_test", d>>, "temp_out", "late")
        PROVE  \E p \in 1 .. Len(Script) : Script[p].op = "cat" /\ Script[p].job = Script[k].job
    <2>1. CatAt(Tests + (3 * d - 1), "temp_out", "correctness", <<"cont_test", d>>)
      BY CommandAt
    <2>2. Tests + (3 * d - 1) \in 1 .. Len(Script)
      <3>1. d \in Int /\ 1 <= d /\ d <= Datasets
        BY <1>2
      <3> QED BY <1>2, <3>1
    <2> QED BY <1>5, <2>1, <2>2 DEF CatAt, RunAt
  <1>6. \A p, f, c, j, mode : CatAt(p, f, c, j) /\ RunAt(k, j, f, mode)
                                => Script[p].op = "cat" /\ Script[p].job = Script[k].job
    BY DEF CatAt, RunAt
  <1>7. /\ \A x, f, mode : ~RunAt(k, <<"agm", x>>, f, mode)
        /\ \A x, f, mode : ~RunAt(k, <<"cube", x>>, f, mode)
        /\ \A x, f, mode : ~RunAt(k, <<"parallel", x>>, f, mode)
    BY DEF RunAt, Delivered
  <1> QED BY <1>1, <1>3, <1>4, <1>5, <1>6, <1>7, RunTable

---------------------------------------------------------------------------
(* The steps: what each of them changes.                                   *)

\* What the assumptions say of the parallel experiment's parameters.
LEMMA Threads ==
    /\ inc \in Nat /\ inc > 2 /\ MaxThreads \subseteq Nat
    /\ \A t \in MaxThreads : t >= 1
  BY StepAssumption, ThreadsAssumption

\* A command that is executed is one of the script.
LEMMA Executing ==
    ASSUME Types, NEW op, Executes(op)
    PROVE  /\ ip \in 1 .. Len(Script) /\ Script[ip].op = op /\ Command = Script[ip]
           /\ op = "run" => Runs(ip) /\ RunFact(ip)
  <1>1. ip \in 1 .. Len(Script) /\ Script[ip].op = op /\ Command = Script[ip]
    BY ScriptSeq DEF Types, Executes, Command
  <1>2. op = "run" => Runs(ip)
    BY <1>1, ScriptSeq DEF Runs
  <1> QED BY <1>1, <1>2, RunFacts

\* A process that runs is the one of the present command.
LEMMA Running ==
    ASSUME Types, Processes, working
    PROVE  ip \in 1 .. Len(Script) /\ Runs(ip) /\ RunFact(ip) /\ Command = Script[ip]
  <1>1. Runs(ip)
    BY DEF Processes
  <1> QED BY <1>1, RunFacts, ScriptSeq DEF Runs, Command

\* Between two commands no process is at work.
LEMMA NotRunning ==
    ASSUME Types, Processes, ~Runs(ip)
    PROVE  ~working /\ lines = <<>> /\ groups = 1 /\ ~opened
  BY DEF Processes

\* A process starts or does a piece of its work.
AtWork == Start \/ Open \/ Sample \/ Scale \/ Work

\* What a start, the opening of a file or a piece of work of a process changes.
LEMMA Worked ==
    ASSUME Types, Processes, AtWork
    PROVE  /\ ip \in 1 .. Len(Script) /\ Runs(ip) /\ RunFact(ip) /\ Command = Script[ip]
           /\ UNCHANGED <<run, ip, compare, max_thr, csv, outcome, deaths, cut>>
           /\ working' \in BOOLEAN /\ working' /\ opened' \in BOOLEAN
           /\ \/ /\ ~working /\ lines = <<>> /\ lines' = lines /\ groups' = groups
                 /\ opened' <=> Script[ip].mode \in {"early", "append"}
                 /\ file' = IF Script[ip].mode = "early"
                            THEN [file EXCEPT ![Script[ip].file] = <<>>] ELSE file
              \/ /\ working /\ ~opened /\ Script[ip].mode = "open" /\ opened'
                 /\ lines = <<>> /\ lines' = lines /\ groups' = groups
                 /\ file' = [file EXCEPT ![Script[ip].file] = <<>>]
              \/ /\ working /\ (opened' <=> opened)
                 /\ \E says \in Says :
                      /\ lines' = Append(lines, [run |-> run, job |-> Script[ip].job, says |-> says])
                      /\ file' = IF Script[ip].mode = "late" THEN file
                                 ELSE [file EXCEPT ![Script[ip].file] =
                                   Append(@, [run |-> run, job |-> Script[ip].job, says |-> says])]
                 /\ groups' \in Nat
                 /\ \/ /\ Sample /\ groups' = groups /\ Script[ip].job[1] \in Queries
                       /\ Script[ip].mode = "open" => opened
                    \/ Scale /\ Script[ip].job[1] = "parallel"
                    \/ /\ Work /\ groups' = groups /\ lines = <<>>
                       /\ Script[ip].job[1] \notin Queries \cup {"parallel"}
  <1>1. CASE Start
    <2>1. Executes("run")
      BY <1>1 DEF Start
    <2>2. ip \in 1 .. Len(Script) /\ Runs(ip) /\ RunFact(ip) /\ Command = Script[ip]
      BY <2>1, Executing
    <2>3. working' \in BOOLEAN /\ working' /\ ~working /\ opened' \in BOOLEAN
      BY <1>1, Zenon DEF Start
    <2>4. lines = <<>>
      BY <2>3 DEF Processes
    <2>5. UNCHANGED <<run, ip, compare, max_thr, lines, groups, csv, outcome, deaths, cut>>
      BY <1>1 DEF Start, argVars
    <2>6. file' = IF Script[ip].mode = "early"
                  THEN [file EXCEPT ![Script[ip].file] = <<>>] ELSE file
      BY <1>1, <2>2 DEF Start
    <2>7. opened' <=> Script[ip].mode \in {"early", "append"}
      BY <1>1, <2>2 DEF Start
    <2> QED BY <2>2, <2>3, <2>4, <2>5, <2>6, <2>7
  <1>2. CASE Open
    <2>1. working /\ ~opened /\ Command.mode = "open"
      BY <1>2 DEF Open
    <2>2. ip \in 1 .. Len(Script) /\ Runs(ip) /\ RunFact(ip) /\ Command = Script[ip]
      BY <2>1, Running
    <2>3. working' = working /\ UNCHANGED <<run, ip, compare, max_thr, lines, groups, csv, outcome, deaths, cut>>
      BY <1>2 DEF Open, argVars
    <2>4. working' \in BOOLEAN /\ working'
      BY <2>1, <2>3 DEF Types
    <2>5. opened' \in BOOLEAN /\ opened'
      BY <1>2, Zenon DEF Open
    <2>6. lines = <<>>
      BY <2>1 DEF Processes, Opening
    <2>7. file' = [file EXCEPT ![Script[ip].file] = <<>>]
      BY <1>2, <2>2 DEF Open
    <2> QED BY <2>1, <2>2, <2>3, <2>4, <2>5, <2>6, <2>7
  <1>3. CASE Sample \/ Scale \/ Work
    <2>1. working
      BY <1>3 DEF Sample, Scale, Work
    <2>2. ip \in 1 .. Len(Script) /\ Runs(ip) /\ RunFact(ip) /\ Command = Script[ip]
      BY <2>1, Running
    <2>3. /\ working' = working /\ opened' = opened
          /\ UNCHANGED <<run, ip, compare, max_thr, csv, outcome, deaths, cut>>
      BY <1>3 DEF Sample, Scale, Work, argVars
    <2>4. working' \in BOOLEAN /\ working' /\ opened' \in BOOLEAN /\ (opened' <=> opened)
      BY <2>1, <2>3 DEF Types
    <2>5. groups \in Nat /\ max_thr \in Nat /\ inc \in Nat
      BY Threads DEF Types
    <2>6. Groups[1] \in Nat /\ Groups[2] \in Nat
      BY <2>5 DEF Groups
    <2>7. \E says \in Says : Measure(says)
      <3>1. CASE Sample
        BY <3>1 DEF Sample, Says
      <3>2. CASE Work
        BY <3>2 DEF Work, Says
      <3>3. CASE Scale
        BY <2>6, <3>3 DEF Scale, Says
      <3> QED BY <1>3, <3>1, <3>2, <3>3
    <2>8. \E says \in Says :
             /\ lines' = Append(lines, [run |-> run, job |-> Script[ip].job, says |-> says])
             /\ file' = IF Script[ip].mode = "late" THEN file
                        ELSE [file EXCEPT ![Script[ip].file] =
                          Append(@, [run |-> run, job |-> Script[ip].job, says |-> says])]
      BY <2>2, <2>7 DEF Measure, This
    <2>9. /\ groups' \in Nat
          /\ \/ /\ Sample /\ groups' = groups /\ Script[ip].job[1] \in Queries
                /\ Script[ip].mode = "open" => opened
             \/ Scale /\ Script[ip].job[1] = "parallel"
             \/ /\ Work /\ groups' = groups /\ lines = <<>>
                /\ Script[ip].job[1] \notin Queries \cup {"parallel"}
      BY <1>3, <2>2, <2>5, <2>6 DEF Sample, Scale, Work
    <2> QED BY <2>1, <2>2, <2>3, <2>4, <2>8, <2>9
  <1> QED BY <1>1, <1>2, <1>3 DEF AtWork

\* A process ends.
Ended(how) ==
    \/ how = "ok" /\ Finish
    \/ how = (IF opened THEN "died" ELSE "unopened") /\ Die

\* What the end of a process changes.
LEMMA AtEnd ==
    ASSUME Types, Processes, NEW how, Ended(how)
    PROVE  /\ working
           /\ ip \in 1 .. Len(Script) /\ Runs(ip) /\ RunFact(ip) /\ Command = Script[ip]
           /\ ip' = ip + 1 /\ UNCHANGED <<run, compare, max_thr, cut>> /\ deaths' \in Nat
           /\ working' \in BOOLEAN /\ ~working' /\ lines' = <<>> /\ groups' = 1
           /\ opened' \in BOOLEAN /\ ~opened'
           /\ DOMAIN outcome' = DOMAIN outcome \cup {Script[ip].job}
           /\ \A j \in DOMAIN outcome' :
                 outcome'[j] = IF j = Script[ip].job THEN [end |-> how, lines |-> lines]
                               ELSE outcome[j]
           /\ how \in End
           /\ file' = IF how = "ok" /\ Script[ip].mode = "late"
                      THEN [file EXCEPT ![Script[ip].file] = lines] ELSE file
           /\ csv' = IF how = "ok" /\ Script[ip].job[1] = "parallel"
                     THEN [csv EXCEPT !["parallel"] = Entries(lines, Script[ip].job)] ELSE csv
           /\ how = "ok" => WorkDone
           /\ how \in {"ok", "died"} /\ Script[ip].mode # "late" => opened
           /\ how = "died" => Script[ip].mode # "late"
  <1>1. working
    BY DEF Ended, Finish, Die
  <1>2. ip \in 1 .. Len(Script) /\ Runs(ip) /\ RunFact(ip) /\ Command = Script[ip]
    BY <1>1, Running
  <1>3. EndProcess(how) /\ UNCHANGED <<run, compare, max_thr, cut>>
    BY DEF Ended, Finish, Die, argVars
  <1>4. working' \in BOOLEAN /\ ~working' /\ opened' \in BOOLEAN /\ ~opened'
    <2>1. working' = FALSE /\ opened' = FALSE
      BY <1>3 DEF EndProcess
    <2> QED BY <2>1, Zenon
  <1>5. /\ ip' = ip + 1 /\ lines' = <<>> /\ groups' = 1
        /\ outcome' = [j \in DOMAIN outcome \cup {Script[ip].job} |->
                         IF j = Script[ip].job THEN [end |-> how, lines |-> lines] ELSE outcome[j]]
    BY <1>2, <1>3 DEF EndProcess
  <1>6. deaths' \in Nat
    BY DEF Ended, Finish, Die, Types
  <1>7. /\ file' = IF how = "ok" /\ Script[ip].mode = "late"
                   THEN [file EXCEPT ![Script[ip].file] = lines] ELSE file
        /\ csv' = IF how = "ok" /\ Script[ip].job[1] = "parallel"
                  THEN [csv EXCEPT !["parallel"] = Entries(lines, Script[ip].job)] ELSE csv
        /\ how \in End
        /\ how = "ok" => WorkDone
    <2>1. CASE how = "ok" /\ Finish
      BY <1>2, <2>1 DEF Finish, End
    <2>2. CASE how \in {"died", "unopened"} /\ Die
      BY <2>2 DEF Die, diskVars, End
    <2> QED BY <2>1, <2>2 DEF Ended
  <1>8. how = "died" => opened
    BY DEF Ended
  <1>9. /\ Script[ip].mode \in {"early", "append"} => opened
        /\ Script[ip].mode = "late" => ~opened
        /\ Script[ip].mode \in {"early", "append", "open", "late"}
    BY <1>1, <1>2 DEF Processes, Opening, RunFact
  <1>10. how = "ok" /\ Script[ip].mode = "open" => opened
    <2>1. Script[ip].mode = "open" => /\ Script[ip].job[1] \notin {"gz_unlim", "gz_lim"}
                                      /\ Script[ip].job[1] # "parallel"
      BY <1>2 DEF RunFact, Comparison
    <2> QED BY <1>2, <1>7, <2>1 DEF WorkDone
  <1> QED BY <1>1, <1>2, <1>3, <1>4, <1>5, <1>6, <1>7, <1>8, <1>9, <1>10

\* A command of the shell, or a process that is left out.
LEMMA Shelled ==
    ASSUME Types, Processes, Shell \/ LeaveOut
    PROVE  /\ ip \in 1 .. Len(Script) /\ Command = Script[ip] /\ ip' = ip + 1
           /\ UNCHANGED <<run, compare, max_thr, lines, groups, working, opened, outcome, deaths, cut>>
           /\ ~working /\ lines = <<>> /\ groups = 1 /\ ~opened
  <1>1. CASE Shell
    <2>1. PICK op \in {"cat", "rm", "new", "combine"} : Executes(op)
      BY <1>1 DEF Shell, CatFile, RmFiles, NewCsv, CombineResults
    <2>2. ip \in 1 .. Len(Script) /\ Command = Script[ip] /\ Script[ip].op = op
      BY <2>1, Executing
    <2>3. ~Runs(ip)
      BY <2>2 DEF Runs
    <2>4. Step
      BY <1>1 DEF Shell, CatFile, RmFiles, NewCsv, CombineResults
    <2> QED BY <2>2, <2>3, <2>4, NotRunning DEF Step, argVars, procVars
  <1>2. CASE LeaveOut
    <2>1. ip \in 1 .. Len(Script) /\ Command = Script[ip]
      BY <1>2, Executing DEF LeaveOut
    <2>2. ~working /\ lines = <<>> /\ groups = 1 /\ ~opened
      BY <1>2 DEF LeaveOut, Processes
    <2> QED BY <1>2, <2>1, <2>2 DEF LeaveOut, argVars, procVars
  <1> QED BY <1>1, <1>2

\* The kinds of steps of the specification.
LEMMA StepCases ==
    ASSUME [Next]_vars
    PROVE  \/ Begin \/ Interrupt \/ AtWork \/ \E how : Ended(how)
           \/ CatFile \/ RmFiles \/ NewCsv \/ CombineResults \/ LeaveOut
           \/ UNCHANGED vars
  BY DEF Next, Process, Shell, AtWork, Ended

---------------------------------------------------------------------------
(* The parts of the invariant, one after the other.                        *)

\* Sequences and functions of lines and of entries.
LEMMA AppendLine ==
    ASSUME NEW S, NEW s \in Seq(S), NEW x \in S
    PROVE  /\ Append(s, x) \in Seq(S) /\ Len(Append(s, x)) = Len(s) + 1 /\ Len(s) \in Nat
           /\ \A n \in 1 .. Len(s) : Append(s, x)[n] = s[n]
           /\ Append(s, x)[Len(s) + 1] = x
           /\ DOMAIN Append(s, x) = (1 .. Len(s)) \cup {Len(s) + 1} /\ DOMAIN s = 1 .. Len(s)
  OBVIOUS

\* The domain and the elements of a sequence.
LEMMA SeqDomain ==
    ASSUME NEW S, NEW s \in Seq(S)
    PROVE  /\ Len(s) \in Nat /\ DOMAIN s = 1 .. Len(s)
           /\ \A n \in DOMAIN s : s[n] \in S
           /\ s = <<>> <=> DOMAIN s = {}
           /\ s # <<>> => 1 \in DOMAIN s
  OBVIOUS

\* The empty sequence.
LEMMA EmptySeq == ASSUME NEW S PROVE <<>> \in Seq(S) /\ DOMAIN <<>> = {} /\ Len(<<>>) = 0
  OBVIOUS

\* A function on 1 .. n with values in S is a sequence over S.
LEMMA SeqFunction ==
    ASSUME NEW S, NEW n \in Nat, NEW f \in [1 .. n -> S]
    PROVE  f \in Seq(S) /\ Len(f) = n /\ DOMAIN f = 1 .. n
  OBVIOUS

\* The elements of a concatenation are those of its parts.
LEMMA SeqConcat ==
    ASSUME NEW S, NEW a \in Seq(S), NEW b \in Seq(S)
    PROVE  /\ Join(a, b) \in Seq(S) /\ DOMAIN Join(a, b) = 1 .. Len(a) + Len(b)
           /\ \A n \in 1 .. Len(a) : Join(a, b)[n] = a[n]
           /\ \A n \in 1 .. Len(b) : Join(a, b)[Len(a) + n] = b[n]
           /\ \A n \in DOMAIN Join(a, b) :
                 \/ n \in DOMAIN a /\ Join(a, b)[n] = a[n]
                 \/ \E k \in DOMAIN b : n = Len(a) + k /\ Join(a, b)[n] = b[k]
  <1>1. /\ a \o b \in Seq(S) /\ Len(a \o b) = Len(a) + Len(b)
        /\ \A n \in 1 .. Len(a) : (a \o b)[n] = a[n]
        /\ \A n \in 1 .. Len(b) : (a \o b)[Len(a) + n] = b[n]
        /\ DOMAIN (a \o b) = 1 .. Len(a) + Len(b)
    OBVIOUS
  <1>2. Len(a) \in Nat /\ Len(b) \in Nat /\ DOMAIN a = 1 .. Len(a) /\ DOMAIN b = 1 .. Len(b)
    OBVIOUS
  <1> DEFINE c == a \o b
  <1>3. /\ c \in Seq(S)
        /\ \A n \in 1 .. Len(a) : c[n] = a[n]
        /\ \A n \in 1 .. Len(b) : c[Len(a) + n] = b[n]
        /\ DOMAIN c = 1 .. Len(a) + Len(b)
    BY <1>1
  <1>4. Join(a, b) = c
    BY DEF Join
  <1> HIDE DEF c
  <1>5. ASSUME NEW n \in 1 .. Len(a) + Len(b), n > Len(a)
        PROVE  \E k \in 1 .. Len(b) : n = Len(a) + k /\ c[n] = b[k]
    <2>1. n - Len(a) \in 1 .. Len(b) /\ n = Len(a) + (n - Len(a))
      BY <1>2, <1>5
    <2> QED BY <1>3, <2>1
  <1>6. \A n \in 1 .. Len(a) + Len(b) : n \in 1 .. Len(a) \/ n > Len(a)
    BY <1>2
  <1> QED BY <1>2, <1>3, <1>4, <1>5, <1>6

\* The entries that lines become.
LEMMA EntriesSeq ==
    ASSUME Types, NEW ls \in Seq(Line), NEW j \in JobName
    PROVE  /\ Entries(ls, j) \in Seq(Entry)
           /\ DOMAIN Entries(ls, j) = DOMAIN ls /\ Len(Entries(ls, j)) = Len(ls)
           /\ \A n \in DOMAIN ls : /\ Entries(ls, j)[n].line = ls[n]
                                   /\ Entries(ls, j)[n].as = j /\ Entries(ls, j)[n].at = run
           /\ \A n \in DOMAIN ls : Entries(ls, j)[n] = [line |-> ls[n], as |-> j, at |-> run]
  <1> DEFINE E(n) == [line |-> ls[n], as |-> j, at |-> run]
             e == [n \in DOMAIN ls |-> E(n)]
  <1>1. Entries(ls, j) = e
    BY DEF Entries
  <1>2. Len(ls) \in Nat /\ DOMAIN ls = 1 .. Len(ls) /\ \A n \in DOMAIN ls : ls[n] \in Line
    BY SeqDomain
  <1>3. ASSUME NEW n \in DOMAIN ls
        PROVE  E(n) \in Entry /\ E(n).line = ls[n] /\ E(n).as = j /\ E(n).at = run
    <2>1. ls[n] \in Line /\ run \in Nat
      BY <1>2 DEF Types
    <2> QED BY <2>1 DEF Entry
  <1>4. \A n \in DOMAIN ls : e[n] = E(n)
    OBVIOUS
  <1>5. e = [n \in 1 .. Len(ls) |-> e[n]]
    BY <1>2
  <1>8. \A n \in DOMAIN ls : e[n] = [line |-> ls[n], as |-> j, at |-> run]
    OBVIOUS
  <1> HIDE DEF e, E
  <1>6. e \in [1 .. Len(ls) -> Entry]
    BY <1>2, <1>3, <1>4, <1>5
  <1>7. e \in Seq(Entry) /\ Len(e) = Len(ls) /\ DOMAIN e = 1 .. Len(ls)
    BY <1>2, <1>6, SeqFunction
  <1> QED BY <1>1, <1>2, <1>3, <1>4, <1>7, <1>8

\* A new line of the process.
LEMMA NewLine ==
    ASSUME Types, Runs(ip), RunFact(ip), NEW says \in Says
    PROVE  [run |-> run, job |-> Script[ip].job, says |-> says] \in Line
  BY DEF Types, RunFact, Line

\* Replacing one file leaves the others.
LEMMA SetFile ==
    ASSUME Types, NEW f \in File, NEW s \in Seq(Line)
    PROVE  /\ [file EXCEPT ![f] = s] \in [File -> Seq(Line)]
           /\ [file EXCEPT ![f] = s][f] = s
           /\ \A g \in File \ {f} : [file EXCEPT ![f] = s][g] = file[g]
  BY DEF Types

\* Replacing one csv file leaves the others.
LEMMA SetCsv ==
    ASSUME Types, NEW c \in Csv, NEW s \in Seq(Entry)
    PROVE  /\ [csv EXCEPT ![c] = s] \in [Csv -> Seq(Entry)]
           /\ [csv EXCEPT ![c] = s][c] = s
           /\ \A d \in Csv \ {c} : [csv EXCEPT ![c] = s][d] = csv[d]
  BY DEF Types

\* What a process does to the files, in terms of its own file.
LEMMA WorkedFiles ==
    ASSUME Types, Processes, AtWork
    PROVE  /\ file' \in [File -> Seq(Line)] /\ lines' \in Seq(Line) /\ groups' \in Nat
           /\ \A f \in File : f # Script[ip].file => file'[f] = file[f]
           /\ \/ /\ ~working /\ lines' = <<>>
                 /\ opened' <=> Script[ip].mode \in {"early", "append"}
                 /\ file'[Script[ip].file] =
                      IF Script[ip].mode = "early" THEN <<>> ELSE file[Script[ip].file]
              \/ /\ working /\ Script[ip].mode = "open" /\ opened'
                 /\ lines' = <<>> /\ file'[Script[ip].file] = <<>>
              \/ /\ working /\ (opened' <=> opened) /\ (Script[ip].mode = "open" => opened)
                 /\ \E x \in Line :
                      /\ x.run = run /\ x.job = Script[ip].job
                      /\ lines' = Append(lines, x)
                      /\ file'[Script[ip].file] =
                           IF Script[ip].mode = "late" THEN file[Script[ip].file]
                           ELSE Append(file[Script[ip].file], x)
  <1>1. Runs(ip) /\ RunFact(ip)
    BY Worked
  <1>2. Script[ip].file \in File /\ file \in [File -> Seq(Line)] /\ lines \in Seq(Line)
        /\ groups \in Nat
    BY <1>1 DEF RunFact, Types
  <1>3. CASE /\ ~working /\ lines = <<>> /\ lines' = lines /\ groups' = groups
             /\ opened' <=> Script[ip].mode \in {"early", "append"}
             /\ file' = IF Script[ip].mode = "early"
                        THEN [file EXCEPT ![Script[ip].file] = <<>>] ELSE file
    <2>1. <<>> \in Seq(Line)
      BY EmptySeq
    <2> QED BY <1>2, <1>3, <2>1, SetFile
  <1>5. CASE /\ working /\ ~opened /\ Script[ip].mode = "open" /\ opened'
             /\ lines = <<>> /\ lines' = lines /\ groups' = groups
             /\ file' = [file EXCEPT ![Script[ip].file] = <<>>]
    <2>1. <<>> \in Seq(Line)
      BY EmptySeq
    <2> QED BY <1>2, <1>5, <2>1, SetFile
  <1>6. ASSUME \/ Sample /\ (Script[ip].mode = "open" => opened)
               \/ Scale /\ Script[ip].job[1] = "parallel"
               \/ Work /\ Script[ip].job[1] \notin Queries \cup {"parallel"}
        PROVE  Script[ip].mode = "open" => opened
    BY <1>1, <1>6 DEF RunFact, Comparison, Queries
  <1>4. ASSUME working, NEW says \in Says, groups' \in Nat,
               lines' = Append(lines, [run |-> run, job |-> Script[ip].job, says |-> says]),
               file' = IF Script[ip].mode = "late" THEN file
                       ELSE [file EXCEPT ![Script[ip].file] =
                          Append(@, [run |-> run, job |-> Script[ip].job, says |-> says])]
        PROVE  /\ file' \in [File -> Seq(Line)] /\ lines' \in Seq(Line) /\ groups' \in Nat
               /\ \A f \in File : f # Script[ip].file => file'[f] = file[f]
               /\ \E x \in Line :
                      /\ x.run = run /\ x.job = Script[ip].job
                      /\ lines' = Append(lines, x)
                      /\ file'[Script[ip].file] =
                           IF Script[ip].mode = "late" THEN file[Script[ip].file]
                           ELSE Append(file[Script[ip].file], x)
    <2> DEFINE x == [run |-> run, job |-> Script[ip].job, says |-> says]
               s == Append(file[Script[ip].file], x)
    <2>1. x \in Line /\ x.run = run /\ x.job = Script[ip].job
      BY <1>1, NewLine
    <2>2. lines' = Append(lines, x)
      BY <1>4
    <2>3. file' = IF Script[ip].mode = "late" THEN file ELSE [file EXCEPT ![Script[ip].file] = s]
      BY <1>4
    <2> HIDE DEF x
    <2>4. s \in Seq(Line) /\ lines' \in Seq(Line)
      <3>1. file[Script[ip].file] \in Seq(Line)
        BY <1>2
      <3> QED BY <1>2, <2>1, <2>2, <3>1, AppendLine
    <2> HIDE DEF s
    <2>5. /\ file' \in [File -> Seq(Line)]
          /\ \A f \in File : f # Script[ip].file => file'[f] = file[f]
          /\ file'[Script[ip].file] = IF Script[ip].mode = "late" THEN file[Script[ip].file] ELSE s
      BY <1>2, <2>3, <2>4, SetFile
    <2> QED BY <1>4, <2>1, <2>2, <2>4, <2>5 DEF s
  <1> QED BY <1>3, <1>4, <1>5, <1>6, Worked

\* The same for its end.
LEMMA EndedFiles ==
    ASSUME Types, Processes, NEW how, Ended(how)
    PROVE  /\ file' \in [File -> Seq(Line)] /\ csv' \in [Csv -> Seq(Entry)]
           /\ \A f \in File : f # Script[ip].file => file'[f] = file[f]
           /\ file'[Script[ip].file] = IF how = "ok" /\ Script[ip].mode = "late" THEN lines
                                       ELSE file[Script[ip].file]
           /\ \A c \in Csv \ {"parallel"} : csv'[c] = csv[c]
           /\ csv'["parallel"] = IF how = "ok" /\ Script[ip].job[1] = "parallel"
                                 THEN Entries(lines, Script[ip].job) ELSE csv["parallel"]
  <1>1. RunFact(ip)
    BY AtEnd
  <1>2. /\ Script[ip].file \in File /\ file \in [File -> Seq(Line)] /\ lines \in Seq(Line)
        /\ csv \in [Csv -> Seq(Entry)] /\ Script[ip].job \in JobName
    BY <1>1 DEF RunFact, Types
  <1>3. file' = IF how = "ok" /\ Script[ip].mode = "late"
                THEN [file EXCEPT ![Script[ip].file] = lines] ELSE file
    BY AtEnd
  <1>4. csv' = IF how = "ok" /\ Script[ip].job[1] = "parallel"
               THEN [csv EXCEPT !["parallel"] = Entries(lines, Script[ip].job)] ELSE csv
    BY AtEnd
  <1>5. Entries(lines, Script[ip].job) \in Seq(Entry) /\ "parallel" \in Csv
    BY <1>2, EntriesSeq DEF Csv
  <1>6. /\ file' \in [File -> Seq(Line)]
        /\ \A f \in File : f # Script[ip].file => file'[f] = file[f]
        /\ file'[Script[ip].file] = IF how = "ok" /\ Script[ip].mode = "late" THEN lines
                                    ELSE file[Script[ip].file]
    BY <1>2, <1>3, SetFile
  <1>7. /\ csv' \in [Csv -> Seq(Entry)]
        /\ \A c \in Csv \ {"parallel"} : csv'[c] = csv[c]
        /\ csv'["parallel"] = IF how = "ok" /\ Script[ip].job[1] = "parallel"
                              THEN Entries(lines, Script[ip].job) ELSE csv["parallel"]
    BY <1>2, <1>4, <1>5, SetCsv
  <1> QED BY <1>6, <1>7

\* What the commands of the shell do.
LEMMA CatEffect ==
    ASSUME Types, Processes, CatFile
    PROVE  LET c == Script[ip]
               new == Entries(file[c.file], c.job) IN
           /\ Script[ip].op = "cat" /\ CatFact(ip) /\ file' = file
           /\ csv' \in [Csv -> Seq(Entry)]
           /\ \A d \in Csv \ {c.csv} : csv'[d] = csv[d]
           /\ csv'[c.csv] = Join(csv[c.csv], new)
           /\ file[c.file] \in Seq(Line) /\ new \in Seq(Entry) /\ csv[c.csv] \in Seq(Entry)
  <1> DEFINE c == Script[ip]
             new == Entries(file[c.file], c.job)
  <1>1. ip \in 1 .. Len(Script) /\ c.op = "cat" /\ Command = c
    BY Executing DEF CatFile
  <1>2. CatFact(ip)
    BY <1>1, CatFacts
  <1>3. c.file \in File /\ c.csv \in Csv /\ c.job \in JobName
    BY <1>2 DEF CatFact
  <1>4. file[c.file] \in Seq(Line) /\ csv[c.csv] \in Seq(Entry)
    BY <1>3 DEF Types
  <1>5. new \in Seq(Entry)
    BY <1>3, <1>4, EntriesSeq
  <1>6. csv' = [csv EXCEPT ![c.csv] = Join(csv[c.csv], new)] /\ file' = file
    BY <1>1 DEF CatFile, Join
  <1> HIDE DEF new, c
  <1>7. Join(csv[c.csv], new) \in Seq(Entry)
    BY <1>4, <1>5, SeqConcat
  <1>8. /\ csv' \in [Csv -> Seq(Entry)]
        /\ \A d \in Csv \ {c.csv} : csv'[d] = csv[d]
        /\ csv'[c.csv] = Join(csv[c.csv], new)
    BY <1>3, <1>6, <1>7, SetCsv
  <1> QED BY <1>1, <1>2, <1>4, <1>5, <1>6, <1>8 DEF new, c

\* What rm changes.
LEMMA RmEffect ==
    ASSUME Types, Processes, RmFiles
    PROVE  /\ Script[ip].op = "rm" /\ csv' = csv /\ file' \in [File -> Seq(Line)]
           /\ \A f \in File : file'[f] = IF f \in Script[ip].files THEN <<>> ELSE file[f]
           /\ Script[ip].files \subseteq File /\ ip > Middle + 1
  <1>1. ip \in 1 .. Len(Script) /\ Script[ip].op = "rm" /\ Command = Script[ip]
    BY Executing DEF RmFiles
  <1>2. csv' = csv /\ file' = [f \in File |-> IF f \in Script[ip].files THEN <<>> ELSE file[f]]
    BY <1>1 DEF RmFiles
  <1>3. file \in [File -> Seq(Line)] /\ <<>> \in Seq(Line)
    BY EmptySeq DEF Types
  <1> QED BY <1>1, <1>2, <1>3, RmFacts

\* What beginning csv files changes.
LEMMA NewEffect ==
    ASSUME Types, Processes, NewCsv
    PROVE  /\ Script[ip].op = "new" /\ file' = file /\ csv' \in [Csv -> Seq(Entry)]
           /\ \A c \in Csv : csv'[c] = IF c \in Script[ip].csvs THEN <<>> ELSE csv[c]
           /\ Script[ip].csvs \subseteq Csv \ {"sketch", "parallel"}
           /\ \A c \in Script[ip].csvs : ip = NewOf(c)
  <1>1. ip \in 1 .. Len(Script) /\ Script[ip].op = "new" /\ Command = Script[ip]
    BY Executing DEF NewCsv
  <1>2. file' = file /\ csv' = [c \in Csv |-> IF c \in Script[ip].csvs THEN <<>> ELSE csv[c]]
    BY <1>1 DEF NewCsv
  <1>3. csv \in [Csv -> Seq(Entry)] /\ <<>> \in Seq(Entry)
    BY EmptySeq DEF Types
  <1> QED BY <1>1, <1>2, <1>3, NewFacts

Row(n) == [line |-> CubeLine(n), as |-> <<"cube", file["agm_results"][n].job[2]>>, at |-> run]

\* What the combination of the sketches changes.
LEMMA CombineEffect ==
    ASSUME Types, Processes, CombineResults
    PROVE  /\ Script[ip].op = "combine" /\ ip = Middle + 1 /\ file' = file
           /\ csv' \in [Csv -> Seq(Entry)] /\ \A c \in Csv \ {"sketch"} : csv'[c] = csv[c]
           /\ csv'["sketch"] = [n \in DOMAIN file["agm_results"] |-> Row(n)]
           /\ DOMAIN csv'["sketch"] = DOMAIN file["agm_results"]
           /\ \A n \in DOMAIN csv'["sketch"] : csv'["sketch"][n].at = run
  <1>1. ip \in 1 .. Len(Script) /\ Script[ip].op = "combine"
    BY Executing DEF CombineResults
  <1> DEFINE agm == file["agm_results"]
             cube == file["cube_results"]
             rows == [n \in DOMAIN agm |-> Row(n)]
  <1>2. file' = file /\ csv' = [csv EXCEPT !["sketch"] = rows]
    BY DEF CombineResults, Row
  <1>3. agm \in Seq(Line) /\ cube \in Seq(Line) /\ "sketch" \in Csv
    BY DEF Types, File, Csv
  <1>4. ASSUME NEW n \in DOMAIN agm PROVE Row(n) \in Entry /\ Row(n).at = run
    <2>1. n \in Nat /\ n >= 1
      BY <1>3, SeqDomain
    <2>2. CubeLine(n) \in Line
      <3>1. CASE n <= Len(cube)
        <4>1. CubeLine(n) = cube[n]
          BY <3>1 DEF CubeLine
        <4> QED BY <1>3, <2>1, <3>1, <4>1
      <3>2. CASE ~(n <= Len(cube)) /\ cube # <<>>
        <4>1. CubeLine(n) = cube[Len(cube)]
          BY <3>2 DEF CubeLine
        <4> QED BY <1>3, <3>2, <4>1
      <3>3. CASE ~(n <= Len(cube)) /\ cube = <<>>
        <4>1. CubeLine(n) = NoLine
          BY <3>3 DEF CubeLine
        <4>2. NoLine \in Line
          BY DEF NoLine, Line, JobName, Name, Says
        <4> QED BY <4>1, <4>2
      <3> QED BY <3>1, <3>2, <3>3
    <2>3. agm[n] \in Line
      BY <1>3, SeqDomain
    <2>4. <<"cube", agm[n].job[2]>> \in JobName
      BY <2>3 DEF Line, JobName, Name
    <2>5. run \in Nat
      BY DEF Types
    <2> QED BY <2>2, <2>4, <2>5 DEF Row, Entry
  <1>5. Len(agm) \in Nat /\ DOMAIN agm = 1 .. Len(agm)
    BY <1>3, SeqDomain
  <1>6. rows \in [1 .. Len(agm) -> Entry] /\ DOMAIN rows = DOMAIN agm
        /\ \A n \in DOMAIN agm : rows[n] = Row(n)
    BY <1>4, <1>5
  <1>7. rows = [n \in DOMAIN file["agm_results"] |-> Row(n)]
    OBVIOUS
  <1> HIDE DEF rows
  <1>8. rows \in Seq(Entry)
    BY <1>5, <1>6, SeqFunction
  <1>9. csv' \in [Csv -> Seq(Entry)] /\ csv'["sketch"] = rows
        /\ \A c \in Csv \ {"sketch"} : csv'[c] = csv[c]
    BY <1>2, <1>3, <1>8, SetCsv
  <1> QED BY <1>1, <1>2, <1>4, <1>6, <1>7, <1>9, CombineTable

\* The types, and what a process has in its hands.
LEMMA TypesStep ==
    ASSUME Types, Processes, Stamps, [Next]_vars
    PROVE  Types'
  <1>0. /\ run \in Nat /\ ip \in 0 .. Len(Script) + 1 /\ Len(Script) \in Nat
        /\ compare \in BOOLEAN /\ max_thr \in MaxThreads
        /\ lines \in Seq(Line) /\ groups \in Nat /\ working \in BOOLEAN /\ opened \in BOOLEAN
        /\ file \in [File -> Seq(Line)] /\ csv \in [Csv -> Seq(Entry)]
        /\ \A j \in DOMAIN outcome : outcome[j] \in [end : End, lines : Seq(Line)]
        /\ deaths \in Nat /\ cut \subseteq 1 .. run
    BY ScriptSeq DEF Types
  <1>1. CASE Begin
    <2>1. compare' \in BOOLEAN /\ working' \in BOOLEAN /\ opened' \in BOOLEAN
      BY <1>0, <1>1, Zenon DEF Begin, procVars
    <2>2. /\ run' = run + 1 /\ ip' = 1 /\ outcome' = <<>>
          /\ UNCHANGED <<max_thr, lines, groups, file, csv, deaths, cut>>
      BY <1>1 DEF Begin, procVars, diskVars
    <2>3. DOMAIN outcome' = {}
      BY <2>2
    <2> QED BY <1>0, <2>1, <2>2, <2>3 DEF Types
  <1>2. CASE Interrupt
    <2>1. working' \in BOOLEAN /\ opened' \in BOOLEAN
      BY <1>2, Zenon DEF Interrupt
    <2>2. /\ ip' = 0 /\ groups' = 1 /\ lines' = <<>> /\ cut' = cut \cup {run} /\ ip \in 1 .. Len(Script)
          /\ UNCHANGED <<run, compare, max_thr, file, csv, outcome, deaths>>
      BY <1>2 DEF Interrupt, argVars, diskVars
    <2>3. cut' \subseteq 1 .. run'
      <3>1. run # 0
        BY <1>0, <2>2 DEF Stamps
      <3> QED BY <1>0, <2>2, <3>1
    <2> QED BY <1>0, <2>1, <2>2, <2>3 DEF Types
  <1>3. CASE AtWork
    <2>1. /\ UNCHANGED <<run, ip, compare, max_thr, csv, outcome, deaths, cut>>
          /\ working' \in BOOLEAN /\ opened' \in BOOLEAN
      BY <1>3, Worked
    <2>2. file' \in [File -> Seq(Line)] /\ lines' \in Seq(Line) /\ groups' \in Nat
      BY <1>3, WorkedFiles
    <2> QED BY <1>0, <2>1, <2>2 DEF Types
  <1>4. ASSUME NEW how, Ended(how) PROVE Types'
    <2>1. /\ ip \in 1 .. Len(Script)
          /\ ip' = ip + 1 /\ UNCHANGED <<run, compare, max_thr, cut>> /\ deaths' \in Nat
          /\ working' \in BOOLEAN /\ opened' \in BOOLEAN /\ lines' = <<>> /\ groups' = 1
      BY <1>4, AtEnd
    <2>2. \A j \in DOMAIN outcome' : outcome'[j] \in [end : End, lines : Seq(Line)]
      <3>1. how \in End /\ DOMAIN outcome' = DOMAIN outcome \cup {Script[ip].job}
        BY <1>4, AtEnd
      <3>2. \A j \in DOMAIN outcome' :
               outcome'[j] = IF j = Script[ip].job THEN [end |-> how, lines |-> lines] ELSE outcome[j]
        BY <1>4, AtEnd
      <3> QED BY <1>0, <3>1, <3>2
    <2>3. file' \in [File -> Seq(Line)] /\ csv' \in [Csv -> Seq(Entry)]
      BY <1>4, EndedFiles
    <2> QED BY <1>0, <2>1, <2>2, <2>3 DEF Types
  <1>5. CASE Shell \/ LeaveOut
    <2>1. /\ ip \in 1 .. Len(Script) /\ ip' = ip + 1
          /\ UNCHANGED <<run, compare, max_thr, lines, groups, working, opened, outcome, deaths, cut>>
      BY <1>5, Shelled
    <2>2. file' \in [File -> Seq(Line)] /\ csv' \in [Csv -> Seq(Entry)]
      <3>1. CASE CatFile
        BY <1>0, <3>1, CatEffect
      <3>2. CASE RmFiles
        BY <1>0, <3>2, RmEffect
      <3>3. CASE NewCsv
        BY <1>0, <3>3, NewEffect
      <3>4. CASE CombineResults
        BY <1>0, <3>4, CombineEffect
      <3>5. CASE LeaveOut
        BY <1>0, <3>5 DEF LeaveOut, diskVars
      <3> QED BY <1>5, <3>1, <3>2, <3>3, <3>4, <3>5 DEF Shell
    <2> QED BY <1>0, <2>1, <2>2 DEF Types
  <1>6. CASE UNCHANGED vars
    BY <1>0, <1>6 DEF Types, vars, argVars, procVars, diskVars
  <1> QED BY <1>1, <1>2, <1>3, <1>4, <1>5, <1>6, StepCases DEF Shell

\* Every step preserves Processes.
LEMMA ProcessesStep ==
    ASSUME Types, Processes, [Next]_vars
    PROVE  Processes'
  <1>0. /\ working \in BOOLEAN /\ lines \in Seq(Line) /\ file \in [File -> Seq(Line)]
    BY DEF Types
  <1>1. CASE /\ ~working' /\ lines' = <<>> /\ groups' = 1 /\ ~opened'
    BY <1>1, EmptySeq DEF Processes, Opening
  <1>2. CASE Begin
    <2>1. ~Runs(ip)
      BY <1>2, ScriptSeq DEF Begin, Runs
    <2>2. ~working /\ lines = <<>> /\ groups = 1 /\ ~opened
      BY <2>1, NotRunning
    <2>3. working' = working /\ lines' = lines /\ groups' = groups /\ opened' = opened
      BY <1>2 DEF Begin, procVars
    <2> QED BY <1>1, <2>2, <2>3
  <1>3. CASE Interrupt
    <2>1. ~working' /\ ~opened'
      BY <1>3, Zenon DEF Interrupt
    <2> QED BY <1>1, <1>3, <2>1 DEF Interrupt
  <1>4. CASE AtWork
    <2>1. /\ Runs(ip) /\ RunFact(ip) /\ Command = Script[ip] /\ ip' = ip /\ run' = run
          /\ working' \in BOOLEAN /\ working'
      BY <1>4, Worked
    <2>2. Command' = Script[ip]
      BY <2>1 DEF Command
    <2>3. Runs(ip')
      BY <2>1
    <2>4. CASE /\ ~working /\ lines' = <<>>
               /\ opened' <=> Script[ip].mode \in {"early", "append"}
               /\ file'[Script[ip].file] =
                      IF Script[ip].mode = "early" THEN <<>> ELSE file[Script[ip].file]
      <3>1. Script[ip].mode \in {"early", "append", "open", "late"}
        BY <2>1 DEF RunFact
      <3>2. Opening'
        BY <2>2, <2>4, <3>1 DEF Opening
      <3> QED BY <2>1, <2>2, <2>3, <2>4, <3>2, EmptySeq DEF Processes
    <2>5. CASE /\ working /\ Script[ip].mode = "open" /\ opened'
               /\ lines' = <<>> /\ file'[Script[ip].file] = <<>>
      <3>1. Opening'
        BY <2>2, <2>5 DEF Opening
      <3> QED BY <2>1, <2>2, <2>3, <2>5, <3>1, EmptySeq DEF Processes
    <2>6. ASSUME working, NEW x \in Line, x.run = run, x.job = Script[ip].job,
                 opened' <=> opened, Script[ip].mode = "open" => opened,
                 lines' = Append(lines, x),
                 file'[Script[ip].file] =
                           IF Script[ip].mode = "late" THEN file[Script[ip].file]
                           ELSE Append(file[Script[ip].file], x)
          PROVE  Processes'
      <3>1. \A n \in DOMAIN lines : lines[n].run = run /\ lines[n].job = Script[ip].job
        BY <2>1 DEF Processes
      <3>2. \A n \in DOMAIN lines' : lines'[n].run = run /\ lines'[n].job = Script[ip].job
        BY <1>0, <2>6, <3>1, AppendLine
      <3>3. /\ Script[ip].mode \in {"early", "append"} => opened
            /\ Script[ip].mode = "late" => ~opened
            /\ Script[ip].mode \in {"early", "open"} /\ opened => file[Script[ip].file] = lines
        BY <2>1, <2>6 DEF Processes, Opening
      <3>4. Opening'
        BY <2>2, <2>6, <3>3 DEF Opening
      <3>5. Script[ip].job[1] \notin Queries \cup {"parallel"} => Len(lines') <= 1
        <4>1. Script[ip].job[1] \notin Queries \cup {"parallel"} => lines = <<>> \/ lines' = <<>>
          BY <1>4, <2>6, Worked
        <4> QED BY <1>0, <2>6, <4>1, AppendLine, EmptySeq
      <3> QED BY <2>1, <2>2, <2>3, <2>6, <3>2, <3>4, <3>5 DEF Processes
    <2> QED BY <1>4, <2>4, <2>5, <2>6, WorkedFiles
  <1>5. ASSUME NEW how, Ended(how) PROVE Processes'
    BY <1>1, <1>5, AtEnd
  <1>6. CASE Shell \/ LeaveOut
    BY <1>1, <1>6, Shelled
  <1>7. CASE UNCHANGED vars
    BY <1>7 DEF Processes, Opening, Command, Runs, vars, argVars, procVars, diskVars
  <1> QED BY <1>2, <1>3, <1>4, <1>5, <1>6, <1>7, StepCases DEF Shell

\* A step of an execution of run.sh.
Moves == AtWork \/ (\E how : Ended(how)) \/ Shell \/ LeaveOut

\* What every step of an execution keeps, and where it leads.
LEMMA Moved ==
    ASSUME Types, Processes, Moves
    PROVE  /\ ip \in 1 .. Len(Script) /\ ip \in Nat /\ Len(Script) \in Nat
           /\ UNCHANGED <<run, compare, max_thr, cut>>
           /\ ip' = IF AtWork THEN ip ELSE ip + 1
           /\ ~AtWork => ~working' /\ lines' = <<>> /\ groups' = 1
           /\ AtWork => Runs(ip)
  <1>0. Len(Script) \in Nat
    BY ScriptSeq
  <1>1. CASE AtWork
    BY <1>0, <1>1, Worked
  <1>2. ASSUME NEW how, Ended(how), ~AtWork
        PROVE  /\ ip \in 1 .. Len(Script) /\ UNCHANGED <<run, compare, max_thr, cut>>
               /\ ip' = ip + 1 /\ ~working' /\ lines' = <<>> /\ groups' = 1
    BY <1>2, AtEnd
  <1>3. CASE (Shell \/ LeaveOut) /\ ~AtWork
    BY <1>0, <1>3, Shelled
  <1> QED BY <1>0, <1>1, <1>2, <1>3 DEF Moves

\* An execution begins, is interrupted or moves.
LEMMA StepKinds ==
    ASSUME [Next]_vars
    PROVE  Begin \/ Interrupt \/ Moves \/ UNCHANGED vars
  BY StepCases DEF Moves, Shell

\* A line of a file was there or is a line of the process.
LEMMA FileLines ==
    ASSUME Types, Processes, Moves, NEW f \in File, NEW n \in DOMAIN file'[f]
    PROVE  \/ n \in DOMAIN file[f] /\ file'[f][n] = file[f][n]
           \/ /\ Runs(ip) /\ f = Script[ip].file
              /\ file'[f][n].run = run /\ file'[f][n].job = Script[ip].job
  <1>0. file[f] \in Seq(Line) /\ lines \in Seq(Line)
    BY DEF Types
  <1>1. ASSUME f = Script[ip].file, Runs(ip), NEW x \in Line, x.run = run, x.job = Script[ip].job,
               file'[f] = Append(file[f], x)
        PROVE  \/ n \in DOMAIN file[f] /\ file'[f][n] = file[f][n]
               \/ file'[f][n].run = run /\ file'[f][n].job = Script[ip].job
    BY <1>0, <1>1, AppendLine
  <1>2. CASE AtWork
    <2>1. Runs(ip)
      BY <1>2, Worked
    <2>2. CASE f # Script[ip].file
      BY <1>2, <2>2, WorkedFiles
    <2>3. CASE f = Script[ip].file
      BY <1>1, <1>2, <2>1, <2>3, WorkedFiles, EmptySeq
    <2> QED BY <2>2, <2>3
  <1>3. ASSUME NEW how, Ended(how)
        PROVE  \/ n \in DOMAIN file[f] /\ file'[f][n] = file[f][n]
               \/ /\ Runs(ip) /\ f = Script[ip].file
                  /\ file'[f][n].run = run /\ file'[f][n].job = Script[ip].job
    <2>1. Runs(ip) /\ Command = Script[ip]
      BY <1>3, AtEnd
    <2>2. \A m \in DOMAIN lines : lines[m].run = run /\ lines[m].job = Script[ip].job
      BY <2>1 DEF Processes
    <2> QED BY <1>3, <2>1, <2>2, EndedFiles
  <1>4. CASE CatFile
    BY <1>4, CatEffect
  <1>5. CASE RmFiles
    BY <1>5, RmEffect, EmptySeq
  <1>6. CASE NewCsv
    BY <1>6, NewEffect
  <1>7. CASE CombineResults
    BY <1>7, CombineEffect
  <1>8. CASE LeaveOut
    BY <1>8 DEF LeaveOut, diskVars
  <1> QED BY <1>2, <1>3, <1>4, <1>5, <1>6, <1>7, <1>8 DEF Moves, Shell

\* An entry of a concatenation is one of the old entries or one of the new.
LEMMA JoinedAt ==
    ASSUME NEW a \in Seq(Entry), NEW b \in Seq(Entry), NEW n \in DOMAIN Join(a, b)
    PROVE  \/ n \in DOMAIN a /\ Join(a, b)[n] = a[n]
           \/ \E k \in DOMAIN b : n = Len(a) + k /\ Join(a, b)[n] = b[k]
  <1>1. /\ DOMAIN Join(a, b) = 1 .. Len(a) + Len(b)
        /\ \A m \in 1 .. Len(a) : Join(a, b)[m] = a[m]
        /\ \A m \in 1 .. Len(b) : Join(a, b)[Len(a) + m] = b[m]
    BY DEF Join
  <1>2. /\ Len(a) \in Nat /\ Len(b) \in Nat /\ DOMAIN a = 1 .. Len(a) /\ DOMAIN b = 1 .. Len(b)
    BY SeqDomain
  <1>3. CASE n \in 1 .. Len(a)
    BY <1>1, <1>2, <1>3
  <1>4. CASE n - Len(a) \in 1 .. Len(b)
    <2>1. n = Len(a) + (n - Len(a))
      BY <1>1, <1>2
    <2> QED BY <1>1, <1>2, <1>4, <2>1
  <1>5. n \in 1 .. Len(a) \/ n - Len(a) \in 1 .. Len(b)
    BY <1>1, <1>2
  <1> QED BY <1>3, <1>4, <1>5

\* An entry of a csv file was there or is of this execution.
LEMMA CsvEntries ==
    ASSUME Types, Processes, Moves, NEW c \in Csv, NEW n \in DOMAIN csv'[c]
    PROVE  \/ n \in DOMAIN csv[c] /\ csv'[c][n] = csv[c][n]
           \/ csv'[c][n].at = run
  <1>1. CASE AtWork
    BY <1>1, Worked
  <1>2. ASSUME NEW how, Ended(how)
        PROVE  \/ n \in DOMAIN csv[c] /\ csv'[c][n] = csv[c][n]
               \/ csv'[c][n].at = run
    <2>1. RunFact(ip)
      BY <1>2, AtEnd
    <2>2. lines \in Seq(Line) /\ Script[ip].job \in JobName
      BY <2>1 DEF Types, RunFact
    <2>3. \A k \in DOMAIN Entries(lines, Script[ip].job) : Entries(lines, Script[ip].job)[k].at = run
      BY <2>2, EntriesSeq
    <2>4. \/ csv'[c] = csv[c] \/ csv'[c] = Entries(lines, Script[ip].job)
      BY <1>2, EndedFiles
    <2> QED BY <2>3, <2>4
  <1>3. CASE CatFile
    <2> DEFINE f == Script[ip].file
               d == Script[ip].csv
               new == Entries(file[f], Script[ip].job)
    <2>1. /\ \A e \in Csv \ {d} : csv'[e] = csv[e]
          /\ csv'[d] = Join(csv[d], new)
          /\ file[f] \in Seq(Line) /\ new \in Seq(Entry) /\ csv[d] \in Seq(Entry)
      BY <1>3, CatEffect
    <2>2. Script[ip].job \in JobName
      BY <1>3, CatEffect DEF CatFact
    <2>3. \A k \in DOMAIN new : new[k].at = run
      BY <2>1, <2>2, EntriesSeq
    <2> HIDE DEF new
    <2>4. CASE c # d
      BY <2>1, <2>4
    <2>5. CASE c = d
      <3>1. n \in DOMAIN Join(csv[d], new) /\ csv'[c] = Join(csv[d], new)
        BY <2>1, <2>5
      <3>2. \/ n \in DOMAIN csv[d] /\ Join(csv[d], new)[n] = csv[d][n]
            \/ \E k \in DOMAIN new : n = Len(csv[d]) + k /\ Join(csv[d], new)[n] = new[k]
        BY <2>1, <3>1, JoinedAt
      <3> QED BY <2>3, <2>5, <3>1, <3>2
    <2> QED BY <2>4, <2>5
  <1>4. CASE RmFiles
    BY <1>4, RmEffect
  <1>5. CASE NewCsv
    BY <1>5, NewEffect, EmptySeq
  <1>6. CASE CombineResults
    BY <1>6, CombineEffect
  <1>7. CASE LeaveOut
    BY <1>7 DEF LeaveOut, diskVars
  <1> QED BY <1>1, <1>2, <1>3, <1>4, <1>5, <1>6, <1>7 DEF Moves, Shell

\* A file that no process has written since command k.
LEMMA FileKept ==
    ASSUME Types, Processes, Moves, NEW k \in 1 .. ip - 1, NEW f \in File, Unwritten(f, k)'
    PROVE  /\ Unwritten(f, k)
           /\ \/ file'[f] = file[f]
              \/ Script[ip].op = "rm" /\ f \in Script[ip].files /\ file'[f] = <<>> /\ ip' = ip + 1
  <1>1. ip \in Nat /\ (ip' = ip \/ ip' = ip + 1) /\ k \in Nat
    BY Moved
  <1>2. Unwritten(f, k)
    BY <1>1 DEF Unwritten
  <1>3. Runs(ip) => Script[ip].file # f
    BY <1>1, <1>2 DEF Unwritten
  <1> DEFINE Goal == \/ file'[f] = file[f]
                     \/ /\ Script[ip].op = "rm" /\ f \in Script[ip].files
                        /\ file'[f] = <<>> /\ ip' = ip + 1
  <1> SUFFICES Goal
    BY <1>2
  <1>4. CASE AtWork
    <2>1. Script[ip].file # f
      BY <1>3, <1>4, Worked
    <2> QED BY <1>4, <2>1, WorkedFiles
  <1>5. ASSUME NEW how, Ended(how) PROVE file'[f] = file[f]
    BY <1>3, <1>5, AtEnd, EndedFiles
  <1>6. CASE CatFile
    BY <1>6, CatEffect
  <1>7. CASE RmFiles
    BY <1>7, RmEffect, Shelled DEF Shell
  <1>8. CASE NewCsv
    BY <1>8, NewEffect
  <1>9. CASE CombineResults
    BY <1>9, CombineEffect
  <1>10. CASE LeaveOut
    BY <1>10 DEF LeaveOut, diskVars
  <1> QED BY <1>4, <1>5, <1>6, <1>7, <1>8, <1>9, <1>10 DEF Moves, Shell

\* The outcome of a job changes when its process ends.
LEMMA OutcomeKept ==
    ASSUME Types, Processes, Moves, NEW j, ~Runs(ip) \/ j # Script[ip].job
    PROVE  /\ Outcome(j)' = Outcome(j) /\ (j \in DOMAIN outcome' <=> j \in DOMAIN outcome)
           /\ Outcome(j) = "ok" => Result(j)' = Result(j)
  <1>1. CASE outcome' = outcome
    BY <1>1 DEF Outcome, Result
  <1>2. ASSUME NEW how, Ended(how)
        PROVE  /\ Outcome(j)' = Outcome(j) /\ (j \in DOMAIN outcome' <=> j \in DOMAIN outcome)
               /\ Outcome(j) = "ok" => Result(j)' = Result(j)
    <2>1. /\ Runs(ip) /\ DOMAIN outcome' = DOMAIN outcome \cup {Script[ip].job}
          /\ \A i \in DOMAIN outcome' :
                outcome'[i] = IF i = Script[ip].job THEN [end |-> how, lines |-> lines] ELSE outcome[i]
      BY <1>2, AtEnd
    <2> QED BY <2>1 DEF Outcome, Result
  <1>3. CASE AtWork
    BY <1>1, <1>3, Worked
  <1>4. CASE Shell \/ LeaveOut
    BY <1>1, <1>4, Shelled
  <1> QED BY <1>2, <1>3, <1>4 DEF Moves

\* The end of a process sets the outcome of its job.
LEMMA OutcomeSet ==
    ASSUME Types, Processes, NEW how, Ended(how), NEW j, j = Script[ip].job
    PROVE  /\ Outcome(j)' = how /\ how \in End /\ Result(j)' = lines
           /\ j \in DOMAIN outcome'
  <1>1. j \in DOMAIN outcome' /\ outcome'[j] = [end |-> how, lines |-> lines] /\ how \in End
    BY AtEnd
  <1> QED BY <1>1 DEF Outcome, Result

\* The outcomes there are.
LEMMA OutcomeRange ==
    ASSUME Types, NEW j
    PROVE  /\ Outcome(j) \in {"ok", "died", "unopened", "skipped"}
           /\ Outcome(j) = "skipped" <=> j \notin DOMAIN outcome
           /\ Outcome(j) = "ok" => Result(j) \in Seq(Line)
  <1>1. j \in DOMAIN outcome => outcome[j].end \in End /\ outcome[j].lines \in Seq(Line)
    BY DEF Types
  <1> QED BY <1>1 DEF Outcome, Result, End

\* No command is before the first.
LEMMA NoneBefore ==
    ASSUME NEW n, n = 0 \/ n = 1
    PROVE  \A k : ~(k \in 1 .. n - 1)
  <1>1. n \in Int /\ n - 1 < 1
    OBVIOUS
  <1> QED BY <1>1

\* A complete execution takes its files with it.
LEMMA TakenAway ==
    ASSUME Types, Removed, ip = Len(Script) + 1, NEW f \in File \ {"parallel_out"}
    PROVE  file[f] = <<>>
  <1>1. PICK k : RemovedFrom(f, k)
    BY AllRemoved
  <1>2. /\ k \in 1 .. Len(Script) /\ Script[k].op = "rm" /\ f \in Script[k].files
        /\ \A n : Runs(n) => n < k \/ Script[n].file # f
    BY <1>1 DEF RemovedFrom
  <1>3. k \in 1 .. ip - 1 /\ k \in Int /\ Len(Script) \in Nat
    BY <1>2, ScriptSeq
  <1>4. Unwritten(f, k)
    <2>1. \A n \in k + 1 .. ip : ~(n < k)
      BY <1>3
    <2> QED BY <1>2, <2>1 DEF Unwritten
  <1> QED BY <1>2, <1>3, <1>4 DEF Removed

\* Every step preserves Stamps: a complete execution has removed its files.
LEMMA StampsStep ==
    ASSUME Types, Processes, Stamps, Removed, [Next]_vars
    PROVE  Stamps'
  <1>0. /\ run \in Nat /\ ip \in 0 .. Len(Script) + 1 /\ Len(Script) \in Nat
        /\ cut \subseteq 1 .. run
    BY ScriptSeq DEF Types
  <1>1. /\ ip = 0 <=> run = 0 \/ run \in cut
        /\ \A f \in File \ {"parallel_out"} : \A n \in DOMAIN file[f] :
             file[f][n].run # 0 /\ file[f][n].run \in {run} \cup cut
        /\ \A c \in Csv : \A n \in DOMAIN csv[c] : csv[c][n].at \in 1 .. run
    BY DEF Stamps
  <1>2. CASE Begin
    <2>1. ip \in {0, Len(Script) + 1} /\ ip' = 1 /\ run' = run + 1 /\ UNCHANGED <<file, csv, cut>>
      BY <1>2 DEF Begin, diskVars
    <2>2. ip' = 0 <=> run' = 0 \/ run' \in cut'
      BY <1>0, <2>1
    <2>3. ASSUME NEW f \in File \ {"parallel_out"}, NEW n \in DOMAIN file[f]
          PROVE  file[f][n].run # 0 /\ file[f][n].run \in {run + 1} \cup cut
      <3>1. CASE ip = 0
        BY <1>1, <3>1
      <3>2. CASE ip = Len(Script) + 1
        BY <3>2, TakenAway, EmptySeq
      <3> QED BY <2>1, <3>1, <3>2
    <2>4. \A c \in Csv : \A n \in DOMAIN csv[c] : csv[c][n].at \in 1 .. run + 1
      BY <1>0, <1>1
    <2> QED BY <2>1, <2>2, <2>3, <2>4 DEF Stamps
  <1>3. CASE Interrupt
    <2>1. ip' = 0 /\ run' = run /\ cut' = cut \cup {run} /\ UNCHANGED <<file, csv>>
      BY <1>3 DEF Interrupt, argVars, diskVars
    <2>2. ip' = 0 <=> run' = 0 \/ run' \in cut'
      BY <2>1
    <2>3. \A f \in File \ {"parallel_out"} : \A n \in DOMAIN file[f] :
             file[f][n].run # 0 /\ file[f][n].run \in {run} \cup cut'
      BY <1>1, <2>1
    <2> QED BY <1>1, <2>1, <2>2, <2>3 DEF Stamps
  <1>4. CASE Moves
    <2>1. ip \in 1 .. Len(Script) /\ run' = run /\ cut' = cut /\ (ip' = ip \/ ip' = ip + 1)
      BY <1>4, Moved
    <2>2. run # 0 /\ run \notin cut
      BY <1>0, <1>1, <2>1
    <2>3. ip' = 0 <=> run' = 0 \/ run' \in cut'
      BY <1>0, <2>1, <2>2
    <2>4. ASSUME NEW f \in File \ {"parallel_out"}, NEW n \in DOMAIN file'[f]
          PROVE  file'[f][n].run # 0 /\ file'[f][n].run \in {run} \cup cut
      BY <1>1, <1>4, <2>2, <2>4, FileLines
    <2>5. ASSUME NEW c \in Csv, NEW n \in DOMAIN csv'[c]
          PROVE  csv'[c][n].at \in 1 .. run
      BY <1>0, <1>1, <1>4, <2>2, <2>5, CsvEntries
    <2> QED BY <2>1, <2>3, <2>4, <2>5 DEF Stamps
  <1>5. CASE UNCHANGED vars
    BY <1>1, <1>5 DEF Stamps, vars, argVars, procVars, diskVars
  <1> QED BY <1>2, <1>3, <1>4, <1>5, StepKinds

\* Every step preserves Outcomes.
LEMMA OutcomesStep ==
    ASSUME Types, Processes, Outcomes, [Next]_vars
    PROVE  Outcomes'
  <1>0. Len(Script) \in Nat /\ ip \in Nat
    BY ScriptSeq DEF Types
  <1>1. CASE Begin
    <2>1. ip' = 1 /\ outcome' = <<>>
      BY <1>1 DEF Begin
    <2>2. DOMAIN outcome' = {} /\ 1 .. ip' - 1 = {}
      BY <2>1
    <2> QED BY <2>2 DEF Outcomes
  <1>2. CASE Interrupt
    BY <1>2 DEF Interrupt, Outcomes
  <1>3. CASE Moves
    <2>1. ip \in 1 .. Len(Script) /\ ip' = IF AtWork THEN ip ELSE ip + 1
      BY <1>3, Moved
    <2>2. ASSUME NEW k \in ip' .. Len(Script), Runs(k) PROVE Script[k].job \notin DOMAIN outcome'
      <3>1. k \in ip .. Len(Script) /\ Script[k].job \notin DOMAIN outcome
        BY <1>0, <2>1, <2>2 DEF Outcomes
      <3>2. CASE ~Runs(ip) \/ Script[k].job # Script[ip].job
        BY <1>3, <3>1, <3>2, OutcomeKept
      <3>3. CASE Runs(ip) /\ Script[k].job = Script[ip].job
        <4>1. k = ip
          BY <2>2, <3>3, OneCommand
        <4>2. AtWork
          BY <1>0, <2>1, <2>2, <4>1
        <4> QED BY <3>1, <4>2, Worked
      <3> QED BY <3>2, <3>3
    <2>3. ASSUME NEW k \in 1 .. ip' - 1, Runs(k), Script[k].job[1] \notin Comparison
          PROVE  Script[k].job \in DOMAIN outcome'
      <3>1. CASE ~Runs(ip) \/ Script[k].job # Script[ip].job
        <4>1. k # ip
          BY <2>3, <3>1
        <4>2. k \in 1 .. ip - 1
          BY <1>0, <2>1, <4>1
        <4>3. Script[k].job \in DOMAIN outcome
          BY <2>1, <2>3, <4>2 DEF Outcomes
        <4> QED BY <1>3, <3>1, <4>3, OutcomeKept
      <3>2. CASE Runs(ip) /\ Script[k].job = Script[ip].job
        <4>1. k = ip
          BY <2>3, <3>2, OneCommand
        <4>2. ~AtWork
          BY <1>0, <2>1, <2>3, <4>1
        <4>3. ~LeaveOut
          BY <2>3, <4>1 DEF LeaveOut, Command
        <4>4. ~Shell
          BY <3>2 DEF Shell, CatFile, RmFiles, NewCsv, CombineResults, Executes, Command, Runs
        <4>5. \E how : Ended(how)
          BY <1>3, <4>2, <4>3, <4>4 DEF Moves
        <4> QED BY <3>2, <4>5, OutcomeSet
      <3> QED BY <3>1, <3>2
    <2> QED BY <2>2, <2>3 DEF Outcomes
  <1>4. CASE UNCHANGED vars
    BY <1>4 DEF Outcomes, vars
  <1> QED BY <1>1, <1>2, <1>3, <1>4, StepKinds

\* Every step preserves Removed.
LEMMA RemovedStep ==
    ASSUME Types, Processes, Removed, [Next]_vars
    PROVE  Removed'
  <1>0. Len(Script) \in Nat /\ ip \in Nat
    BY ScriptSeq DEF Types
  <1>1. CASE ip' = 0 \/ ip' = 1
    <2>1. \A k : ~(k \in 1 .. ip' - 1)
      BY <1>1, NoneBefore
    <2> QED BY <2>1 DEF Removed
  <1>2. CASE Moves
    <2>1. ip \in 1 .. Len(Script) /\ ip' = IF AtWork THEN ip ELSE ip + 1
      BY <1>2, Moved
    <2> SUFFICES ASSUME NEW k \in 1 .. ip' - 1, Script[k].op = "rm",
                        NEW f \in Script[k].files, Unwritten(f, k)'
                 PROVE  file'[f] = <<>>
      BY DEF Removed, Unwritten
    <2>2. k \in 1 .. Len(Script)
      BY <1>0, <2>1
    <2>3. f \in File
      BY <2>2, RmFacts
    <2>4. CASE k = ip
      <3>1. Script[ip].op = "rm"
        BY <2>4
      <3>2. ~Runs(ip) /\ ~CatFile /\ ~NewCsv /\ ~CombineResults /\ ~LeaveOut
        BY <3>1 DEF Runs, CatFile, NewCsv, CombineResults, LeaveOut, Executes, Command
      <3>3. ~AtWork /\ ~(\E how : Ended(how))
        BY <3>2, Worked, AtEnd
      <3>4. RmFiles
        BY <1>2, <3>2, <3>3 DEF Moves, Shell
      <3> QED BY <2>3, <2>4, <3>4, RmEffect
    <2>5. CASE k # ip
      <3>1. k \in 1 .. ip - 1
        BY <1>0, <2>1, <2>5
      <3>2. Unwritten(f, k) /\ (file'[f] = file[f] \/ file'[f] = <<>>)
        BY <1>2, <2>3, <3>1, FileKept
      <3>3. file[f] = <<>>
        BY <3>1, <3>2 DEF Removed
      <3> QED BY <3>2, <3>3
    <2> QED BY <2>4, <2>5
  <1>3. CASE UNCHANGED vars
    BY <1>3 DEF Removed, Unwritten, vars, argVars, procVars, diskVars
  <1> QED BY <1>1, <1>2, <1>3, StepKinds DEF Begin, Interrupt

\* Every step preserves Origin.
LEMMA OriginStep ==
    ASSUME Types, Processes, Stamps, Origin, [Next]_vars
    PROVE  Origin'
  <1>0. Len(Script) \in Nat /\ ip \in Nat /\ run \in Nat /\ cut \subseteq 1 .. run
    BY ScriptSeq DEF Types
  <1>1. CASE Interrupt
    BY <1>1 DEF Interrupt, Origin
  <1>2. CASE Begin
    <2>1. run' = run + 1 /\ file' = file
      BY <1>2 DEF Begin, diskVars
    <2>2. \A f \in File \ {"parallel_out"} : \A n \in DOMAIN file[f] : file[f][n].run # run + 1
      BY <1>0 DEF Stamps
    <2> QED BY <2>1, <2>2 DEF Origin
  <1>3. CASE Moves
    <2>1. /\ ip \in 1 .. Len(Script) /\ ip' = (IF AtWork THEN ip ELSE ip + 1) /\ run' = run
          /\ AtWork => Runs(ip)
      BY <1>3, Moved
    <2>2. ASSUME NEW f \in File \ {"parallel_out"}, NEW n \in DOMAIN file'[f], file'[f][n].run = run,
                 NEW j, j = file'[f][n].job
          PROVE  \E k \in 1 .. ip' : Wrote(k, f, j)'
      <3>1. CASE n \in DOMAIN file[f] /\ file'[f][n] = file[f][n]
        <4>1. PICK k \in 1 .. ip : Wrote(k, f, j)
          BY <2>1, <2>2, <3>1 DEF Origin
        <4>2. k \in 1 .. ip' /\ k \in Nat
          BY <1>0, <2>1
        <4>3. ASSUME ip' = ip + 1, Script[ip].op = "rm" PROVE f \notin Script[ip].files
          <5>1. ~Runs(ip) /\ ~CatFile /\ ~NewCsv /\ ~CombineResults /\ ~LeaveOut
            BY <4>3 DEF Runs, CatFile, NewCsv, CombineResults, LeaveOut, Executes, Command
          <5>2. ~AtWork /\ ~(\E how : Ended(how))
            BY <5>1, Worked, AtEnd
          <5>3. RmFiles
            BY <1>3, <5>1, <5>2 DEF Moves, Shell
          <5> QED BY <2>2, <5>3, RmEffect, EmptySeq
        <4>4. Unremoved(f, k)'
          <5>1. ASSUME NEW m \in k + 1 .. ip' - 1, Script[m].op = "rm" PROVE f \notin Script[m].files
            <6>1. m \in k + 1 .. ip - 1 \/ (m = ip /\ ip' = ip + 1)
              BY <1>0, <2>1, <4>2
            <6> QED BY <4>1, <4>3, <5>1, <6>1 DEF Wrote, Unremoved
          <5> QED BY <5>1 DEF Unremoved
        <4> QED BY <4>1, <4>2, <4>4 DEF Wrote
      <3>2. CASE /\ Runs(ip) /\ f = Script[ip].file /\ file'[f][n].job = Script[ip].job
        <4>1. ip \in 1 .. ip' /\ \A m : ~(m \in ip + 1 .. ip' - 1)
          BY <1>0, <2>1
        <4>3. PICK k : k = ip
          OBVIOUS
        <4>4. k \in 1 .. ip' /\ Runs(k) /\ f = Script[k].file /\ j = Script[k].job
          BY <2>2, <3>2, <4>1, <4>3
        <4>5. \A m : ~(m \in k + 1 .. ip' - 1)
          BY <4>1, <4>3
        <4> QED BY <4>4, <4>5 DEF Wrote, Unremoved
      <3> QED BY <1>3, <3>1, <3>2, FileLines
    <2> QED BY <2>1, <2>2 DEF Origin
  <1>4. CASE UNCHANGED vars
    BY <1>4 DEF Origin, Wrote, Unremoved, vars, argVars, procVars, diskVars
  <1> QED BY <1>1, <1>2, <1>3, <1>4, StepKinds

\* The lines of a process that emptied its file first or has just replaced it.
LEMMA OwnLines ==
    ASSUME Types, Processes, working
    PROVE  /\ \A n \in DOMAIN lines : lines[n].run = run /\ lines[n].job = Script[ip].job
           /\ Script[ip].mode \in {"early", "open"} /\ opened => file[Script[ip].file] = lines
  BY Running DEF Processes, Opening

\* Every step preserves Fresh.
LEMMA FreshStep ==
    ASSUME Types, Processes, Outcomes, Fresh, [Next]_vars, Types', Processes'
    PROVE  Fresh'
  <1>0. Len(Script) \in Nat /\ ip \in Nat
    BY ScriptSeq DEF Types
  <1>1. CASE ip' = 0
    <2>1. \A k : ~(k \in 1 .. ip')
      BY <1>1
    <2> QED BY <2>1 DEF Fresh
  <1>2. CASE Begin
    <2>1. ip' = 1
      BY <1>2 DEF Begin
    <2>2. ~Runs(ip)
      BY <1>2, ScriptSeq DEF Begin, Runs
    <2>3. ~working'
      BY <1>2, <2>2, NotRunning DEF Begin, procVars
    <2>4. \A k \in 1 .. ip' : ~Replaced(k)'
      BY <2>1, <2>3 DEF Replaced
    <2> QED BY <2>4 DEF Fresh
  <1>3. CASE Moves
    <2>1. /\ ip \in 1 .. Len(Script) /\ ip' = (IF AtWork THEN ip ELSE ip + 1) /\ run' = run
          /\ AtWork => Runs(ip)
      BY <1>3, Moved
    <2>2. ASSUME NEW k \in 1 .. ip', Runs(k), NEW f, f = Script[k].file,
                 Unwritten(f, k)', Replaced(k)', NEW n \in DOMAIN file'[f]
          PROVE  file'[f][n].run = run /\ file'[f][n].job = Script[k].job
      <3>1. f \in File
        BY <2>2, RunFacts DEF RunFact
      <3>2. CASE k < ip
        <4>1. k \in 1 .. ip - 1
          BY <1>0, <3>2
        <4>2. Unwritten(f, k) /\ (file'[f] = file[f] \/ file'[f] = <<>>)
          BY <1>3, <2>2, <3>1, <4>1, FileKept
        <4>3. Outcome(Script[k].job)' = Outcome(Script[k].job)
          <5>1. ~Runs(ip) \/ Script[k].job # Script[ip].job
            BY <1>0, <2>2, <3>2, OneCommand
          <5> QED BY <1>3, <5>1, OutcomeKept
        <4>4. Replaced(k)
          BY <1>0, <2>1, <2>2, <3>2, <4>3 DEF Replaced
        <4>5. n \in DOMAIN file[f] /\ file'[f][n] = file[f][n]
          BY <2>2, <4>2, EmptySeq
        <4>6. k \in 1 .. ip /\ Unwritten(Script[k].file, k)
          BY <1>0, <2>2, <4>1, <4>2 DEF Unwritten
        <4>7. \A m \in DOMAIN file[Script[k].file] :
                /\ file[Script[k].file][m].run = run
                /\ file[Script[k].file][m].job = Script[k].job
          BY <2>2, <4>4, <4>6 DEF Fresh
        <4> QED BY <2>2, <4>5, <4>7
      <3>3. CASE k = ip /\ AtWork
        <4>1. /\ working' /\ opened' /\ Script[k].mode # "append" /\ Runs(k) /\ ip' = k
          BY <1>0, <2>1, <2>2, <3>3 DEF Replaced
        <4>2. /\ \A m \in DOMAIN lines' : lines'[m].run = run' /\ lines'[m].job = Script[ip'].job
              /\ Script[ip'].mode # "late"
              /\ Script[ip'].mode \in {"early", "open"} => file'[Script[ip'].file] = lines'
          BY <4>1 DEF Processes, Opening, Command
        <4>3. Script[k].mode \in {"early", "append", "open", "late"}
          BY <4>1, RunFacts DEF RunFact
        <4> QED BY <2>1, <2>2, <4>1, <4>2, <4>3
      <3>4. CASE k = ip /\ ~AtWork
        <4>1. ip' = k + 1 /\ ~(k = ip')
          BY <1>0, <2>1, <3>4
        <4>2. Outcome(Script[k].job)' \in {"ok", "died"} /\ Script[k].mode # "append"
          BY <2>2, <4>1 DEF Replaced
        <4>3. CASE outcome' = outcome
          <5>1. Script[k].job \notin DOMAIN outcome
            BY <1>0, <2>1, <2>2, <3>4 DEF Outcomes
          <5> QED BY <4>2, <4>3, <5>1 DEF Outcome
        <4>4. CASE Shell \/ LeaveOut
          BY <4>3, <4>4, Shelled
        <4>5. ASSUME NEW how, Ended(how)
              PROVE  file'[f][n].run = run /\ file'[f][n].job = Script[k].job
          <5>1. working /\ RunFact(ip)
            BY <4>5, AtEnd
          <5>2. Outcome(Script[k].job)' = how
            BY <3>4, <4>5, OutcomeSet
          <5>3. /\ Script[ip].mode \in {"early", "append", "open", "late"}
                /\ how \in {"ok", "died"} /\ Script[ip].mode # "late" => opened
                /\ how = "died" => Script[ip].mode # "late"
            BY <4>5, <5>1, AtEnd DEF RunFact
          <5>4. file'[f] = IF how = "ok" /\ Script[ip].mode = "late" THEN lines ELSE file[f]
            BY <2>2, <3>4, <4>5, EndedFiles
          <5>5. file'[f] = lines
            BY <2>2, <3>4, <4>2, <5>1, <5>2, <5>3, <5>4, OwnLines
          <5> QED BY <2>2, <3>4, <5>1, <5>5, OwnLines
        <4> QED BY <1>3, <3>4, <4>4, <4>5 DEF Moves
      <3>5. CASE k = ip + 1
        <4>1. ip' = ip + 1 /\ ~AtWork
          BY <1>0, <2>1, <3>5
        <4>2. ~working'
          BY <1>3, <4>1, Moved
        <4> QED BY <1>0, <2>2, <3>5, <4>1, <4>2 DEF Replaced
      <3> QED BY <1>0, <2>1, <3>2, <3>3, <3>4, <3>5
    <2> QED BY <2>1, <2>2 DEF Fresh
  <1>4. CASE UNCHANGED vars
    BY <1>4 DEF Fresh, Unwritten, Replaced, Outcome, vars, argVars, procVars, diskVars
  <1> QED BY <1>1, <1>2, <1>3, <1>4, StepKinds DEF Interrupt

\* A job is not credited with anything before its process has ended.
LEMMA CatJob ==
    ASSUME NEW p \in 1 .. Len(Script), Script[p].op = "cat", NEW k, Runs(k),
           Script[k].job = Script[p].job
    PROVE  k < p
  <1>1. PICK m \in 1 .. p - 1 : Delivered(m) /\ Script[m].job = Script[p].job
    BY CatFacts DEF CatFact
  <1>2. k = m
    BY <1>1, OneCommand DEF Delivered
  <1> QED BY <1>1, <1>2

\* A new execution has reported nothing yet.
LEMMA OldReports ==
    ASSUME Types, Stamps, Begin, NEW c \in Csv
    PROVE  Reported(c)' = {}
  <1>1. run' = run + 1 /\ csv' = csv /\ run \in Nat
    BY DEF Begin, diskVars, Types
  <1>2. \A n \in DOMAIN csv[c] : csv[c][n].at # run + 1
    BY <1>1 DEF Stamps
  <1> QED BY <1>1, <1>2 DEF Reported

\* What a step adds to a csv file.
LEMMA NewReports ==
    ASSUME Types, Processes, Moves, NEW c \in Csv \ {"sketch"}, NEW n \in DOMAIN csv'[c]
    PROVE  \/ n \in DOMAIN csv[c] /\ csv'[c][n] = csv[c][n]
           \/ /\ CatFile /\ c = Script[ip].csv
              /\ csv'[c][n].as = Script[ip].job /\ csv'[c][n].at = run
              /\ \E k \in DOMAIN file[Script[ip].file] :
                    csv'[c][n].line = file[Script[ip].file][k]
           \/ /\ c = "parallel" /\ Runs(ip) /\ ip' = ip + 1
              /\ csv'[c][n].as = Script[ip].job /\ csv'[c][n].at = run
              /\ csv'[c][n].line.run = run /\ csv'[c][n].line.job = Script[ip].job
              /\ Ended("ok")
  <1>1. CASE AtWork
    BY <1>1, Worked
  <1>2. ASSUME NEW how, Ended(how), ~(n \in DOMAIN csv[c] /\ csv'[c][n] = csv[c][n])
        PROVE  /\ c = "parallel" /\ Runs(ip) /\ ip' = ip + 1
               /\ csv'[c][n].as = Script[ip].job /\ csv'[c][n].at = run
               /\ csv'[c][n].line.run = run /\ csv'[c][n].line.job = Script[ip].job
               /\ Ended("ok")
    <2>1. RunFact(ip) /\ Runs(ip) /\ ip' = ip + 1 /\ working
      BY <1>2, AtEnd
    <2>2. lines \in Seq(Line) /\ Script[ip].job \in JobName
      BY <2>1 DEF Types, RunFact
    <2>3. c = "parallel" /\ csv'[c] = Entries(lines, Script[ip].job) /\ how = "ok"
      BY <1>2, EndedFiles
    <2>4. DOMAIN Entries(lines, Script[ip].job) = DOMAIN lines
      BY <2>2, EntriesSeq
    <2>5. n \in DOMAIN lines
      BY <2>3, <2>4
    <2>6. /\ Entries(lines, Script[ip].job)[n].line = lines[n]
          /\ Entries(lines, Script[ip].job)[n].as = Script[ip].job
          /\ Entries(lines, Script[ip].job)[n].at = run
      BY <2>2, <2>5, EntriesSeq
    <2>7. lines[n].run = run /\ lines[n].job = Script[ip].job
      BY <2>1, <2>5, OwnLines
    <2> QED BY <1>2, <2>1, <2>3, <2>6, <2>7
  <1>3. ASSUME CatFile, ~(n \in DOMAIN csv[c] /\ csv'[c][n] = csv[c][n])
        PROVE  /\ c = Script[ip].csv
               /\ csv'[c][n].as = Script[ip].job /\ csv'[c][n].at = run
               /\ \E k \in DOMAIN file[Script[ip].file] :
                    csv'[c][n].line = file[Script[ip].file][k]
    <2> DEFINE f == Script[ip].file
               new == Entries(file[f], Script[ip].job)
    <2>1. /\ \A e \in Csv \ {Script[ip].csv} : csv'[e] = csv[e]
          /\ csv'[Script[ip].csv] = Join(csv[Script[ip].csv], new)
          /\ file[f] \in Seq(Line) /\ new \in Seq(Entry) /\ csv[Script[ip].csv] \in Seq(Entry)
      BY <1>3, CatEffect
    <2>2. Script[ip].job \in JobName
      BY <1>3, CatEffect DEF CatFact
    <2>3. DOMAIN new = DOMAIN file[f]
      BY <2>1, <2>2, EntriesSeq
    <2>4. \A k \in DOMAIN file[f] : /\ new[k].line = file[f][k]
                                    /\ new[k].as = Script[ip].job /\ new[k].at = run
      BY <2>1, <2>2, EntriesSeq
    <2> HIDE DEF new
    <2>5. c = Script[ip].csv
      BY <1>3, <2>1
    <2>6. n \in DOMAIN Join(csv[c], new) /\ csv'[c] = Join(csv[c], new)
      BY <2>1, <2>5
    <2>7. \/ n \in DOMAIN csv[c] /\ Join(csv[c], new)[n] = csv[c][n]
          \/ \E k \in DOMAIN new : n = Len(csv[c]) + k /\ Join(csv[c], new)[n] = new[k]
      BY <2>1, <2>5, <2>6, JoinedAt
    <2>8. PICK k \in DOMAIN new : csv'[c][n] = new[k]
      BY <1>3, <2>6, <2>7
    <2> QED BY <2>3, <2>4, <2>5, <2>8
  <1>4. CASE RmFiles
    BY <1>4, RmEffect
  <1>5. CASE NewCsv
    BY <1>5, NewEffect, EmptySeq
  <1>6. CASE CombineResults
    BY <1>6, CombineEffect
  <1>7. CASE LeaveOut
    BY <1>7 DEF LeaveOut, diskVars
  <1> QED BY <1>1, <1>2, <1>3, <1>4, <1>5, <1>6, <1>7 DEF Moves, Shell

\* Every step preserves Settled: a cat comes after its process.
LEMMA SettledStep ==
    ASSUME Types, Processes, Stamps, Settled, [Next]_vars
    PROVE  Settled'
  <1>0. Len(Script) \in Nat /\ ip \in Nat
    BY ScriptSeq DEF Types
  <1>1. CASE Begin
    BY <1>1, OldReports DEF Settled
  <1>2. CASE Interrupt
    BY <1>2 DEF Interrupt, Settled
  <1>3. CASE Moves
    <2>1. ip \in 1 .. Len(Script) /\ ip' = (IF AtWork THEN ip ELSE ip + 1) /\ run' = run
      BY <1>3, Moved
    <2>2. ASSUME NEW k \in ip' .. Len(Script), Runs(k), NEW c \in Csv \ {"sketch"},
                 NEW n \in Reported(c)'
          PROVE  csv'[c][n].as # Script[k].job
      <3>1. n \in DOMAIN csv'[c] /\ csv'[c][n].at = run /\ k \in ip .. Len(Script)
        BY <1>0, <2>1, <2>2 DEF Reported
      <3>2. CASE n \in DOMAIN csv[c] /\ csv'[c][n] = csv[c][n]
        BY <2>1, <2>2, <3>1, <3>2 DEF Settled, Reported
      <3>3. CASE CatFile /\ csv'[c][n].as = Script[ip].job
        BY <1>0, <2>1, <2>2, <3>1, <3>3, CatEffect, CatJob
      <3>4. CASE Runs(ip) /\ ip' = ip + 1 /\ csv'[c][n].as = Script[ip].job
        BY <1>0, <2>2, <3>4, OneCommand
      <3> QED BY <1>3, <3>1, <3>2, <3>3, <3>4, NewReports
    <2> QED BY <2>2 DEF Settled
  <1>4. CASE UNCHANGED vars
    BY <1>4 DEF Settled, Reported, vars, argVars, procVars, diskVars
  <1> QED BY <1>1, <1>2, <1>3, <1>4, StepKinds

\* One entry of a csv file is credited right.
Right(e) ==
    \/ Own(e)
    \/ /\ Outcome(e.as) \in {"skipped", "unopened"}
       /\ \/ e.line.run \in cut \ {run}
          \/ e.line.run = run /\ <<e.line.job, e.as>> \in Inherits

\* CreditedRight, entry by entry.
LEMMA CreditedRightEach ==
    CreditedRight <=> \A c \in Csv \ {"sketch"} : \A n \in Reported(c) : Right(csv[c][n])
  BY DEF CreditedRight, Right

\* The file that is read is its job's, if the job has replaced it.
LEMMA ReadFile ==
    ASSUME Types, Processes, Fresh, CatFile
    PROVE  \E k \in 1 .. ip - 1 :
             /\ Delivered(k) /\ Script[k].job = Script[ip].job /\ Script[k].file = Script[ip].file
             /\ Unwritten(Script[k].file, k) /\ Unremoved(Script[k].file, k)
             /\ Script[k].mode # "append" /\ RunFact(k)
             /\ Outcome(Script[ip].job) \in {"ok", "died"}
                => \A n \in DOMAIN file[Script[ip].file] :
                      /\ file[Script[ip].file][n].run = run
                      /\ file[Script[ip].file][n].job = Script[ip].job
  <1>1. CatFact(ip) /\ ip \in 1 .. Len(Script) /\ ip \in Nat
    BY CatEffect, Shelled, Moved DEF Shell, Moves
  <1>2. PICK k \in 1 .. ip - 1 :
          /\ Delivered(k) /\ Script[k].job = Script[ip].job /\ Script[k].file = Script[ip].file
          /\ Script[k].mode # "append"
          /\ \A n \in k + 1 .. ip :
                /\ Runs(n) => Script[n].file # Script[ip].file
                /\ Script[n].op = "rm" => Script[ip].file \notin Script[n].files
    BY <1>1 DEF CatFact
  <1>3. Unwritten(Script[k].file, k) /\ Unremoved(Script[k].file, k)
    BY <1>1, <1>2 DEF Unwritten, Unremoved
  <1>4. Runs(k) /\ RunFact(k) /\ k \in 1 .. ip /\ k < ip
    BY <1>1, <1>2, RunFacts DEF Delivered
  <1>5. Outcome(Script[k].job) \in {"ok", "died"} => Replaced(k)
    BY <1>2, <1>4 DEF Replaced
  <1>6. Replaced(k) => \A n \in DOMAIN file[Script[k].file] :
                          /\ file[Script[k].file][n].run = run
                          /\ file[Script[k].file][n].job = Script[k].job
    BY <1>3, <1>4 DEF Fresh
  <1> QED BY <1>2, <1>3, <1>4, <1>5, <1>6

\* Every step preserves CreditedRight.
LEMMA CreditedRightStep ==
    ASSUME Types, Processes, Stamps, Origin, Fresh, Settled, CreditedRight, [Next]_vars
    PROVE  CreditedRight'
  <1>0. Len(Script) \in Nat /\ ip \in Nat
    BY ScriptSeq DEF Types
  <1>1. \A c \in Csv \ {"sketch"} : \A n \in Reported(c) : Right(csv[c][n])
    BY CreditedRightEach
  <1> SUFFICES ASSUME NEW c \in Csv \ {"sketch"}, NEW n \in Reported(c)'
               PROVE  Right(csv[c][n])'
    BY DEF CreditedRight, Right
  <1>2. CASE Begin
    BY <1>2, OldReports
  <1>3. CASE Interrupt
    <2>1. cut' = cut \cup {run} /\ UNCHANGED <<run, csv, outcome>>
      BY <1>3 DEF Interrupt, argVars, diskVars
    <2>2. n \in Reported(c)
      BY <2>1 DEF Reported
    <2> QED BY <1>1, <2>1, <2>2 DEF Right, Own, Outcome
  <1>4. CASE Moves
    <2>1. ip \in 1 .. Len(Script) /\ run' = run /\ cut' = cut
      BY <1>4, Moved
    <2>2. n \in DOMAIN csv'[c] /\ csv'[c][n].at = run
      BY <2>1 DEF Reported
    <2>3. CASE n \in DOMAIN csv[c] /\ csv'[c][n] = csv[c][n]
      <3>1. n \in Reported(c)
        BY <2>2, <2>3 DEF Reported
      <3>2. PICK e : e = csv[c][n]
        OBVIOUS
      <3>3. Right(e)
        BY <1>1, <3>1, <3>2
      <3>4. ~Runs(ip) \/ e.as # Script[ip].job
        BY <1>0, <2>1, <3>1, <3>2 DEF Settled
      <3>5. Outcome(e.as)' = Outcome(e.as)
        BY <1>4, <3>4, OutcomeKept
      <3>6. Right(e)'
        BY <2>1, <3>3, <3>5 DEF Right, Own
      <3> QED BY <2>3, <3>2, <3>6 DEF Right, Own, Outcome
    <2>4. CASE /\ CatFile /\ csv'[c][n].as = Script[ip].job
               /\ \E k \in DOMAIN file[Script[ip].file] :
                    csv'[c][n].line = file[Script[ip].file][k]
      <3>1. PICK k \in DOMAIN file[Script[ip].file] :
                    csv'[c][n].line = file[Script[ip].file][k]
        BY <2>4
      <3>2. PICK j : j = Script[ip].job
        OBVIOUS
      <3>3. outcome' = outcome
        BY <2>4, Shelled DEF Shell
      <3>4. Outcome(j) \in {"ok", "died"} => \A m \in DOMAIN file[Script[ip].file] :
                                                /\ file[Script[ip].file][m].run = run
                                                /\ file[Script[ip].file][m].job = j
        BY <2>4, <3>2, ReadFile
      <3>5. PICK x : x = file[Script[ip].file][k]
        OBVIOUS
      <3>6. x.run \in cut \ {run} \/ (x.run = run /\ (x.job = j \/ <<x.job, j>> \in Inherits))
        <4>1. Script[ip].file \in File \ {"parallel_out"} /\ Script[ip].op = "cat"
          BY <2>4, CatEffect DEF CatFact
        <4>2. x.run \in {run} \cup cut
          BY <3>1, <3>5, <4>1 DEF Stamps
        <4>3. ASSUME x.run = run PROVE x.job = j \/ <<x.job, j>> \in Inherits
          <5>1. PICK w \in 1 .. ip : Wrote(w, Script[ip].file, x.job)
            BY <1>0, <2>1, <3>1, <3>5, <4>1, <4>3 DEF Origin
          <5>2. /\ Runs(w) /\ Script[w].file = Script[ip].file /\ Script[w].job = x.job
                /\ \A m \in w + 1 .. ip - 1 : Script[m].op = "rm" => Script[ip].file \notin Script[m].files
            BY <5>1 DEF Wrote, Unremoved
          <5> QED BY <2>1, <3>2, <4>1, <5>2, EarlierWriter
        <4> QED BY <4>2, <4>3
      <3>7. Outcome(j) \in {"ok", "died", "unopened", "skipped"}
        BY OutcomeRange
      <3>8. PICK e : e = csv'[c][n]
        OBVIOUS
      <3>9. \/ e.line.run = run /\ e.line.job = j
            \/ /\ Outcome(j) \in {"skipped", "unopened"}
               /\ \/ e.line.run \in cut \ {run}
                  \/ e.line.run = run /\ <<e.line.job, j>> \in Inherits
        BY <3>1, <3>4, <3>5, <3>6, <3>7, <3>8
      <3>10. Outcome(j)' = Outcome(j) /\ e.as = j
        BY <2>4, <3>2, <3>3, <3>8 DEF Outcome
      <3>11. Right(e)'
        BY <2>1, <3>9, <3>10 DEF Right, Own
      <3> QED BY <3>8, <3>11 DEF Right, Own, Outcome
    <2>5. CASE /\ csv'[c][n].as = Script[ip].job
               /\ csv'[c][n].line.run = run /\ csv'[c][n].line.job = Script[ip].job
      BY <2>1, <2>5 DEF Right, Own
    <2> QED BY <1>4, <2>2, <2>3, <2>4, <2>5, NewReports
  <1>5. CASE UNCHANGED vars
    <2>1. UNCHANGED <<run, csv, outcome, cut>>
      BY <1>5 DEF vars, argVars, procVars, diskVars
    <2>2. n \in Reported(c)
      BY <2>1 DEF Reported
    <2> QED BY <1>1, <2>1, <2>2 DEF Right, Own, Outcome
  <1> QED BY <1>2, <1>3, <1>4, <1>5, StepKinds

\* A process of one line that has done its work has written it.
LEMMA DoneLines ==
    ASSUME WorkDone, Command.mode # "open", Command.job[1] \notin Queries \cup {"parallel"}
    PROVE  lines # <<>>
  BY DEF WorkDone, Queries

\* Every step preserves Kept.
LEMMA KeptStep ==
    ASSUME Types, Processes, Outcomes, Kept, [Next]_vars
    PROVE  Kept'
  <1>0. Len(Script) \in Nat /\ ip \in Nat
    BY ScriptSeq DEF Types
  <1>1. CASE ip' = 0 \/ ip' = 1
    <2>1. \A k : ~(k \in 1 .. ip' - 1)
      BY <1>1, NoneBefore
    <2> QED BY <2>1 DEF Kept
  <1>2. CASE Moves
    <2>1. ip \in 1 .. Len(Script) /\ ip' = IF AtWork THEN ip ELSE ip + 1
      BY <1>2, Moved
    <2>2. ASSUME NEW k \in 1 .. ip' - 1, NEW f, f = Script[k].file, Delivered(k),
                 NEW j, j = Script[k].job, Outcome(j)' = "ok", Unwritten(f, k)', Unremoved(f, k)'
          PROVE  file'[f] = Result(j)'
      <3>1. Runs(k) /\ RunFact(k) /\ f \in File
        BY <2>2, RunFacts DEF Delivered, RunFact
      <3>2. CASE k # ip
        <4>1. k \in 1 .. ip - 1
          BY <1>0, <2>1, <3>2
        <4>2. /\ Unwritten(f, k)
              /\ \/ file'[f] = file[f]
                 \/ Script[ip].op = "rm" /\ f \in Script[ip].files /\ ip' = ip + 1
          BY <1>2, <2>2, <3>1, <4>1, FileKept
        <4>3. Unremoved(f, k) /\ (ip' = ip + 1 /\ Script[ip].op = "rm" => f \notin Script[ip].files)
          BY <1>0, <2>1, <2>2, <4>1 DEF Unremoved
        <4>4. Outcome(j) = "ok" /\ Result(j)' = Result(j)
          <5>1. ~Runs(ip) \/ j # Script[ip].job
            BY <2>2, <3>1, <3>2, OneCommand
          <5> QED BY <1>2, <2>2, <5>1, OutcomeKept
        <4>5. Unwritten(Script[k].file, k) /\ Unremoved(Script[k].file, k)
          BY <2>2, <4>2, <4>3
        <4>6. file[f] = Result(j)
          BY <2>2, <4>1, <4>4, <4>5 DEF Kept
        <4> QED BY <2>2, <4>2, <4>3, <4>4, <4>6
      <3>3. CASE k = ip
        <4>1. j \notin DOMAIN outcome
          BY <1>0, <2>1, <2>2, <3>1, <3>3 DEF Outcomes
        <4>2. ~AtWork /\ ~(outcome' = outcome)
          <5>1. ~(outcome' = outcome)
            BY <2>2, <4>1 DEF Outcome
          <5> QED BY <5>1, Worked
        <4>3. PICK how : Ended(how)
          BY <1>2, <4>2, Shelled DEF Moves
        <4>4. how = "ok" /\ Result(j)' = lines
          BY <2>2, <3>3, <4>3, OutcomeSet
        <4>5. working /\ (Script[ip].mode # "late" => opened)
          BY <4>3, <4>4, AtEnd
        <4>6. Script[ip].mode \in {"early", "open", "late"}
          <5>1. ~(k <= Middle)
            BY <1>0, <2>2, <3>1, Sizes DEF RunFact, Delivered, Middle
          <5> QED BY <3>1, <3>3, <5>1 DEF RunFact
        <4>7. file'[f] = IF Script[ip].mode = "late" THEN lines ELSE file[f]
          BY <2>2, <3>3, <4>3, <4>4, EndedFiles
        <4> QED BY <2>2, <3>3, <4>4, <4>5, <4>6, <4>7, OwnLines
      <3> QED BY <3>2, <3>3
    <2> QED BY <2>2 DEF Kept
  <1>3. CASE UNCHANGED vars
    BY <1>3 DEF Kept, Unwritten, Unremoved, Outcome, Result, vars, argVars, procVars, diskVars
  <1> QED BY <1>1, <1>2, <1>3, StepKinds DEF Begin, Interrupt

\* A csv file that is not written anew keeps its entries.
Grows(c) == \A n \in DOMAIN csv[c] : n \in DOMAIN csv'[c] /\ csv'[c][n] = csv[c][n]

\* A step that does not begin the csv file anew only adds to it.
LEMMA CsvGrows ==
    ASSUME Types, Processes, Moves, NEW c \in Csv \ {"sketch"},
           ~(Script[ip].op = "new" /\ c \in Script[ip].csvs),
           c = "parallel" => ~(Ended("ok") /\ Script[ip].job[1] = "parallel")
    PROVE  Grows(c)
  <1>0. CASE csv'[c] = csv[c]
    BY <1>0 DEF Grows
  <1>1. CASE AtWork
    BY <1>0, <1>1, Worked
  <1>2. ASSUME NEW how, Ended(how) PROVE csv'[c] = csv[c]
    BY <1>2, EndedFiles
  <1>3. CASE CatFile
    <2> DEFINE d == Script[ip].csv
               new == Entries(file[Script[ip].file], Script[ip].job)
    <2>1. /\ \A e \in Csv \ {d} : csv'[e] = csv[e]
          /\ csv'[d] = Join(csv[d], new)
          /\ new \in Seq(Entry) /\ csv[d] \in Seq(Entry)
      BY <1>3, CatEffect
    <2> HIDE DEF new
    <2>2. CASE c = d
      <3>1. /\ DOMAIN Join(csv[d], new) = 1 .. Len(csv[d]) + Len(new)
            /\ \A m \in 1 .. Len(csv[d]) : Join(csv[d], new)[m] = csv[d][m]
        BY <2>1 DEF Join
      <3>2. Len(csv[d]) \in Nat /\ Len(new) \in Nat /\ DOMAIN csv[d] = 1 .. Len(csv[d])
        BY <2>1, SeqDomain
      <3> QED BY <2>1, <2>2, <3>1, <3>2 DEF Grows
    <2> QED BY <1>0, <2>1, <2>2
  <1>4. CASE RmFiles
    BY <1>0, <1>4, RmEffect
  <1>5. CASE NewCsv
    BY <1>0, <1>5, NewEffect
  <1>6. CASE CombineResults
    BY <1>0, <1>6, CombineEffect
  <1>7. CASE LeaveOut
    BY <1>0, <1>7 DEF LeaveOut, diskVars
  <1> QED BY <1>0, <1>1, <1>2, <1>3, <1>4, <1>5, <1>6, <1>7 DEF Moves, Shell

\* What is present stays present in a csv file that grows.
LEMMA PresentKept ==
    ASSUME Types, Types', NEW c \in Csv, NEW j, run' = run, Grows(c), Present(c, j),
           Outcome(j) = "ok", Result(j)' = Result(j)
    PROVE  Present(c, j)'
  <1> DEFINE ls == Result(j)
  <1>1. /\ csv[c] \in Seq(Entry) /\ csv'[c] \in Seq(Entry) /\ ls \in Seq(Line)
    BY OutcomeRange DEF Types
  <1>2. PICK d \in 0 .. Len(csv[c]) :
          /\ d + Len(ls) <= Len(csv[c])
          /\ \A n \in DOMAIN ls : csv[c][d + n] = [line |-> ls[n], as |-> j, at |-> run]
    BY DEF Present, Holds
  <1>3. /\ Len(csv[c]) \in Nat /\ Len(csv'[c]) \in Nat /\ DOMAIN csv[c] = 1 .. Len(csv[c])
        /\ DOMAIN csv'[c] = 1 .. Len(csv'[c]) /\ Len(ls) \in Nat /\ DOMAIN ls = 1 .. Len(ls)
    BY <1>1, SeqDomain
  <1> HIDE DEF ls
  <1>4. Len(csv[c]) <= Len(csv'[c])
    <2>1. CASE Len(csv[c]) = 0
      BY <1>3, <2>1
    <2>2. CASE Len(csv[c]) # 0
      <3>1. Len(csv[c]) \in DOMAIN csv[c]
        BY <1>3, <2>2
      <3>2. Len(csv[c]) \in DOMAIN csv'[c]
        BY <3>1 DEF Grows
      <3> QED BY <1>3, <3>2
    <2> QED BY <2>1, <2>2
  <1>5. d \in 0 .. Len(csv'[c]) /\ d + Len(ls) <= Len(csv'[c])
    BY <1>2, <1>3, <1>4
  <1>6. ASSUME NEW n \in DOMAIN ls PROVE csv'[c][d + n] = [line |-> ls[n], as |-> j, at |-> run]
    <2>1. d + n \in DOMAIN csv[c]
      BY <1>2, <1>3
    <2> QED BY <1>2, <2>1 DEF Grows
  <1> QED BY <1>5, <1>6 DEF Present, Holds, ls

\* Every step preserves Read: a cat finds what the process left.
LEMMA ReadStep ==
    ASSUME Types, Types', Processes, Fresh, Kept, Read, [Next]_vars
    PROVE  Read'
  <1>0. Len(Script) \in Nat /\ ip \in Nat
    BY ScriptSeq DEF Types
  <1>1. CASE ip' = 0 \/ ip' = 1
    <2>1. \A k : ~(k \in 1 .. ip' - 1)
      BY <1>1, NoneBefore
    <2> QED BY <2>1 DEF Read
  <1>2. CASE Moves
    <2>1. ip \in 1 .. Len(Script) /\ ip' = (IF AtWork THEN ip ELSE ip + 1) /\ run' = run
      BY <1>2, Moved
    <2>2. ASSUME NEW k \in 1 .. ip' - 1, Script[k].op = "cat", Outcome(Script[k].job)' = "ok",
                 NEW c, c = Script[k].csv, NEW j, j = Script[k].job
          PROVE  Present(c, j)'
      <3>1. k \in 1 .. Len(Script) /\ k <= ip
        BY <1>0, <2>1
      <3>2. CatFact(k)
        BY <2>2, <3>1, CatFacts
      <3>3. c \in Csv \ {"sketch", "parallel"} /\ k > NewOf(c)
        BY <2>2, <3>2 DEF CatFact
      <3>4. ~Runs(ip) \/ j # Script[ip].job
        BY <1>0, <2>2, <3>1, CatJob
      <3>5. Outcome(j) = "ok" /\ Result(j)' = Result(j)
        BY <1>2, <2>2, <3>4, OutcomeKept
      <3>6. CASE k < ip
        <4>1. k \in 1 .. ip - 1
          BY <1>0, <3>6
        <4>2. Present(c, j)
          BY <2>2, <3>5, <4>1 DEF Read
        <4>3. ~(Script[ip].op = "new" /\ c \in Script[ip].csvs)
          <5>1. Script[ip].op = "new" /\ c \in Script[ip].csvs => ip = NewOf(c)
            BY <2>1, NewFacts
          <5> QED BY <1>0, <3>3, <3>6, <5>1
        <4>4. Grows(c)
          BY <1>2, <3>3, <4>3, CsvGrows
        <4> QED BY <2>1, <3>3, <3>5, <4>2, <4>4, PresentKept
      <3>7. CASE k = ip
        <4>1. CatFile
          <5>1. Script[ip].op = "cat"
            BY <2>2, <3>7
          <5>2. ~Runs(ip) /\ ~RmFiles /\ ~NewCsv /\ ~CombineResults /\ ~LeaveOut
            BY <5>1 DEF Runs, RmFiles, NewCsv, CombineResults, LeaveOut, Executes, Command
          <5>3. ~AtWork /\ ~(\E how : Ended(how))
            BY <5>2, Worked, AtEnd
          <5> QED BY <1>2, <5>2, <5>3 DEF Moves, Shell
        <4> DEFINE f == Script[ip].file
                   new == Entries(file[f], j)
                   old == csv[c]
        <4>2. /\ csv'[c] = Join(old, new)
              /\ file[f] \in Seq(Line) /\ new \in Seq(Entry) /\ old \in Seq(Entry)
          BY <2>2, <3>7, <4>1, CatEffect
        <4>3. PICK p \in 1 .. ip - 1 :
                /\ Delivered(p) /\ Script[p].job = j /\ Script[p].file = f
                /\ Unwritten(Script[p].file, p) /\ Unremoved(Script[p].file, p)
          BY <2>2, <3>7, <4>1, ReadFile
        <4>4. file[f] = Result(j)
          BY <3>5, <4>3 DEF Kept
        <4>5. j \in JobName
          BY <2>2, <3>2 DEF CatFact
        <4>6. Len(new) = Len(file[f])
          BY <4>2, <4>5, EntriesSeq
        <4>7. \A n \in DOMAIN file[f] : new[n] = [line |-> file[f][n], as |-> j, at |-> run]
          BY <4>2, <4>5, EntriesSeq
        <4> HIDE DEF new, old
        <4>8. /\ Len(Join(old, new)) = Len(old) + Len(new)
              /\ \A m \in 1 .. Len(new) : Join(old, new)[Len(old) + m] = new[m]
          BY <4>2 DEF Join
        <4>9. /\ Len(old) \in Nat /\ Len(new) \in Nat /\ DOMAIN file[f] = 1 .. Len(file[f])
          BY <4>2, SeqDomain
        <4>10. \A n \in DOMAIN file[f] :
                  csv'[c][Len(old) + n] = [line |-> file[f][n], as |-> j, at |-> run]
          BY <4>2, <4>6, <4>7, <4>8, <4>9
        <4>11. Len(old) \in 0 .. Len(csv'[c]) /\ Len(old) + Len(file[f]) <= Len(csv'[c])
          BY <4>2, <4>6, <4>8, <4>9
        <4>12. file[f] = Result(j)' /\ run' = run
          BY <2>1, <3>5, <4>4
        <4> QED BY <4>10, <4>11, <4>12 DEF Present, Holds
      <3> QED BY <1>0, <3>1, <3>6, <3>7
    <2> QED BY <2>2 DEF Read
  <1>3. CASE UNCHANGED vars
    BY <1>3 DEF Read, Present, Holds, Result, Outcome, vars, argVars, procVars, diskVars
  <1> QED BY <1>1, <1>2, <1>3, StepKinds DEF Begin, Interrupt

\* A csv file of this execution gets entries of this execution only.
LEMMA AllNewKept ==
    ASSUME Types, Processes, Moves, NEW c \in Csv, AllNew(c)
    PROVE  AllNew(c)'
  <1>1. run' = run
    BY Moved
  <1>2. ASSUME NEW n \in DOMAIN csv'[c] PROVE csv'[c][n].at = run'
    BY <1>1, <1>2, CsvEntries DEF AllNew
  <1> QED BY <1>2 DEF AllNew

\* Every step preserves Renewed.
LEMMA RenewedStep ==
    ASSUME Types, Types', Processes, Outcomes, Renewed, [Next]_vars
    PROVE  Renewed'
  <1>0. Len(Script) \in Nat /\ ip \in Nat
    BY ScriptSeq DEF Types
  <1>1. RenewedBefore /\ ParallelAnew
    BY DEF Renewed
  <1> SUFFICES RenewedBefore' /\ ParallelAnew'
    BY DEF Renewed
  <1>2. ASSUME ip' = 0 \/ ip' = 1 PROVE RenewedBefore'
    <2>1. \A k : ~(k \in 1 .. ip' - 1)
      BY <1>2, NoneBefore
    <2> QED BY <2>1 DEF RenewedBefore
  <1>3. CASE Begin
    <2>1. outcome' = <<>> /\ ip' = 1
      BY <1>3 DEF Begin
    <2>2. Outcome(<<"parallel", 1>>)' = "skipped"
      BY <2>1 DEF Outcome
    <2>3. ParallelAnew'
      BY <2>2 DEF ParallelAnew
    <2> QED BY <1>2, <2>1, <2>3
  <1>4. CASE Interrupt
    <2>1. ip' = 0 /\ UNCHANGED <<run, csv, outcome>>
      BY <1>4 DEF Interrupt, argVars, diskVars
    <2>2. ParallelAnew'
      BY <1>1, <2>1 DEF ParallelAnew, AllNew, Present, Holds, Result, Outcome
    <2> QED BY <1>2, <2>1, <2>2
  <1>5. CASE Moves
    <2>1. ip \in 1 .. Len(Script) /\ ip' = (IF AtWork THEN ip ELSE ip + 1) /\ run' = run
      BY <1>5, Moved
    <2>2. ASSUME NEW k \in 1 .. ip' - 1, Script[k].op = "new", NEW c \in Script[k].csvs
          PROVE  AllNew(c)'
      <3>1. k \in 1 .. Len(Script) /\ k <= ip
        BY <1>0, <2>1
      <3>2. c \in Csv
        BY <2>2, <3>1, NewFacts
      <3>3. CASE k # ip
        <4>1. k \in 1 .. ip - 1
          BY <1>0, <3>1, <3>3
        <4>2. AllNew(c)
          BY <1>1, <2>2, <4>1 DEF RenewedBefore
        <4> QED BY <1>5, <3>2, <4>2, AllNewKept
      <3>4. CASE k = ip
        <4>1. Script[ip].op = "new"
          BY <2>2, <3>4
        <4>2. ~Runs(ip) /\ ~RmFiles /\ ~CatFile /\ ~CombineResults /\ ~LeaveOut
          BY <4>1 DEF Runs, RmFiles, CatFile, CombineResults, LeaveOut, Executes, Command
        <4>3. ~AtWork /\ ~(\E how : Ended(how))
          BY <4>2, Worked, AtEnd
        <4>4. NewCsv
          BY <1>5, <4>2, <4>3 DEF Moves, Shell
        <4>5. csv'[c] = <<>>
          BY <2>2, <3>2, <3>4, <4>4, NewEffect
        <4> QED BY <4>5, EmptySeq DEF AllNew
      <3> QED BY <3>3, <3>4
    <2>3. ASSUME NEW k \in 1 .. ip' - 1, Script[k].op = "combine"
          PROVE  AllNew("sketch")'
      <3>1. k \in 1 .. Len(Script) /\ k <= ip /\ "sketch" \in Csv
        BY <1>0, <2>1 DEF Csv
      <3>2. CASE k # ip
        <4>1. k \in 1 .. ip - 1
          BY <1>0, <3>1, <3>2
        <4>2. AllNew("sketch")
          BY <1>1, <2>3, <4>1 DEF RenewedBefore
        <4> QED BY <1>5, <3>1, <4>2, AllNewKept
      <3>3. CASE k = ip
        <4>1. Script[ip].op = "combine"
          BY <2>3, <3>3
        <4>2. ~Runs(ip) /\ ~RmFiles /\ ~CatFile /\ ~NewCsv /\ ~LeaveOut
          BY <4>1 DEF Runs, RmFiles, CatFile, NewCsv, LeaveOut, Executes, Command
        <4>3. ~AtWork /\ ~(\E how : Ended(how))
          BY <4>2, Worked, AtEnd
        <4>4. CombineResults
          BY <1>5, <4>2, <4>3 DEF Moves, Shell
        <4> QED BY <2>1, <4>4, CombineEffect DEF AllNew
      <3> QED BY <3>2, <3>3
    <2>4. RenewedBefore'
      BY <2>2, <2>3 DEF RenewedBefore
    <2>5. ParallelAnew'
      <3> DEFINE j == <<"parallel", 1>>
      <3>1. SUFFICES ASSUME Outcome(j)' = "ok" PROVE AllNew("parallel")' /\ Present("parallel", j)'
        BY DEF ParallelAnew
      <3>2. "parallel" \in Csv
        BY DEF Csv
      <3>3. CASE ~Runs(ip) \/ j # Script[ip].job
        <4>1. Outcome(j) = "ok" /\ Result(j)' = Result(j)
          BY <1>5, <3>1, <3>3, OutcomeKept
        <4>2. AllNew("parallel") /\ Present("parallel", j)
          BY <1>1, <4>1 DEF ParallelAnew
        <4>3. ~(Ended("ok") /\ Script[ip].job[1] = "parallel")
          <5>1. ASSUME Ended("ok"), Script[ip].job[1] = "parallel" PROVE FALSE
            <6>1. Runs(ip) /\ RunFact(ip)
              BY <5>1, AtEnd
            <6> QED BY <3>3, <5>1, <6>1 DEF RunFact
          <5> QED BY <5>1
        <4>4. ~(Script[ip].op = "new" /\ "parallel" \in Script[ip].csvs)
          BY <2>1, NewFacts
        <4>5. Grows("parallel")
          BY <1>5, <3>2, <4>3, <4>4, CsvGrows
        <4> HIDE DEF j
        <4> QED BY <1>5, <2>1, <3>2, <4>1, <4>2, <4>5, AllNewKept, PresentKept
      <3>4. CASE Runs(ip) /\ j = Script[ip].job
        <4>1. j \notin DOMAIN outcome
          BY <1>0, <2>1, <3>4 DEF Outcomes
        <4>2. outcome' # outcome
          BY <3>1, <4>1 DEF Outcome
        <4>3. PICK how : Ended(how)
          BY <1>5, <4>2, Worked, Shelled DEF Moves
        <4>4. how = "ok" /\ Result(j)' = lines
          BY <3>1, <3>4, <4>3, OutcomeSet
        <4>5. lines \in Seq(Line)
          BY DEF Types
        <4>6. j \in JobName /\ j[1] = "parallel"
          BY DEF JobName, Name
        <4> HIDE DEF j
        <4>7. csv'["parallel"] = Entries(lines, j)
          BY <3>4, <4>3, <4>4, <4>6, EndedFiles
        <4>8. /\ DOMAIN Entries(lines, j) = DOMAIN lines /\ Len(Entries(lines, j)) = Len(lines)
              /\ \A n \in DOMAIN lines : Entries(lines, j)[n].at = run
              /\ \A n \in DOMAIN lines : Entries(lines, j)[n] = [line |-> lines[n], as |-> j, at |-> run]
          BY <4>5, <4>6, EntriesSeq
        <4>9. AllNew("parallel")'
          BY <2>1, <4>7, <4>8 DEF AllNew
        <4>10. Len(lines) \in Nat /\ DOMAIN lines = 1 .. Len(lines)
          BY <4>5, SeqDomain
        <4>11. /\ 0 \in 0 .. Len(csv'["parallel"]) /\ 0 + Len(lines) <= Len(csv'["parallel"])
               /\ \A n \in DOMAIN lines :
                    csv'["parallel"][0 + n] = [line |-> lines[n], as |-> j, at |-> run']
          BY <2>1, <4>7, <4>8, <4>10
        <4>12. Present("parallel", j)'
          BY <4>4, <4>11 DEF Present, Holds
        <4> QED BY <4>9, <4>12
      <3> QED BY <3>3, <3>4
    <2> QED BY <2>4, <2>5
  <1>6. CASE UNCHANGED vars
    <2>1. UNCHANGED <<ip, run, csv, outcome>>
      BY <1>6 DEF vars, argVars, procVars, diskVars
    <2> QED BY <1>1, <2>1 DEF RenewedBefore, ParallelAnew, AllNew, Present, Holds, Result, Outcome
  <1> QED BY <1>3, <1>4, <1>5, <1>6, StepKinds

\* The commands of one sketch.
SketchOf(name, offset, f) ==
    /\ f \in File /\ offset \in {0, Lengths}
    /\ \A k \in offset + 1 .. offset + Lengths :
          /\ Runs(k) /\ Script[k].job = <<name, k - offset>> /\ Script[k].file = f
          /\ Script[k].mode = IF k = offset + 1 THEN "early" ELSE "append"
          /\ Script[k].job[1] \notin Queries \cup {"parallel"}
    /\ \A k \in offset + Lengths + 1 .. Middle : Runs(k) /\ Script[k].file # f

\* Where the processes of the two sketches are in the script.
LEMMA SketchFacts ==
    SketchOf("agm", 0, "agm_results") /\ SketchOf("cube", Lengths, "cube_results")
  <1>1. /\ Lengths \in Int /\ Lengths >= 1 /\ Middle = Lengths + Lengths /\ Middle \in Int
        /\ Len(Script) > Middle /\ DOMAIN Script = 1 .. Len(Script) /\ Len(Script) \in Nat
    BY Sizes, ScriptSeq DEF Middle
  <1>2. ASSUME NEW k \in 1 .. Lengths
        PROVE  /\ Runs(k) /\ Script[k].job = <<"agm", k>> /\ Script[k].file = "agm_results"
               /\ Script[k].mode = IF k = 1 THEN "early" ELSE "append"
               /\ Script[k].job[1] = "agm"
    <2>1. RunAt(k, <<"agm", k>>, "agm_results", IF k = 1 THEN "early" ELSE "append")
      BY CommandAt
    <2>2. k \in DOMAIN Script
      BY <1>1
    <2> QED BY <2>1, <2>2 DEF RunAt, Runs
  <1>3. ASSUME NEW k \in Lengths + 1 .. Middle
        PROVE  /\ Runs(k) /\ Script[k].job = <<"cube", k - Lengths>> /\ Script[k].file = "cube_results"
               /\ Script[k].mode = IF k = Lengths + 1 THEN "early" ELSE "append"
               /\ Script[k].job[1] = "cube"
    <2>1. PICK n \in 1 .. Lengths : n = k - Lengths
      BY <1>1
    <2>2. k = Lengths + n /\ (n = 1 <=> k = Lengths + 1)
      BY <1>1, <2>1
    <2>3. RunAt(k, <<"cube", n>>, "cube_results", IF n = 1 THEN "early" ELSE "append")
      BY <2>2, CommandAt
    <2>4. k \in DOMAIN Script
      BY <1>1
    <2>5. Runs(k) /\ Script[k].job = <<"cube", n>> /\ Script[k].file = "cube_results"
          /\ Script[k].mode = IF n = 1 THEN "early" ELSE "append"
      BY <2>3, <2>4 DEF RunAt, Runs
    <2>6. Script[k].mode = IF k = Lengths + 1 THEN "early" ELSE "append"
      BY <2>2, <2>5
    <2>7. Script[k].job = <<"cube", k - Lengths>> /\ Script[k].job[1] = "cube"
      BY <2>1, <2>5
    <2> QED BY <2>5, <2>6, <2>7
  <1>4. "agm_results" \in File /\ "cube_results" \in File
        /\ "agm" \notin Queries \cup {"parallel"} /\ "cube" \notin Queries \cup {"parallel"}
    BY DEF File, Queries
  <1>5. SketchOf("agm", 0, "agm_results")
    <2>1. \A k \in 0 + 1 .. 0 + Lengths : k \in 1 .. Lengths /\ k - 0 = k
      BY <1>1
    <2>2. \A k \in 0 + Lengths + 1 .. Middle : k \in Lengths + 1 .. Middle
      BY <1>1
    <2>3. \A k \in 0 + 1 .. 0 + Lengths :
            /\ Runs(k) /\ Script[k].job = <<"agm", k - 0>> /\ Script[k].file = "agm_results"
            /\ Script[k].mode = IF k = 0 + 1 THEN "early" ELSE "append"
            /\ Script[k].job[1] \notin Queries \cup {"parallel"}
      BY <1>2, <1>4, <2>1
    <2>4. \A k \in 0 + Lengths + 1 .. Middle : Runs(k) /\ Script[k].file # "agm_results"
      BY <1>3, <2>2
    <2> QED BY <1>4, <2>3, <2>4 DEF SketchOf
  <1>6. SketchOf("cube", Lengths, "cube_results")
    <2>1. \A k \in Lengths + 1 .. Lengths + Lengths :
            /\ Runs(k) /\ Script[k].job = <<"cube", k - Lengths>> /\ Script[k].file = "cube_results"
            /\ Script[k].mode = IF k = Lengths + 1 THEN "early" ELSE "append"
            /\ Script[k].job[1] \notin Queries \cup {"parallel"}
      BY <1>1, <1>3, <1>4
    <2>2. \A k : ~(k \in Lengths + Lengths + 1 .. Middle)
      BY <1>1
    <2> QED BY <1>4, <2>1, <2>2 DEF SketchOf
  <1> QED BY <1>5, <1>6

\* What Measures says of the file, and when.
Due(offset) == ip \in offset + 1 .. 2 * Lengths + 1 /\ (ip > offset + 1 \/ working)
Alive(name) == \A k \in 1 .. Lengths : ~Died(<<name, k>>)
Expected(offset) == IF ip > offset + Lengths THEN Lengths ELSE ip - offset - 1 + Len(lines)
Lengthwise(name, f) ==
    \A n \in DOMAIN file[f] : file[f][n].run = run /\ file[f][n].job = <<name, n>>

\* Measures in its named parts.
LEMMA MeasuresDef ==
    ASSUME NEW name, NEW offset, NEW f
    PROVE  Measures(name, offset, f) <=>
             (Due(offset) /\ Alive(name) => Len(file[f]) = Expected(offset) /\ Lengthwise(name, f))
  BY DEF Measures, Due, Alive, Expected, Lengthwise

\* A sequence that is the n-th line for every n stays so with its next line.
LEMMA NextLine ==
    ASSUME NEW s \in Seq(Line), NEW x \in Line, NEW name, NEW r,
           \A n \in DOMAIN s : s[n].run = r /\ s[n].job = <<name, n>>,
           x.run = r, x.job = <<name, Len(s) + 1>>
    PROVE  /\ \A n \in DOMAIN Append(s, x) :
                 Append(s, x)[n].run = r /\ Append(s, x)[n].job = <<name, n>>
           /\ Len(Append(s, x)) = Len(s) + 1
  BY AppendLine

\* Every step preserves Measures, of either sketch.
LEMMA MeasuresStep ==
    ASSUME Types, Processes, Outcomes, [Next]_vars,
           NEW name, NEW offset, NEW f, SketchOf(name, offset, f), Measures(name, offset, f)
    PROVE  Measures(name, offset, f)'
  <1>0. /\ Lengths \in Int /\ Lengths >= 1 /\ Middle = 2 * Lengths /\ offset \in {0, Lengths}
        /\ offset \in Int /\ ip \in Int /\ f \in File /\ Len(Script) \in Nat /\ Len(Script) > Middle
    BY Sizes, ScriptSeq DEF Middle, SketchOf, Types
  <1>1. Due(offset) /\ Alive(name) => Len(file[f]) = Expected(offset) /\ Lengthwise(name, f)
    BY MeasuresDef
  <1> SUFFICES ASSUME Due(offset)', Alive(name)'
               PROVE  Len(file'[f]) = Expected(offset)' /\ Lengthwise(name, f)'
    BY DEF Measures, Due, Alive, Expected, Lengthwise
  <1>2. ip' \in offset + 1 .. 2 * Lengths + 1 /\ (ip' > offset + 1 \/ working')
    BY DEF Due
  <1>3. CASE Begin
    <2>1. ip' = 1 /\ working' = working
      BY <1>3 DEF Begin, procVars
    <2>2. ~Runs(ip)
      BY <1>3, ScriptSeq DEF Begin, Runs
    <2>3. ~working'
      BY <2>1, <2>2, NotRunning
    <2> QED BY <1>0, <1>2, <2>1, <2>3
  <1>4. CASE Interrupt
    BY <1>0, <1>2, <1>4 DEF Interrupt
  <1>5. CASE UNCHANGED vars
    <2>1. UNCHANGED <<run, ip, lines, working, file, outcome>>
      BY <1>5 DEF vars, argVars, procVars, diskVars
    <2> QED BY <1>1, <2>1 DEF Due, Alive, Expected, Lengthwise, Died, Outcome
  <1>6. CASE AtWork
    <2>1. /\ ip \in 1 .. Len(Script) /\ Runs(ip) /\ ip' = ip /\ run' = run /\ outcome' = outcome
      BY <1>6, Worked
    <2>2. Alive(name)
      BY <2>1 DEF Alive, Died, Outcome
    <2>3. ip \in offset + 1 .. 2 * Lengths + 1
      BY <1>2, <2>1
    <2>4. CASE ip > offset + Lengths
      <3>1. Script[ip].file # f
        <4>1. CASE ip <= Middle
          <5>1. ip \in offset + Lengths + 1 .. Middle
            BY <1>0, <2>4, <4>1
          <5> QED BY <5>1 DEF SketchOf
        <4>2. CASE ip = Middle + 1
          BY <2>1, <4>2, SpecialCommands DEF Runs
        <4> QED BY <1>0, <2>3, <4>1, <4>2
      <3>2. file'[f] = file[f]
        BY <1>0, <1>6, <3>1, WorkedFiles
      <3>3. Due(offset)
        BY <1>0, <2>3, <2>4 DEF Due
      <3> QED BY <1>1, <2>1, <2>2, <2>4, <3>2, <3>3 DEF Expected, Lengthwise
    <2>5. CASE ip <= offset + Lengths
      <3>1. ip \in offset + 1 .. offset + Lengths
        BY <1>0, <2>3, <2>5
      <3>2. /\ Script[ip].job = <<name, ip - offset>> /\ Script[ip].file = f
            /\ Script[ip].mode = IF ip = offset + 1 THEN "early" ELSE "append"
            /\ Script[ip].job[1] \notin Queries \cup {"parallel"}
        BY <3>1 DEF SketchOf
      <3>3. ~(ip > offset + Lengths)
        BY <1>0, <2>5
      <3>4. CASE ~working
        <4>1. /\ lines' = <<>> /\ lines = <<>>
              /\ file'[f] = IF Script[ip].mode = "early" THEN <<>> ELSE file[f]
          BY <1>6, <3>2, <3>4, WorkedFiles DEF Processes
        <4>2. CASE ip = offset + 1
          <5>1. file'[f] = <<>>
            BY <3>2, <4>1, <4>2
          <5>2. Lengthwise(name, f)'
            BY <5>1, EmptySeq DEF Lengthwise
          <5>3. Expected(offset)' = 0
            BY <1>0, <2>1, <3>3, <4>1, <4>2, EmptySeq DEF Expected
          <5> QED BY <5>1, <5>2, <5>3, EmptySeq
        <4>3. CASE ip > offset + 1
          <5>1. file'[f] = file[f]
            BY <1>0, <3>2, <4>1, <4>3
          <5>2. Due(offset)
            BY <2>3, <4>3 DEF Due
          <5> QED BY <1>1, <2>1, <2>2, <4>1, <5>1, <5>2 DEF Expected, Lengthwise
        <4> QED BY <1>0, <3>1, <4>2, <4>3
      <3>5. CASE working
        <4>1. lines = <<>>
          BY <1>6, <3>2, <3>5, Worked
        <4>2. PICK x \in Line : /\ x.run = run /\ x.job = Script[ip].job
                                /\ lines' = Append(lines, x)
                                /\ file'[f] = IF Script[ip].mode = "late" THEN file[f]
                                              ELSE Append(file[f], x)
          BY <1>6, <3>2, <3>5, WorkedFiles
        <4>3. file'[f] = Append(file[f], x)
          BY <3>2, <4>2
        <4>4. Due(offset)
          BY <2>3, <3>5 DEF Due
        <4>5. Len(file[f]) = ip - offset - 1 /\ Lengthwise(name, f)
          BY <1>0, <1>1, <2>2, <3>3, <4>1, <4>4, EmptySeq DEF Expected
        <4>6. x.job = <<name, Len(file[f]) + 1>>
          <5>1. ip - offset = Len(file[f]) + 1
            BY <1>0, <4>5
          <5> QED BY <3>2, <4>2, <5>1
        <4>7. file[f] \in Seq(Line) /\ lines \in Seq(Line)
          BY <1>0 DEF Types
        <4>8. /\ \A n \in DOMAIN file'[f] : file'[f][n].run = run /\ file'[f][n].job = <<name, n>>
              /\ Len(file'[f]) = Len(file[f]) + 1
          <5>1. \A n \in DOMAIN file[f] : file[f][n].run = run /\ file[f][n].job = <<name, n>>
            BY <4>5 DEF Lengthwise
          <5> QED BY <4>2, <4>3, <4>6, <4>7, <5>1, NextLine
        <4>9. Len(lines') = 1
          BY <4>1, <4>2, <4>7, AppendLine, EmptySeq
        <4>10. Expected(offset)' = ip - offset - 1 + 1
          BY <2>1, <3>3, <4>9 DEF Expected
        <4> QED BY <1>0, <2>1, <4>5, <4>8, <4>10 DEF Lengthwise
      <3> QED BY <3>4, <3>5
    <2> QED BY <1>0, <2>4, <2>5
  <1>7. ASSUME NEW how, Ended(how)
        PROVE  Len(file'[f]) = Expected(offset)' /\ Lengthwise(name, f)'
    <2>1. /\ ip \in 1 .. Len(Script) /\ Runs(ip) /\ ip' = ip + 1 /\ run' = run /\ working
          /\ ~working' /\ lines' = <<>> /\ Command = Script[ip]
      BY <1>7, AtEnd
    <2>2. ip \in offset + 1 .. 2 * Lengths
      BY <1>0, <1>2, <2>1
    <2>3. Due(offset)
      BY <1>0, <2>1, <2>2 DEF Due
    <2>4. Alive(name)
      <3> SUFFICES ASSUME NEW k \in 1 .. Lengths
                   PROVE  Outcome(<<name, k>>) \notin {"died", "unopened"}
        BY DEF Alive, Died
      <3>1. Outcome(<<name, k>>)' \notin {"died", "unopened"}
        BY DEF Alive, Died
      <3>2. CASE <<name, k>> # Script[ip].job
        BY <1>7, <3>1, <3>2, OutcomeKept DEF Moves
      <3>3. CASE <<name, k>> = Script[ip].job
        <4>1. Script[ip].job \notin DOMAIN outcome
          BY <1>0, <2>1 DEF Outcomes
        <4> QED BY <3>3, <4>1 DEF Outcome
      <3> QED BY <3>2, <3>3
    <2>5. CASE ip > offset + Lengths
      <3>1. Script[ip].file # f
        <4>1. ip \in offset + Lengths + 1 .. Middle
          BY <1>0, <2>2, <2>5
        <4> QED BY <4>1 DEF SketchOf
      <3>2. file'[f] = file[f]
        BY <1>0, <1>7, <3>1, EndedFiles
      <3>3. Expected(offset)' = Expected(offset)
        BY <1>0, <2>1, <2>5 DEF Expected
      <3> QED BY <1>1, <2>1, <2>3, <2>4, <3>2, <3>3 DEF Lengthwise
    <2>6. CASE ip <= offset + Lengths
      <3>1. ip \in offset + 1 .. offset + Lengths
        BY <1>0, <2>2, <2>6
      <3>2. /\ Script[ip].job = <<name, ip - offset>> /\ Script[ip].file = f
            /\ Script[ip].mode \notin {"late", "open"}
            /\ Script[ip].job[1] \notin Queries \cup {"parallel"}
        BY <3>1 DEF SketchOf
      <3>3. how = "ok"
        <4>1. PICK k \in 1 .. Lengths : k = ip - offset
          BY <1>0, <3>1
        <4>2. Outcome(<<name, k>>)' = how /\ how \in {"ok", "died", "unopened"}
          BY <1>7, <3>2, <4>1, OutcomeSet DEF End
        <4> QED BY <4>2 DEF Alive, Died
      <3>4. file'[f] = file[f]
        BY <1>7, <3>2, EndedFiles
      <3>5. WorkDone
        BY <1>7, <3>3, AtEnd
      <3>6. lines # <<>> /\ Len(lines) <= 1 /\ lines \in Seq(Line)
        BY <2>1, <3>2, <3>5, DoneLines DEF Processes, Types
      <3>7. Len(lines) = 1
        <4>1. Len(lines) \in Nat /\ DOMAIN lines = 1 .. Len(lines) /\ 1 \in DOMAIN lines
          BY <3>6, SeqDomain
        <4> QED BY <3>6, <4>1
      <3>8. Len(file[f]) = ip - offset /\ Lengthwise(name, f)
        BY <1>0, <1>1, <2>3, <2>4, <2>6, <3>7 DEF Expected
      <3>9. Expected(offset)' = ip - offset
        BY <1>0, <2>1, <2>6, EmptySeq DEF Expected
      <3> QED BY <2>1, <3>4, <3>8, <3>9 DEF Lengthwise
    <2> QED BY <1>0, <2>2, <2>5, <2>6
  <1>8. CASE Shell \/ LeaveOut
    <2>1. ip \in 1 .. Len(Script) /\ ip' = ip + 1
      BY <1>8, Shelled
    <2>2. ip \in 1 .. Middle
      BY <1>0, <1>2, <2>1
    <2>3. Runs(ip) /\ Script[ip].job[1] \notin Comparison
      <3>1. Runs(ip)
        <4>1. ip \in 0 + 1 .. 0 + Lengths \/ ip \in Lengths + 1 .. Lengths + Lengths
          BY <1>0, <2>2
        <4> QED BY <4>1, SketchFacts DEF SketchOf
      <3>2. Script[ip].job = <<"agm", ip>> \/ Script[ip].job = <<"cube", ip - Lengths>>
        BY <1>0, <2>2, <3>1, RunFacts DEF RunFact
      <3> QED BY <3>1, <3>2 DEF Comparison
    <2>4. ~Shell /\ ~LeaveOut
      BY <2>3 DEF Shell, CatFile, RmFiles, NewCsv, CombineResults, LeaveOut, Executes, Command, Runs
    <2> QED BY <1>8, <2>4
  <1> QED BY <1>3, <1>4, <1>5, <1>6, <1>7, <1>8, StepKinds DEF Moves

\* The csv file of the sketch experiment is written by one command.
LEMMA SketchCsv ==
    ASSUME Types, Processes, Moves
    PROVE  \/ csv'["sketch"] = csv["sketch"]
           \/ CombineResults
  <1>1. CASE AtWork
    BY <1>1, Worked
  <1>2. ASSUME NEW how, Ended(how) PROVE csv'["sketch"] = csv["sketch"]
    <2>1. "sketch" \in Csv \ {"parallel"}
      BY DEF Csv
    <2> QED BY <1>2, <2>1, EndedFiles
  <1>3. CASE CatFile
    <2>1. "sketch" \in Csv /\ Script[ip].csv # "sketch"
      BY <1>3, CatEffect DEF Csv, CatFact
    <2> QED BY <1>3, <2>1, CatEffect
  <1>4. CASE RmFiles
    BY <1>4, RmEffect
  <1>5. CASE NewCsv
    <2>1. "sketch" \in Csv
      BY DEF Csv
    <2> QED BY <1>5, <2>1, NewEffect
  <1>6. CASE LeaveOut
    BY <1>6 DEF LeaveOut, diskVars
  <1> QED BY <1>1, <1>2, <1>3, <1>4, <1>5, <1>6 DEF Moves, Shell

\* No row of the sketch experiment is reported before the combination.
LEMMA NoRowsStep ==
    ASSUME Types, Processes, Stamps, NoRows, [Next]_vars
    PROVE  NoRows'
  <1>0. Lengths \in Nat /\ Lengths >= 1 /\ Middle = 2 * Lengths /\ ip \in Nat /\ "sketch" \in Csv
    BY Sizes DEF Middle, Types, Csv
  <1>1. CASE Begin
    BY <1>0, <1>1, OldReports DEF NoRows
  <1>2. CASE Interrupt
    BY <1>2 DEF Interrupt, NoRows
  <1>3. CASE Moves
    <2>1. ip \in 1 .. Len(Script) /\ ip' = (IF AtWork THEN ip ELSE ip + 1) /\ run' = run
      BY <1>3, Moved
    <2>2. ASSUME ip' \in 1 .. 2 * Lengths + 1 PROVE Reported("sketch")' = {}
      <3>1. ip \in 1 .. 2 * Lengths + 1
        BY <1>0, <2>1, <2>2
      <3>2. ~CombineResults
        <4>1. ASSUME CombineResults PROVE FALSE
          <5>1. ip = Middle + 1 /\ ip' = ip + 1
            BY <4>1, CombineEffect, Shelled DEF Shell
          <5> QED BY <1>0, <2>2, <5>1
        <4> QED BY <4>1
      <3>3. csv'["sketch"] = csv["sketch"]
        BY <1>3, <3>2, SketchCsv
      <3> QED BY <2>1, <3>1, <3>3 DEF NoRows, Reported
    <2> QED BY <2>2 DEF NoRows
  <1>4. CASE UNCHANGED vars
    BY <1>4 DEF NoRows, Reported, vars, argVars, procVars, diskVars
  <1> QED BY <1>1, <1>2, <1>3, <1>4, StepKinds

\* The rows that the combination makes of the two files.
LEMMA CombinedRows ==
    ASSUME Types, Processes, Sketches, CombineResults, AllAlive'
    PROVE  /\ Reported("sketch")' = 1 .. Lengths
           /\ \A n \in 1 .. Lengths : Own(csv["sketch"][n])' /\ csv'["sketch"][n].as = <<"cube", n>>
  <1> DEFINE agm == file["agm_results"]
             cube == file["cube_results"]
  <1>0. Lengths \in Nat /\ Lengths >= 1 /\ Middle = 2 * Lengths /\ ip \in Nat
    BY Sizes DEF Middle, Types
  <1>1. /\ ip = Middle + 1
        /\ csv'["sketch"] = [m \in DOMAIN agm |-> Row(m)]
        /\ DOMAIN csv'["sketch"] = DOMAIN agm
        /\ \A n \in DOMAIN csv'["sketch"] : csv'["sketch"][n].at = run
    BY CombineEffect
  <1>2. run' = run /\ outcome' = outcome
    BY Shelled DEF Shell
  <1>3. Alive("agm") /\ Alive("cube")
    BY <1>2 DEF AllAlive, Alive, Died, Outcome
  <1>4. Due(0) /\ Due(Lengths) /\ Expected(0) = Lengths /\ Expected(Lengths) = Lengths
    BY <1>0, <1>1 DEF Due, Expected
  <1>5. /\ Len(agm) = Lengths /\ Lengthwise("agm", "agm_results")
        /\ Len(cube) = Lengths /\ Lengthwise("cube", "cube_results")
    BY <1>3, <1>4, MeasuresDef DEF Sketches
  <1>6. agm \in Seq(Line) /\ cube \in Seq(Line)
    BY DEF Types, File
  <1>7. DOMAIN agm = 1 .. Lengths /\ DOMAIN cube = 1 .. Lengths
    BY <1>5, <1>6, SeqDomain
  <1>8. Reported("sketch")' = 1 .. Lengths
    BY <1>1, <1>2, <1>7 DEF Reported
  <1>9. ASSUME NEW n \in 1 .. Lengths
        PROVE  Own(csv["sketch"][n])' /\ csv'["sketch"][n].as = <<"cube", n>>
    <2>1. csv'["sketch"][n] = Row(n)
      BY <1>1, <1>7
    <2>2. CubeLine(n) = cube[n]
      BY <1>0, <1>5 DEF CubeLine
    <2>3. agm[n].job[2] = n /\ cube[n].run = run /\ cube[n].job = <<"cube", n>>
      BY <1>5, <1>7 DEF Lengthwise
    <2>4. Row(n).line = cube[n] /\ Row(n).as = <<"cube", n>>
      BY <2>2, <2>3 DEF Row
    <2> QED BY <1>2, <2>1, <2>3, <2>4 DEF Own
  <1> QED BY <1>8, <1>9

\* After the combination no process of the sketches ends any more.
LEMMA AliveKept ==
    ASSUME Types, Processes, Moves, ip > Middle + 1, AllAlive'
    PROVE  AllAlive
  <1>0. Lengths \in Nat /\ Middle = 2 * Lengths /\ ip \in Nat
    BY Sizes DEF Middle, Types
  <1>1. ASSUME NEW j, j[1] = "agm" \/ j[1] = "cube" PROVE Outcome(j)' = Outcome(j)
    <2>1. ~Runs(ip) \/ j # Script[ip].job
      BY <1>0, <1>1, RunFacts DEF RunFact
    <2> QED BY <2>1, OutcomeKept
  <1>2. \A k \in 1 .. Lengths : /\ Outcome(<<"agm", k>>)' = Outcome(<<"agm", k>>)
                                /\ Outcome(<<"cube", k>>)' = Outcome(<<"cube", k>>)
    BY <1>1
  <1> QED BY <1>2 DEF AllAlive, Died

\* There is a row for every length from the combination on.
LEMMA AllRowsStep ==
    ASSUME Types, Processes, Sketches, [Next]_vars
    PROVE  AllRows'
  <1>0. Lengths \in Nat /\ Lengths >= 1 /\ Middle = 2 * Lengths /\ ip \in Nat
    BY Sizes DEF Middle, Types
  <1>1. CASE Begin \/ Interrupt
    BY <1>0, <1>1 DEF Begin, Interrupt, AllRows
  <1>2. CASE Moves
    <2>1. /\ ip \in 1 .. Len(Script) /\ ip' = (IF AtWork THEN ip ELSE ip + 1) /\ run' = run
      BY <1>2, Moved
    <2>2. SUFFICES ASSUME ip' > 2 * Lengths + 1, AllAlive' PROVE Reported("sketch")' = 1 .. Lengths
      BY DEF AllRows
    <2>3. CASE CombineResults
      BY <2>2, <2>3, CombinedRows
    <2>4. CASE ~CombineResults
      <3>1. csv'["sketch"] = csv["sketch"]
        BY <1>2, <2>4, SketchCsv
      <3>2. ip # Middle + 1
        <4>1. ASSUME ip = Middle + 1 PROVE FALSE
          <5>1. Script[ip].op = "combine"
            BY <4>1, SpecialCommands
          <5>2. ~Runs(ip) /\ ~RmFiles /\ ~CatFile /\ ~NewCsv /\ ~LeaveOut
            BY <5>1 DEF Runs, RmFiles, CatFile, NewCsv, LeaveOut, Executes, Command
          <5>3. ~AtWork /\ ~(\E how : Ended(how))
            BY <5>2, Worked, AtEnd
          <5> QED BY <1>2, <2>4, <5>2, <5>3 DEF Moves, Shell
        <4> QED BY <4>1
      <3>3. ip > Middle + 1
        BY <1>0, <2>1, <2>2, <3>2
      <3>4. AllAlive
        BY <1>2, <2>2, <3>3, AliveKept
      <3> QED BY <1>0, <2>1, <3>1, <3>3, <3>4 DEF Sketches, AllRows, Reported
    <2> QED BY <2>3, <2>4
  <1>3. CASE UNCHANGED vars
    <2>1. UNCHANGED <<run, ip, csv, outcome>>
      BY <1>3 DEF vars, argVars, procVars, diskVars
    <2> QED BY <2>1 DEF Sketches, AllRows, AllAlive, Died, Outcome, Reported
  <1> QED BY <1>1, <1>2, <1>3, StepKinds

\* Every step preserves Sketches.
LEMMA SketchesStep ==
    ASSUME Types, Processes, Stamps, Outcomes, Sketches, [Next]_vars
    PROVE  Sketches'
  <1>1. /\ Measures("agm", 0, "agm_results") /\ Measures("cube", Lengths, "cube_results")
        /\ NoRows
    BY DEF Sketches
  <1>2. Measures("agm", 0, "agm_results")'
    BY <1>1, SketchFacts, MeasuresStep
  <1>3. Measures("cube", Lengths, "cube_results")'
    BY <1>1, SketchFacts, MeasuresStep
  <1>4. NoRows'
    BY <1>1, NoRowsStep
  <1>5. AllRows'
    BY AllRowsStep
  <1> QED BY <1>2, <1>3, <1>4, <1>5 DEF Sketches

\* Every step preserves Paired.
LEMMA PairedStep ==
    ASSUME Types, Processes, Stamps, Sketches, Paired, [Next]_vars
    PROVE  Paired'
  <1>0. Lengths \in Nat /\ Lengths >= 1 /\ Middle = 2 * Lengths /\ ip \in Nat /\ "sketch" \in Csv
    BY Sizes DEF Middle, Types, Csv
  <1>1. CASE Begin
    BY <1>0, <1>1, OldReports DEF Paired
  <1>2. CASE UNCHANGED <<run, csv, outcome>>
    BY <1>2 DEF Paired, AllAlive, Died, Outcome, Own, Reported
  <1>3. CASE Interrupt \/ UNCHANGED vars
    BY <1>2, <1>3 DEF Interrupt, vars, argVars, procVars, diskVars
  <1>4. CASE Moves /\ ~CombineResults
    <2>1. ip \in 1 .. Len(Script) /\ run' = run
      BY <1>4, Moved
    <2>2. csv'["sketch"] = csv["sketch"]
      BY <1>4, SketchCsv
    <2>3. ASSUME AllAlive', NEW n \in Reported("sketch")'
          PROVE  Own(csv["sketch"][n])' /\ csv'["sketch"][n].as = <<"cube", n>>
      <3>1. n \in Reported("sketch")
        BY <2>1, <2>2, <2>3 DEF Reported
      <3>2. ip > Middle + 1
        BY <1>0, <2>1, <3>1 DEF Sketches, NoRows
      <3>3. AllAlive
        BY <1>4, <2>3, <3>2, AliveKept
      <3> QED BY <2>1, <2>2, <3>1, <3>3 DEF Paired, Own
    <2> QED BY <2>3 DEF Paired
  <1>5. CASE CombineResults
    BY <1>5, CombinedRows DEF Paired
  <1> QED BY <1>1, <1>3, <1>4, <1>5, StepKinds

---------------------------------------------------------------------------
(* The loop of parallel_expr.                                              *)

\* A common factor may be cancelled.
LEMMA Cancel ==
    ASSUME NEW a \in Int, NEW b \in Int, NEW c \in Nat, c > 0, c * a < c * b
    PROVE  a < b
  <1>1. ASSUME b <= a PROVE FALSE
    <2>1. a - b \in Nat
      BY <1>1
    <2>2. c * (a - b) >= 0
      BY <2>1
    <2>3. c * (a - b) = c * a - c * b
      OBVIOUS
    <2> QED BY <2>2, <2>3
  <1> QED BY <1>1

\* Division with remainder.
LEMMA Division ==
    ASSUME NEW a \in Nat, NEW d \in Nat, d > 0
    PROVE  /\ a \div d \in Nat /\ a % d \in Nat /\ a % d < d
           /\ a = d * (a \div d) + (a % d)
  <1>1. a - (a % d) = d * (a \div d)
    OBVIOUS
  <1>2. a \div d \in Nat /\ a % d \in Nat /\ a % d < d
    OBVIOUS
  <1>3. d * (a \div d) \in Int
    BY <1>2
  <1> QED BY <1>1, <1>2, <1>3

\* The remainder below a multiple.
LEMMA Remainder ==
    ASSUME NEW d \in Nat, d > 0, NEW g \in Nat, NEW a \in Nat, g % d = 0, g - d <= a, a < g
    PROVE  a % d = a - (g - d)
  <1>1. PICK p \in Nat : g = d * p
    <2>1. g = d * (g \div d) + 0 /\ g \div d \in Nat
      BY Division
    <2> QED BY <2>1
  <1>2. PICK q \in Nat : a = d * q + (a % d)
    BY Division
  <1>3. a % d \in Nat /\ a % d < d
    BY Division
  <1>4. q < p
    <2>1. d * q < d * p
      <3>1. d * q \in Int /\ d * p \in Int
        OBVIOUS
      <3> QED BY <1>1, <1>2, <1>3, <3>1
    <2> QED BY <2>1, Cancel
  <1>5. p < q + 2
    <2>1. d * (q + 2) = d * q + d + d
      OBVIOUS
    <2>2. d * p < d * (q + 2)
      BY <1>1, <1>2, <1>3, <2>1
    <2> QED BY <2>2, Cancel
  <1>6. p = q + 1
    BY <1>4, <1>5
  <1>7. g = d * q + d
    BY <1>1, <1>6
  <1> QED BY <1>2, <1>3, <1>7

\* Two multiples less than a step apart are the same.
LEMMA SameMultiple ==
    ASSUME NEW d \in Nat, d > 0, NEW g \in Nat, NEW x \in Nat, g % d = 0, x % d = 0,
           g <= x, x < g + d
    PROVE  x = g
  <1>1. PICK p \in Nat : g = d * p
    <2>1. g = d * (g \div d) + 0 /\ g \div d \in Nat
      BY Division
    <2> QED BY <2>1
  <1>2. PICK q \in Nat : x = d * q
    <2>1. x = d * (x \div d) + 0 /\ x \div d \in Nat
      BY Division
    <2> QED BY <2>1
  <1>3. q < p + 1
    <2>1. d * (p + 1) = d * p + d
      OBVIOUS
    <2> QED BY <1>1, <1>2, <2>1, Cancel
  <1>4. p < q + 1
    <2>1. d * (q + 1) = d * q + d
      OBVIOUS
    <2> QED BY <1>1, <1>2, <2>1, Cancel
  <1> QED BY <1>1, <1>2, <1>3, <1>4

\* Adding d to a multiple of d gives a multiple of d.
LEMMA NextMultiple ==
    ASSUME NEW d \in Nat, d > 0, NEW g \in Nat, g % d = 0
    PROVE  (g + d) % d = 0 /\ d % d = 0
  <1>1. PICK p \in Nat : g = d * p
    <2>1. g = d * (g \div d) + 0 /\ g \div d \in Nat
      BY Division
    <2> QED BY <2>1
  <1> DEFINE h == g + d
  <1>0. h \in Nat
    OBVIOUS
  <1> HIDE DEF h
  <1>b. /\ h \div d \in Nat /\ h % d \in Nat /\ h % d < d
        /\ h = d * (h \div d) + (h % d)
    BY <1>0, Division
  <1>2. PICK q \in Nat : h = d * q + (h % d)
    BY <1>b
  <1>3. (g + d) % d \in Nat /\ (g + d) % d < d /\ g + d = d * q + ((g + d) % d)
    BY <1>2, <1>b DEF h
  <1>4. d * (p + 1) = g + d /\ d * (q + 1) = d * q + d
    <2>1. d * (p + 1) = d * p + d
      OBVIOUS
    <2>2. d * (q + 1) = d * q + d
      OBVIOUS
    <2> QED BY <1>1, <2>1, <2>2
  <1>5. p + 1 < q + 1
    <2>1. d * (p + 1) < d * (q + 1)
      BY <1>2, <1>3, <1>4
    <2> QED BY <2>1, Cancel
  <1>6. q < p + 2
    <2>1. d * (p + 2) = g + d + d
      BY <1>1
    <2>2. d * q < d * (p + 2)
      BY <1>2, <1>3, <2>1
    <2> QED BY <2>2, Cancel
  <1>7. q = p + 1
    BY <1>5, <1>6
  <1> QED BY <1>2, <1>3, <1>4, <1>7

\* A pass of the loop.
LEMMA Grown ==
    ASSUME NEW s \in Seq(Nat), NEW g \in Nat
    PROVE  /\ Append(s, g) # <<>> /\ Append(s, g) \in Seq(Nat)
           /\ s # <<>> => Append(s, g)[1] = s[1]
           /\ s = <<>> => Append(s, g)[1] = g
           /\ \A n \in DOMAIN Append(s, g) :
                 \/ n \in DOMAIN s /\ Append(s, g)[n] = s[n]
                 \/ n = Len(s) + 1 /\ Append(s, g)[n] = g
           /\ \A n \in DOMAIN s : n \in DOMAIN Append(s, g) /\ Append(s, g)[n] = s[n] /\ n <= Len(s)
           /\ Len(s) + 1 \in DOMAIN Append(s, g) /\ Append(s, g)[Len(s) + 1] = g
           /\ Len(s) \in Nat
  <1>1. /\ Append(s, g) \in Seq(Nat) /\ Len(Append(s, g)) = Len(s) + 1 /\ Len(s) \in Nat
        /\ \A n \in 1 .. Len(s) : Append(s, g)[n] = s[n]
        /\ Append(s, g)[Len(s) + 1] = g
        /\ DOMAIN Append(s, g) = (1 .. Len(s)) \cup {Len(s) + 1} /\ DOMAIN s = 1 .. Len(s)
    BY AppendLine
  <1>2. Append(s, g) # <<>>
    BY <1>1, EmptySeq
  <1>3. s # <<>> => 1 \in DOMAIN s
    BY SeqDomain
  <1>4. s = <<>> => Len(s) = 0
    BY EmptySeq
  <1> QED BY <1>1, <1>2, <1>3, <1>4

\* Appending something larger keeps a sequence increasing.
LEMMA IncreasingAppend ==
    ASSUME NEW s \in Seq(Nat), NEW g \in Nat, Increasing(s), \A n \in DOMAIN s : s[n] < g
    PROVE  Increasing(Append(s, g))
  <1> DEFINE t == Append(s, g)
  <1>1. /\ \A n \in DOMAIN t : \/ n \in DOMAIN s /\ t[n] = s[n]
                               \/ n = Len(s) + 1 /\ t[n] = g
        /\ \A n \in DOMAIN s : n <= Len(s)
        /\ Len(s) \in Nat /\ DOMAIN s = 1 .. Len(s)
    BY Grown, SeqDomain
  <1> HIDE DEF t
  <1>2. ASSUME NEW n \in DOMAIN t, NEW k \in DOMAIN t, n < k PROVE t[n] < t[k]
    <2>1. CASE k \in DOMAIN s /\ t[k] = s[k]
      <3>1. n \in DOMAIN s /\ t[n] = s[n]
        BY <1>1, <1>2, <2>1
      <3> QED BY <1>2, <2>1, <3>1 DEF Increasing
    <2>2. CASE k = Len(s) + 1 /\ t[k] = g
      <3>1. n \in DOMAIN s /\ t[n] = s[n]
        BY <1>1, <1>2, <2>2
      <3> QED BY <2>2, <3>1
    <2> QED BY <1>1, <2>1, <2>2
  <1>3. Increasing(t)
    BY <1>2 DEF Increasing
  <1> QED BY <1>3 DEF t

\* The first pass of the loop of parallel_expr.
LEMMA FirstPass ==
    ASSUME NEW max \in Nat, max >= 1
    PROVE  Climbing(Append(<<>>, 1), inc, max)
  <1>1. inc \in Nat /\ inc > 2 /\ inc > 0
    BY Threads
  <1> DEFINE t == Append(<<>>, 1)
  <1>2. /\ t # <<>> /\ t[1] = 1 /\ DOMAIN t = {1}
    OBVIOUS
  <1> HIDE DEF t
  <1>3. \A n \in DOMAIN t : t[n] = 1
    BY <1>2
  <1>4. Increasing(t)
    BY <1>2 DEF Increasing
  <1>5. Multiples(t, inc, max)
    <2>1. ASSUME NEW g \in 1 .. max, g % inc = 0, g < inc PROVE FALSE
      <3>1. 0 % inc = 0 /\ g \in Nat /\ g >= 1
        BY <1>1, <2>1
      <3>2. g = 0
        BY <1>1, <2>1, <3>1, SameMultiple
      <3> QED BY <3>1, <3>2
    <2> QED BY <2>1 DEF Multiples
  <1>6. inc % inc = 0
    <2>1. 0 % inc = 0
      BY <1>1
    <2> QED BY <1>1, <2>1, NextMultiple
  <1>7. Climbing(t, inc, max)
    BY <1>1, <1>2, <1>3, <1>4, <1>5, <1>6 DEF Climbing
  <1> QED BY <1>7 DEF t

\* Any pass of the loop.
LEMMA Pass ==
    ASSUME NEW max \in Nat, max >= 1, NEW s \in Seq(Nat), NEW g \in Nat,
           Climbing(s, g, max), g <= max + (max % inc)
    PROVE  LET h == IF g > max THEN max ELSE g IN
           Climbing(Append(s, h), (IF h = 1 THEN 0 ELSE h) + inc, max)
  <1>1. inc \in Nat /\ inc > 2 /\ inc > 0
    BY Threads
  <1>2. max % inc \in Nat /\ max % inc < inc
    BY <1>1, Division
  <1>3. CASE s = <<>>
    <2>1. g = 1
      BY <1>3 DEF Climbing
    <2> QED BY <1>1, <1>3, <2>1, FirstPass
  <1>4. CASE s # <<>>
    <2>1. /\ \A n \in DOMAIN s : s[n] \in 1 .. max
          /\ Increasing(s) /\ Multiples(s, g, max) /\ s[1] = 1
      BY <1>4 DEF Climbing
    <2>2. /\ g % inc = 0 /\ g >= inc /\ g - inc <= max
          /\ \A n \in DOMAIN s : s[n] < g /\ (s[n] = 1 \/ s[n] % inc = 0)
      BY <1>1, <1>2, <1>4 DEF Climbing
    <2>3. CASE g <= max
      <3> DEFINE t == Append(s, g)
      <3>1. Increasing(t)
        BY <2>1, <2>2, IncreasingAppend
      <3>2. /\ t # <<>> /\ t[1] = s[1]
            /\ \A n \in DOMAIN t : \/ n \in DOMAIN s /\ t[n] = s[n]
                                   \/ n = Len(s) + 1 /\ t[n] = g
            /\ \A n \in DOMAIN s : n \in DOMAIN t /\ t[n] = s[n]
            /\ Len(s) + 1 \in DOMAIN t /\ t[Len(s) + 1] = g
        BY <1>4, Grown
      <3> HIDE DEF t
      <3>3. \A n \in DOMAIN t : t[n] \in 1 .. max
        BY <1>1, <2>1, <2>2, <2>3, <3>2
      <3>4. Multiples(t, g + inc, max)
        <4>1. ASSUME NEW x \in 1 .. max, x % inc = 0, x < g + inc
              PROVE  \E n \in DOMAIN t : t[n] = x
          <5>1. CASE x < g
            BY <2>1, <3>2, <4>1, <5>1 DEF Multiples
          <5>2. CASE g <= x
            <6>1. x = g
              <7>1. x \in Nat /\ g <= x /\ x < g + inc
                BY <4>1, <5>2
              <7> QED BY <1>1, <2>2, <4>1, <7>1, SameMultiple, Zenon
            <6> QED BY <3>2, <6>1
          <5> QED BY <5>1, <5>2
        <4> QED BY <4>1 DEF Multiples
      <3>5. (g + inc) % inc = 0
        BY <1>1, <2>2, NextMultiple, Zenon
      <3>6. \A n \in DOMAIN t : t[n] < g + inc /\ (t[n] = 1 \/ t[n] % inc = 0)
        <4>1. ASSUME NEW n \in DOMAIN t PROVE t[n] < g + inc /\ (t[n] = 1 \/ t[n] % inc = 0)
          <5>1. CASE n \in DOMAIN s /\ t[n] = s[n]
            <6>1. s[n] \in 1 .. max /\ s[n] < g /\ (s[n] = 1 \/ s[n] % inc = 0)
              BY <2>1, <2>2, <5>1
            <6> QED BY <1>1, <5>1, <6>1
          <5>2. CASE t[n] = g
            BY <1>1, <2>2, <5>2
          <5> QED BY <3>2, <5>1, <5>2
        <4> QED BY <4>1
      <3>7. Climbing(t, g + inc, max)
        <4>1. g + inc >= inc /\ (g + inc) - inc <= max
          BY <1>1, <2>3
        <4>2. \/ /\ (g + inc) % inc = 0 /\ g + inc >= inc /\ (g + inc) - inc <= max
                 /\ \A n \in DOMAIN t : t[n] < g + inc /\ (t[n] = 1 \/ t[n] % inc = 0)
              \/ /\ g + inc = max + inc /\ 2 * (max % inc) >= inc
                 /\ \E n \in DOMAIN t : t[n] = max
          BY <3>5, <3>6, <4>1, Zenon
        <4>3. t[1] = 1
          BY <2>1, <3>2
        <4> DEFINE h == g + inc
        <4>4. /\ \A n \in DOMAIN t : t[n] \in 1 .. max
              /\ Increasing(t) /\ Multiples(t, h, max) /\ t # <<>> /\ t[1] = 1
          BY <3>1, <3>2, <3>3, <3>4, <4>3
        <4>6. \/ /\ h % inc = 0 /\ h >= inc /\ h - inc <= max
                 /\ \A n \in DOMAIN t : t[n] < h /\ (t[n] = 1 \/ t[n] % inc = 0)
              \/ /\ h = max + inc /\ 2 * (max % inc) >= inc
                 /\ \E n \in DOMAIN t : t[n] = max
          BY <4>2, Zenon
        <4> HIDE DEF h
        <4>5. Climbing(t, h, max)
          BY <4>4, <4>6 DEF Climbing
        <4> QED BY <4>5 DEF h
      <3>8. ~(g > max) /\ g # 1
        BY <1>1, <2>2, <2>3
      <3> QED BY <3>7, <3>8 DEF t
    <2>4. CASE g > max
      <3>1. max % inc = max - (g - inc)
        <4>1. max < g
          BY <2>4
        <4> QED BY <1>1, <2>2, <4>1, Remainder, Zenon
      <3>2. 2 * (max % inc) >= inc
        BY <1>1, <1>2, <3>1
      <3>3. max # 1
        <4>1. ASSUME max = 1 PROVE FALSE
          <5>1. 0 % inc = 0
            BY <1>1
          <5>2. max % inc = 1
            BY <1>1, <2>2, <2>4, <3>1, <4>1
          <5> QED BY <1>1, <2>2, <4>1, <5>2
        <4> QED BY <4>1
      <3> DEFINE t == Append(s, max)
      <3>4. /\ t # <<>> /\ t[1] = s[1]
            /\ \A n \in DOMAIN t : \/ n \in DOMAIN s /\ t[n] = s[n]
                                   \/ n = Len(s) + 1 /\ t[n] = max
            /\ \A n \in DOMAIN s : n \in DOMAIN t /\ t[n] = s[n]
            /\ Len(s) + 1 \in DOMAIN t /\ t[Len(s) + 1] = max
        BY <1>4, Grown
      <3>5. \A n \in DOMAIN s : s[n] < max
        <4>1. ASSUME NEW n \in DOMAIN s PROVE s[n] < max
          <5>1. s[n] \in 1 .. max /\ (s[n] = 1 \/ s[n] % inc = 0)
            BY <2>1, <2>2
          <5>2. s[n] # max
            BY <1>1, <3>2, <3>3, <5>1
          <5> QED BY <5>1, <5>2
        <4> QED BY <4>1
      <3>6. Increasing(t)
        BY <2>1, <3>5, IncreasingAppend
      <3> HIDE DEF t
      <3>7. \A n \in DOMAIN t : t[n] \in 1 .. max
        BY <2>1, <3>4
      <3>8. Multiples(t, max + inc, max)
        <4>1. ASSUME NEW x \in 1 .. max, x % inc = 0
              PROVE  \E n \in DOMAIN t : t[n] = x
          <5>1. x < g
            BY <2>4
          <5>2. \E n \in DOMAIN s : s[n] = x
            BY <2>1, <4>1, <5>1 DEF Multiples
          <5> QED BY <3>4, <5>2
        <4> QED BY <4>1 DEF Multiples
      <3>9. Climbing(t, max + inc, max)
        BY <2>1, <3>2, <3>4, <3>6, <3>7, <3>8 DEF Climbing
      <3> QED BY <2>4, <3>3, <3>9 DEF t
    <2> QED BY <2>3, <2>4
  <1> QED BY <1>3, <1>4

\* When the loop's condition fails, all that is due has been measured.
LEMMA LastPass ==
    ASSUME NEW max \in Nat, max >= 1, NEW s \in Seq(Nat), NEW g \in Nat,
           Climbing(s, g, max), ~(g <= max + (max % inc))
    PROVE  Climbed(s, max)
  <1>1. inc \in Nat /\ inc > 2 /\ inc > 0
    BY Threads
  <1>2. max % inc \in Nat /\ max % inc < inc
    BY <1>1, Division
  <1>3. s # <<>>
    BY <1>2 DEF Climbing
  <1>4. /\ \A n \in DOMAIN s : s[n] \in 1 .. max
        /\ Increasing(s) /\ Multiples(s, g, max) /\ s[1] = 1 /\ 1 \in DOMAIN s
    BY <1>3, SeqDomain DEF Climbing
  <1>5. g > max
    BY <1>2
  <1>6. Multiples(s, max + 1, max)
    BY <1>4, <1>5 DEF Multiples
  <1>7. (\E n \in DOMAIN s : s[n] = max)
          <=> max = 1 \/ max % inc = 0 \/ 2 * (max % inc) >= inc
    <2>1. CASE 2 * (max % inc) >= inc /\ \E n \in DOMAIN s : s[n] = max
      BY <2>1
    <2>2. CASE /\ g % inc = 0 /\ g >= inc /\ g - inc <= max
               /\ \A n \in DOMAIN s : s[n] < g /\ (s[n] = 1 \/ s[n] % inc = 0)
      <3>1. max % inc = max - (g - inc)
        <4>1. max < g
          BY <1>5
        <4> QED BY <1>1, <2>2, <4>1, Remainder, Zenon
      <3>2. ~(2 * (max % inc) >= inc)
        BY <1>1, <1>2, <3>1
      <3>3. max % inc = 0 => \E n \in DOMAIN s : s[n] = max
        <4>1. max \in 1 .. max /\ max < g
          BY <1>5
        <4> QED BY <1>4, <4>1 DEF Multiples
      <3> QED BY <1>4, <2>2, <3>2, <3>3
    <2> QED BY <1>3, <2>1, <2>2 DEF Climbing
  <1> QED BY <1>4, <1>6, <1>7 DEF Climbed

\* What lines say is a sequence as long as the lines.
LEMMA SaysSeq ==
    ASSUME NEW ls \in Seq(Line)
    PROVE  /\ SaysOf(ls) \in Seq(Says) /\ Len(SaysOf(ls)) = Len(ls) /\ DOMAIN SaysOf(ls) = DOMAIN ls
           /\ \A n \in DOMAIN ls : SaysOf(ls)[n] = ls[n].says
           /\ SaysOf(ls) = <<>> <=> ls = <<>>
  <1>1. Len(ls) \in Nat /\ DOMAIN ls = 1 .. Len(ls) /\ \A n \in DOMAIN ls : ls[n] \in Line
    BY SeqDomain
  <1>2. \A n \in DOMAIN ls : ls[n].says \in Says
    BY <1>1 DEF Line
  <1> DEFINE s == SaysOf(ls)
  <1>3. s = [n \in 1 .. Len(ls) |-> ls[n].says]
    BY <1>1 DEF SaysOf
  <1> HIDE DEF s
  <1>4. s \in [1 .. Len(ls) -> Says] /\ \A n \in DOMAIN ls : s[n] = ls[n].says
    BY <1>1, <1>2, <1>3
  <1>5. s \in Seq(Says) /\ Len(s) = Len(ls) /\ DOMAIN s = 1 .. Len(ls)
    BY <1>1, <1>4, SeqFunction
  <1>6. s = <<>> <=> ls = <<>>
    BY <1>1, <1>5, SeqDomain
  <1> QED BY <1>1, <1>4, <1>5, <1>6 DEF s

\* Sequences of the same length with the same elements are equal.
LEMMA SameSeq ==
    ASSUME NEW S, NEW s \in Seq(S), NEW t \in Seq(S), Len(s) = Len(t),
           \A n \in 1 .. Len(s) : s[n] = t[n]
    PROVE  s = t
  OBVIOUS

\* What lines say, with one line more.
LEMMA SaysAppend ==
    ASSUME NEW ls \in Seq(Line), NEW x \in Line
    PROVE  SaysOf(Append(ls, x)) = Append(SaysOf(ls), x.says)
  <1>1. /\ Append(ls, x) \in Seq(Line) /\ Len(Append(ls, x)) = Len(ls) + 1 /\ Len(ls) \in Nat
        /\ \A n \in 1 .. Len(ls) : Append(ls, x)[n] = ls[n]
        /\ Append(ls, x)[Len(ls) + 1] = x
        /\ DOMAIN Append(ls, x) = (1 .. Len(ls)) \cup {Len(ls) + 1} /\ DOMAIN ls = 1 .. Len(ls)
    BY AppendLine
  <1>2. SaysOf(ls) \in Seq(Says) /\ Len(SaysOf(ls)) = Len(ls)
        /\ \A n \in DOMAIN ls : SaysOf(ls)[n] = ls[n].says
    BY SaysSeq
  <1>3. x.says \in Says
    BY DEF Line
  <1> DEFINE s == SaysOf(ls)
             t == Append(s, x.says)
             u == SaysOf(Append(ls, x))
  <1>4. /\ t \in Seq(Says) /\ Len(t) = Len(s) + 1
        /\ \A n \in 1 .. Len(s) : t[n] = s[n]
        /\ t[Len(s) + 1] = x.says
    BY <1>2, <1>3, AppendLine
  <1>5. /\ u \in Seq(Says) /\ Len(u) = Len(ls) + 1
        /\ \A n \in DOMAIN Append(ls, x) : u[n] = Append(ls, x)[n].says
    BY <1>1, SaysSeq
  <1> HIDE DEF s, t, u
  <1>6. \A n \in 1 .. Len(u) : n \in 1 .. Len(ls) \/ n = Len(ls) + 1
    BY <1>1, <1>5
  <1>7. \A n \in 1 .. Len(u) : u[n] = t[n]
    BY <1>1, <1>2, <1>4, <1>5, <1>6 DEF s
  <1>8. Len(u) = Len(t)
    BY <1>2, <1>4, <1>5 DEF s
  <1>9. u = t
    BY <1>4, <1>5, <1>7, <1>8, SameSeq
  <1> QED BY <1>9 DEF s, t, u

\* Every step preserves Loop.
LEMMA LoopStep ==
    ASSUME Types, Processes, Loop, [Next]_vars
    PROVE  Loop'
  <1>0. /\ max_thr \in Nat /\ max_thr >= 1 /\ groups \in Nat /\ inc \in Nat
        /\ lines \in Seq(Line)
    BY Threads DEF Types
  <1>1. CASE ~working'
    BY <1>1 DEF Loop
  <1>2. CASE Begin
    <2>1. ~Runs(ip)
      BY <1>2, ScriptSeq DEF Begin, Runs
    <2> QED BY <1>1, <1>2, <2>1, NotRunning DEF Begin, procVars
  <1>3. CASE Interrupt
    <2>1. ~working'
      BY <1>3, Zenon DEF Interrupt
    <2> QED BY <1>1, <2>1
  <1>4. CASE Moves /\ ~AtWork
    BY <1>1, <1>4, Moved
  <1>5. CASE AtWork
    <2>1. /\ Runs(ip) /\ RunFact(ip) /\ Command = Script[ip] /\ ip' = ip /\ max_thr' = max_thr
          /\ run' = run
      BY <1>5, Worked
    <2>2. Command' = Script[ip]
      BY <2>1 DEF Command
    <2> SUFFICES ASSUME Script[ip].job[1] = "parallel"
                 PROVE  Climbing(SaysOf(lines'), groups', max_thr)
      BY <2>1, <2>2 DEF Loop
    <2>3. CASE ~working
      <3>1. lines' = <<>> /\ groups' = 1
        BY <1>5, <2>3, Worked DEF Processes
      <3>2. SaysOf(lines') = <<>>
        <4>1. <<>> \in Seq(Line)
          BY EmptySeq
        <4> QED BY <3>1, <4>1, SaysSeq
      <3>3. \A s : s = <<>> => Climbing(s, 1, max_thr)
        <4>1. \A g \in 1 .. max_thr : ~(g < 1)
          BY <1>0
        <4> QED BY <4>1, EmptySeq DEF Climbing, Increasing, Multiples
      <3> QED BY <3>1, <3>2, <3>3
    <2>4. CASE working
      <3>1. Scale
        <4>1. Script[ip].mode # "open"
          BY <2>1 DEF RunFact, Comparison
        <4> QED BY <1>5, <2>4, <4>1, Worked DEF Queries
      <3> DEFINE h == IF groups > max_thr THEN max_thr ELSE groups
                 x == [run |-> run, job |-> Script[ip].job, says |-> h]
      <3>2. Groups[1] = h /\ Groups[2] = (IF h = 1 THEN 0 ELSE h) + inc
        BY DEF Groups
      <3>3. lines' = Append(lines, x) /\ groups' = (IF h = 1 THEN 0 ELSE h) + inc
        BY <2>1, <3>1, <3>2 DEF Scale, Measure, This
      <3>4. groups <= max_thr + (max_thr % inc)
        BY <3>1 DEF Scale, MoreGroups
      <3>5. h \in Nat
        BY <1>0
      <3>6. x \in Line /\ x.says = h
        <4>1. h \in Says
          BY <3>5 DEF Says
        <4> QED BY <2>1, <4>1, NewLine
      <3>7. SaysOf(lines') = Append(SaysOf(lines), h)
        <4> HIDE DEF x
        <4> QED BY <1>0, <3>3, <3>6, SaysAppend
      <3>8. Climbing(SaysOf(lines), groups, max_thr)
        BY <2>1, <2>4 DEF Loop
      <3>9. SaysOf(lines) \in Seq(Nat)
        <4> DEFINE s == SaysOf(lines)
        <4>1. s \in Seq(Says) /\ Len(s) \in Nat /\ DOMAIN s = 1 .. Len(s)
          BY <1>0, SaysSeq, SeqDomain
        <4>2. \A n \in DOMAIN s : s[n] \in Nat
          BY <1>0, <3>8 DEF Climbing
        <4> HIDE DEF s
        <4> QED BY <4>1, <4>2 DEF s
      <3>10. Climbing(Append(SaysOf(lines), h), (IF h = 1 THEN 0 ELSE h) + inc, max_thr)
        BY <1>0, <3>4, <3>8, <3>9, Pass
      <3> QED BY <3>3, <3>7, <3>10
    <2> QED BY <2>3, <2>4 DEF Types
  <1>6. CASE UNCHANGED vars
    BY <1>6 DEF Loop, Command, vars, argVars, procVars, diskVars
  <1> QED BY <1>2, <1>3, <1>4, <1>5, <1>6, StepKinds

\* Every step preserves Loops.
LEMMA LoopsStep ==
    ASSUME Types, Processes, Loops, [Next]_vars
    PROVE  Loops'
  <1>0. /\ max_thr \in Nat /\ max_thr >= 1 /\ groups \in Nat /\ inc \in Nat
        /\ lines \in Seq(Line) /\ "parallel" \in Csv
    BY Threads DEF Types, Csv
  <1>1. Loop'
    BY LoopStep DEF Loops
  <1>2. CASE csv'["parallel"] = csv["parallel"] /\ max_thr' = max_thr
    BY <1>1, <1>2 DEF Loops, RowsOf
  <1>3. CASE Begin \/ Interrupt \/ UNCHANGED vars
    BY <1>2, <1>3 DEF Begin, Interrupt, vars, argVars, procVars, diskVars
  <1>4. CASE Moves
    <2>1. max_thr' = max_thr
      BY <1>4, Moved
    <2>2. CASE AtWork
      BY <1>2, <2>1, <2>2, Worked
    <2>3. CASE CatFile
      <3>1. Script[ip].csv # "parallel"
        BY <2>3, CatEffect DEF CatFact
      <3> QED BY <1>0, <1>2, <2>1, <2>3, <3>1, CatEffect
    <2>4. CASE RmFiles
      BY <1>2, <2>1, <2>4, RmEffect
    <2>5. CASE NewCsv
      BY <1>0, <1>2, <2>1, <2>5, NewEffect
    <2>6. CASE CombineResults
      BY <1>0, <1>2, <2>1, <2>6, CombineEffect
    <2>7. CASE LeaveOut
      BY <1>2, <2>1, <2>7 DEF LeaveOut, diskVars
    <2>8. ASSUME NEW how, Ended(how) PROVE Loops'
      <3>1. CASE how = "ok" /\ Script[ip].job[1] = "parallel"
        <4>1. PICK j : j = Script[ip].job
          OBVIOUS
        <4>2. csv'["parallel"] = Entries(lines, j)
          BY <2>8, <3>1, <4>1, EndedFiles
        <4>3. working /\ WorkDone /\ RunFact(ip) /\ Command = Script[ip]
          BY <2>8, <3>1, AtEnd
        <4>4. j \in JobName
          BY <4>1, <4>3 DEF RunFact
        <4>5. /\ DOMAIN Entries(lines, j) = DOMAIN lines
              /\ \A n \in DOMAIN lines : /\ Entries(lines, j)[n].line = lines[n]
                                         /\ Entries(lines, j)[n].at = run
          BY <1>0, <4>4, EntriesSeq
        <4>6. RowsOf(csv'["parallel"]) = SaysOf(lines)
          BY <4>2, <4>5 DEF RowsOf, SaysOf
        <4>7. ~(groups <= max_thr + (max_thr % inc))
          BY <3>1, <4>3 DEF WorkDone, MoreGroups, Queries
        <4>8. Climbing(SaysOf(lines), groups, max_thr)
          BY <3>1, <4>3 DEF Loops, Loop
        <4>9. SaysOf(lines) \in Seq(Nat)
          <5> DEFINE s == SaysOf(lines)
          <5>1. s \in Seq(Says) /\ Len(s) \in Nat /\ DOMAIN s = 1 .. Len(s)
            BY <1>0, SaysSeq, SeqDomain
          <5>2. \A n \in DOMAIN s : s[n] \in Nat
            BY <1>0, <4>8 DEF Climbing
          <5> HIDE DEF s
          <5> QED BY <5>1, <5>2 DEF s
        <4>10. Climbed(SaysOf(lines), max_thr)
          BY <1>0, <4>7, <4>8, <4>9, LastPass
        <4>11. Climbed(RowsOf(csv'["parallel"]), max_thr')
          BY <2>1, <4>6, <4>10
        <4>12. \A n, k \in DOMAIN csv'["parallel"] : csv'["parallel"][n].at = csv'["parallel"][k].at
          BY <4>2, <4>5
        <4> QED BY <1>1, <4>11, <4>12 DEF Loops, RowsOf
      <3>2. CASE ~(how = "ok" /\ Script[ip].job[1] = "parallel")
        <4>1. csv'["parallel"] = csv["parallel"]
          BY <2>8, <3>2, EndedFiles
        <4> QED BY <1>2, <2>1, <4>1
      <3> QED BY <3>1, <3>2
    <2> QED BY <1>4, <2>2, <2>3, <2>4, <2>5, <2>6, <2>7, <2>8 DEF Moves, Shell
  <1> QED BY <1>3, <1>4, StepKinds

---------------------------------------------------------------------------
(* The invariant holds, and the properties follow from it.                 *)

\* Nothing has been executed and no file is there.
LEMMA Initially ==
    ASSUME Init
    PROVE  Inv
  <1>1. /\ run = 0 /\ ip = 0 /\ lines = <<>> /\ groups = 1 /\ outcome = <<>> /\ deaths = 0 /\ cut = {}
        /\ max_thr \in MaxThreads
        /\ file = [f \in File |-> <<>>] /\ csv = [c \in Csv |-> <<>>]
    BY DEF Init
  <1>2. compare \in BOOLEAN /\ working \in BOOLEAN /\ ~working /\ opened \in BOOLEAN /\ ~opened
    BY Zenon DEF Init
  <1>3. DOMAIN outcome = {} /\ Len(Script) \in Nat /\ Lengths \in Nat
    BY <1>1, ScriptSeq, Sizes
  <1>4. /\ \A f \in File : file[f] = <<>> /\ DOMAIN file[f] = {}
        /\ \A c \in Csv : csv[c] = <<>> /\ DOMAIN csv[c] = {} /\ Reported(c) = {}
    BY <1>1 DEF Reported
  <1>5. "sketch" \in Csv /\ "parallel" \in Csv
    BY DEF Csv
  <1>6. \A k : ~(k \in 1 .. ip - 1) /\ ~(k \in 1 .. ip)
    BY <1>1
  <1>7. Types
    BY <1>1, <1>2, <1>3, EmptySeq DEF Types
  <1>8. Processes
    BY <1>1, <1>2, EmptySeq DEF Processes, Opening
  <1>9. Stamps /\ Outcomes
    BY <1>1, <1>4 DEF Stamps, Outcomes
  <1>10. Removed /\ Origin /\ Fresh /\ Settled /\ CreditedRight
    BY <1>1, <1>4, <1>6 DEF Removed, Origin, Fresh, Settled, CreditedRight
  <1>11. Kept /\ Read
    BY <1>6 DEF Kept, Read
  <1>12. Renewed
    <2>1. Outcome(<<"parallel", 1>>) = "skipped"
      BY <1>3 DEF Outcome
    <2> QED BY <1>6, <2>1 DEF Renewed, RenewedBefore, ParallelAnew
  <1>13. Sketches
    <2>1. ~(ip \in 0 + 1 .. 2 * Lengths + 1) /\ ~(ip \in Lengths + 1 .. 2 * Lengths + 1)
          /\ ~(ip > 2 * Lengths + 1)
      BY <1>1, <1>3
    <2> QED BY <1>4, <1>5, <2>1 DEF Sketches, Measures, NoRows, AllRows
  <1>14. Paired
    BY <1>4, <1>5 DEF Paired
  <1>15. Loops
    BY <1>2, <1>4, <1>5 DEF Loops, Loop
  <1> QED BY <1>7, <1>8, <1>9, <1>10, <1>11, <1>12, <1>13, <1>14, <1>15 DEF Inv

\* Every step keeps the invariant.
LEMMA Inductive ==
    ASSUME Inv, [Next]_vars
    PROVE  Inv'
  <1>1. /\ Types /\ Processes /\ Stamps /\ Outcomes /\ Removed /\ Origin /\ Fresh /\ Settled
        /\ CreditedRight /\ Kept /\ Read /\ Renewed /\ Sketches /\ Paired /\ Loops
    BY DEF Inv
  <1>2. Types'
    BY <1>1, TypesStep
  <1>3. Processes'
    BY <1>1, ProcessesStep
  <1>4. Stamps'
    BY <1>1, StampsStep
  <1>5. Outcomes'
    BY <1>1, OutcomesStep
  <1>6. Removed'
    BY <1>1, RemovedStep
  <1>7. Fresh'
    BY <1>1, <1>2, <1>3, FreshStep
  <1>8. Settled'
    BY <1>1, SettledStep
  <1>9. CreditedRight'
    BY <1>1, CreditedRightStep
  <1>10. Kept'
    BY <1>1, KeptStep
  <1>11. Read'
    BY <1>1, <1>2, ReadStep
  <1>12. Renewed'
    BY <1>1, <1>2, RenewedStep
  <1>13. Sketches'
    BY <1>1, SketchesStep
  <1>14. Paired'
    BY <1>1, PairedStep
  <1>15. Loops'
    BY <1>1, LoopsStep
  <1>16. Origin'
    BY <1>1, OriginStep
  <1> QED BY <1>2, <1>3, <1>4, <1>5, <1>6, <1>7, <1>8, <1>9, <1>10, <1>11, <1>12, <1>13,
             <1>14, <1>15, <1>16 DEF Inv

\* Inv is an invariant of the experiments: it holds at first and every command,
\* process, interruption and new execution keeps it.
THEOREM Invariance == Spec => []Inv
  <1>1. Init => Inv
    BY Initially
  <1>2. Inv /\ [Next]_vars => Inv'
    BY Inductive
  <1> QED BY <1>1, <1>2, PTL DEF Spec

\* At the end of run.sh every csv file is new and holds what the jobs measured.
LEMMA CompleteFromInv ==
    ASSUME Inv
    PROVE  Complete
  <1> SUFFICES ASSUME ip = Len(Script) + 1
               PROVE  /\ \A c \in Csv : \A n \in DOMAIN csv[c] :
                            csv[c][n].at # run => c = "parallel" /\ Died(<<"parallel", 1>>)
                      /\ \A j \in Job : Outcome(j) = "ok" /\ j[1] \notin {"agm", "cube"} =>
                            \E c \in Csv : Present(c, j)
    BY DEF Complete, Present
  <1>0. Types /\ Outcomes /\ RenewedBefore /\ ParallelAnew /\ Read
    BY DEF Inv, Renewed
  <1>1. Len(Script) \in Nat /\ \A k : k \in 1 .. Len(Script) => k \in 1 .. ip - 1
    BY ScriptSeq
  <1>2. ASSUME NEW c \in Csv, NEW n \in DOMAIN csv[c], csv[c][n].at # run
        PROVE  c = "parallel" /\ Died(<<"parallel", 1>>)
    <2>1. CASE c \notin {"sketch", "parallel"}
      <3>1. PICK k \in 1 .. Len(Script) : Script[k].op = "new" /\ c \in Script[k].csvs
        BY <2>1, AllEmptied
      <3>2. AllNew(c)
        BY <1>0, <1>1, <3>1 DEF RenewedBefore
      <3> QED BY <1>2, <3>2 DEF AllNew
    <2>2. CASE c = "sketch"
      <3>1. AllNew("sketch")
        BY <1>0, <1>1, SpecialCommands DEF RenewedBefore
      <3> QED BY <1>2, <2>2, <3>1 DEF AllNew
    <2>3. CASE c = "parallel"
      <3>1. <<"parallel", 1>> \in DOMAIN outcome
        <4>1. Runs(Middle + 20) /\ Middle + 20 \in 1 .. ip - 1
              /\ Script[Middle + 20].job = <<"parallel", 1>>
          BY <1>1, SpecialCommands
        <4>2. "parallel" \notin Comparison
          BY DEF Comparison
        <4>3. ip # 0
          BY <1>1
        <4> QED BY <1>0, <4>1, <4>2, <4>3 DEF Outcomes
      <3>2. Outcome(<<"parallel", 1>>) \in {"ok", "died", "unopened"}
        BY <1>0, <3>1, OutcomeRange
      <3>3. Outcome(<<"parallel", 1>>) # "ok"
        BY <1>0, <1>2, <2>3 DEF ParallelAnew, AllNew
      <3> QED BY <2>3, <3>2, <3>3 DEF Died
    <2> QED BY <2>1, <2>2, <2>3
  <1>3. ASSUME NEW j \in Job, Outcome(j) = "ok", j[1] \notin {"agm", "cube"}
        PROVE  \E c \in Csv : Present(c, j)
    <2>1. PICK k : Runs(k) /\ Script[k].job = j
      BY DEF Job, Runs
    <2>2. CASE j[1] = "parallel"
      <3>1. j = <<"parallel", 1>>
        BY <2>1, <2>2, RunFacts DEF RunFact
      <3>2. "parallel" \in Csv
        BY DEF Csv
      <3> QED BY <1>0, <1>3, <3>1, <3>2 DEF ParallelAnew
    <2>3. CASE j[1] # "parallel"
      <3>1. Delivered(k)
        BY <1>3, <2>1, <2>3 DEF Delivered
      <3>2. PICK p \in 1 .. Len(Script) : Script[p].op = "cat" /\ Script[p].job = j
        BY <2>1, <3>1, AllRead
      <3>3. Script[p].csv \in Csv
        BY <3>2, CatFacts DEF CatFact
      <3>4. Present(Script[p].csv, j)
        BY <1>0, <1>1, <1>3, <3>2 DEF Read
      <3> QED BY <3>3, <3>4
    <2> QED BY <2>2, <2>3
  <1> QED BY <1>2, <1>3

\* A row of the sketch experiment for every length, when nothing died.
LEMMA PairedFromInv ==
    ASSUME Inv
    PROVE  PairedByLength
  <1>1. Paired /\ AllRows
    BY DEF Inv, Sketches
  <1>2. ip = Len(Script) + 1 => ip > 2 * Lengths + 1
    BY Sizes, ScriptSeq DEF Tests
  <1> QED BY <1>1, <1>2 DEF PairedByLength, Paired, AllRows, AllAlive

\* What the parallel experiment measured, as its csv file shows it.
LEMMA MaxMeasuredFromInv ==
    ASSUME Inv
    PROVE  MaxMeasured
  <1> DEFINE p == csv["parallel"]
             s == RowsOf(p)
  <1> SUFFICES ASSUME NEW m \in Reported("parallel")
               PROVE  /\ 1 \in Measured /\ \A g \in Measured : g <= max_thr
                      /\ \A g \in 1 .. max_thr : g % inc = 0 => g \in Measured
                      /\ max_thr \in Measured <=>
                           max_thr = 1 \/ max_thr % inc = 0 \/ 2 * (max_thr % inc) >= inc
                      /\ \A n, k \in Reported("parallel") :
                            n < k => p[n].line.says < p[k].line.says
    BY DEF MaxMeasured
  <1>1. Types /\ Loops
    BY DEF Inv
  <1>2. max_thr \in Nat
    BY <1>1, Threads DEF Types
  <1>3. m \in DOMAIN p /\ p[m].at = run /\ \A n, k \in DOMAIN p : p[n].at = p[k].at
    BY <1>1 DEF Reported, Loops
  <1>4. Reported("parallel") = DOMAIN p
    BY <1>3 DEF Reported
  <1>5. Climbed(s, max_thr)
    <2>1. p # <<>>
      BY <1>3
    <2> QED BY <1>1, <2>1 DEF Loops
  <1>6. DOMAIN s = DOMAIN p /\ \A n \in DOMAIN p : s[n] = p[n].line.says
    BY DEF RowsOf
  <1>7. Measured = {p[n].line.says : n \in DOMAIN p}
    BY <1>4 DEF Measured
  <1> HIDE DEF s, p
  <1>8. \A g : g \in Measured <=> \E n \in DOMAIN s : s[n] = g
    BY <1>6, <1>7
  <1>9. \A g \in Measured : g \in 1 .. max_thr
    BY <1>5, <1>8 DEF Climbed
  <1>10. \A g \in 1 .. max_thr : g % inc = 0 => g \in Measured
    <2>1. \A g \in 1 .. max_thr : g < max_thr + 1
      BY <1>2
    <2> QED BY <1>5, <1>8, <2>1 DEF Climbed, Multiples
  <1>11. 1 \in Measured
    BY <1>5, <1>8 DEF Climbed
  <1>12. max_thr \in Measured <=>
           max_thr = 1 \/ max_thr % inc = 0 \/ 2 * (max_thr % inc) >= inc
    BY <1>5, <1>8 DEF Climbed
  <1>13. \A n, k \in Reported("parallel") : n < k => p[n].line.says < p[k].line.says
    BY <1>4, <1>5, <1>6 DEF Climbed, Increasing
  <1>14. \A g \in Measured : g <= max_thr
    BY <1>2, <1>9
  <1> QED BY <1>10, <1>11, <1>12, <1>13, <1>14

\* Whose lines a csv file presents as a job's, however many lengths, datasets,
\* executions of run.sh and processes that die there are: the job's own, unless
\* it was left out or ended before it opened its file; then lines of an
\* interrupted execution, or of the same system without a memory limit.
THEOREM LinesCreditedRight == Spec => []CreditedRight
  <1>1. Inv => CreditedRight
    BY DEF Inv
  <1> QED BY <1>1, Invariance, PTL

\* At the end of run.sh every line of every finished job other than the sketches'
\* is in a csv file, all lines of a job together and in their order, and the only
\* csv file that can be older is the parallel experiment's.
THEOREM NothingMissing == Spec => []Complete
  <1>1. Inv => Complete
    BY CompleteFromInv
  <1> QED BY <1>1, Invariance, PTL

\* combine_sketch_expr_results compares the two sketches at the same length, and
\* has a row for every length, as long as no process of the experiment died.
THEOREM RowsPaired == Spec => []PairedByLength
  <1>1. Inv => PairedByLength
    BY PairedFromInv
  <1> QED BY <1>1, Invariance, PTL

\* Which numbers of groups the loop of parallel_expr measures, for every number
\* of threads and every step of more than two.
THEOREM ThreadsMeasured == Spec => []MaxMeasured
  <1>1. Inv => MaxMeasured
    BY MaxMeasuredFromInv
  <1> QED BY <1>1, Invariance, PTL
=============================================================================
