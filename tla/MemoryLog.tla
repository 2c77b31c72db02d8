----------------------------- MODULE MemoryLog -----------------------------
(***************************************************************************)
(* util/clean.cpp (top_cleaner) and util/max_finder.cpp (top_max_finder),  *)
(* joined by a pipe: what the scripts make of the log that "top -b -p PID" *)
(* has written about a process until it was ended with kill -9.            *)
(*                                                                         *)
(* A line of the log is a header line, a blank one or the process' line:   *)
(* its VIRT, RES and SWAP, each a number with the unit top chose for it.   *)
(***************************************************************************)
EXTENDS MemoryReport

vars == <<log, cleaning, pipe, reading, virt, res, swap, shown>>

Zero == <<0, " ">>
Line(kind, task) == [kind |-> kind, task |-> task]
NoTask == [virt |-> Zero, res |-> Zero, swap |-> Zero]
Header == Line("header", NoTask)
Blank == Line("blank", NoTask)

\* A frame of top: five lines of summary, a blank one and the names of the
\* columns, the process unless it has ended, and a blank line.
Frame(task) ==
    [k \in 1 .. 9 |-> IF k <= 7 THEN Header ELSE IF k = 8 THEN Line("task", task) ELSE Blank]
LastFrame == [k \in 1 .. 8 |-> IF k <= 7 THEN Header ELSE Blank]

\* A log of n frames with the process and, if over, one without it, of which
\* kill -9 left the first cut lines.
Whole(tasks, n) == [l \in 1 .. 9 * n |-> Frame(tasks[((l - 1) \div 9) + 1])[((l - 1) % 9) + 1]]
Log(tasks, n, over) == IF over THEN Whole(tasks, n) \o LastFrame ELSE Whole(tasks, n)

TaskLines(lines) == {l \in 1 .. Len(lines) : lines[l].kind = "task"}

Init ==
    /\ \E n \in 0 .. MaxFrames, over \in BOOLEAN :
          \E tasks \in [1 .. n -> Task] :
             \E cut \in 0 .. Len(Log(tasks, n, over)) :
                log = SubSeq(Log(tasks, n, over), 1, cut)
    /\ shown = {log[l].task : l \in TaskLines(log)}
    /\ cleaning = TRUE
    /\ pipe = <<>>
    /\ reading = TRUE
    /\ virt = 0
    /\ res = 0
    /\ swap = 0

---------------------------------------------------------------------------

\* A pass of top_cleaner: seven lines are dropped, the process' line is
\* printed and the blank one after it dropped ...
CleanFrame ==
    /\ cleaning
    /\ Len(log) >= 8
    /\ log[8] # Blank
    /\ pipe' = Append(pipe, log[8].task)
    /\ log' = SubSeq(log, 10, Len(log))
    /\ cleaning' \in BOOLEAN /\ (cleaning' <=> Len(log) >= 9)
    /\ UNCHANGED <<reading, virt, res, swap, shown>>

\* ... until the log is over or the process' line is missing.
CleanEnd ==
    /\ cleaning
    /\ ~(Len(log) >= 8 /\ log[8] # Blank)
    /\ cleaning' = FALSE
    /\ UNCHANGED <<log, pipe, reading, virt, res, swap, shown>>

\* Mutant of FindMax: the largest RES and the largest SWAP.
FindMaxEach ==
    /\ pipe # <<>>
    /\ LET task == Head(pipe)
       IN  /\ virt' = IF extract(task.virt) > virt THEN extract(task.virt) ELSE virt
           /\ res' = IF extract(task.res) > res THEN extract(task.res) ELSE res
           /\ swap' = IF extract(task.swap) > swap THEN extract(task.swap) ELSE swap
    /\ pipe' = Tail(pipe)
    /\ UNCHANGED <<log, cleaning, reading, shown>>

\* A pass of top_max_finder: the largest VIRT, and the RES and SWAP of the
\* line whose sum is largest, the first of them.
FindMax ==
    /\ pipe # <<>>
    /\ LET task == Head(pipe)
           larger == extract(task.res) + extract(task.swap) > res + swap
       IN  /\ virt' = IF extract(task.virt) > virt THEN extract(task.virt) ELSE virt
           /\ res' = IF larger THEN extract(task.res) ELSE res
           /\ swap' = IF larger THEN extract(task.swap) ELSE swap
    /\ pipe' = Tail(pipe)
    /\ UNCHANGED <<log, cleaning, reading, shown>>

\* The pipe is empty and closed: the result is printed.
FindEnd ==
    /\ reading
    /\ pipe = <<>>
    /\ ~cleaning
    /\ reading' = FALSE
    /\ UNCHANGED <<log, cleaning, pipe, virt, res, swap, shown>>

Clean == CleanFrame \/ CleanEnd
Find == FindMax \/ FindEnd
Next == Clean \/ Find

\* Two processes that the shell runs to their end.
Spec == Init /\ [][Next]_vars
=============================================================================
