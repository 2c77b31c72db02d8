---------------------------- MODULE MemoryReport ----------------------------
(***************************************************************************)
(* What the scripts of the speed experiment are told about the memory of a *)
(* process: the lines that top writes about it, and what the result of     *)
(* top_cleaner and top_max_finder is to say of them.  MemoryLog is the two *)
(* programs.                                                               *)
(*                                                                         *)
(* kb, mb and gb are parameters so that the numbers stay small.            *)
(***************************************************************************)
EXTENDS Integers, Sequences

CONSTANTS
    Task,           \* the process lines that top may write
    MaxFrames,      \* bound on the frames of a log
    kb, mb, gb

\* A number and the unit top chose for it.
Size == Nat \X {" ", "m", "g"}

ASSUME UnitsAssumption == {kb, mb, gb} \subseteq Nat
ASSUME MaxFramesAssumption == MaxFrames \in Nat
ASSUME TaskAssumption == Task \subseteq [virt : Size, res : Size, swap : Size]

VARIABLES
    log,            \* lines of the log that top_cleaner has not read
    cleaning,       \* top_cleaner has not ended
    pipe,           \* lines between the two programs
    reading,        \* top_max_finder has not seen the end of its input
    virt, res, swap,
    shown           \* the process lines of the log: what the result is about

\* extract: the number is multiplied by its unit, except that mb is added.
extract(size) ==
    CASE size[2] = " " -> size[1] * kb
      [] size[2] = "g" -> size[1] * gb
      [] size[2] = "m" -> size[1] + mb
Extracted(task) == extract(task.res) + extract(task.swap)

\* The bytes that top meant.
Bytes(size) == size[1] * CASE size[2] = " " -> kb [] size[2] = "m" -> mb [] size[2] = "g" -> gb
Usage(task) == Bytes(task.res) + Bytes(task.swap)

\* No process line that reached the log is missed and no other line is taken for
\* one, wherever kill -9 cut the log and whether or not the process was gone in the
\* last frame: VIRT is the largest that extract reads in any of them, RES and SWAP
\* are those of one line, and no line has a larger sum of the two.  Without any
\* line the result is 0.
PeakReported ==
    ~reading =>
        IF shown = {} THEN virt = 0 /\ res = 0 /\ swap = 0
        ELSE /\ \A task \in shown : virt >= extract(task.virt)
             /\ \E task \in shown : virt = extract(task.virt)
             /\ \E task \in shown :
                   /\ res = extract(task.res) /\ swap = extract(task.swap)
                   /\ \A other \in shown : Extracted(other) <= Extracted(task)

\* "max_finder gives the maximum memory usage of a log and returns RES/SWAP that
\* gave this": RES and SWAP are, in bytes, those of a line whose sum no line
\* exceeds.
MaximumUsage ==
    ~reading /\ shown # {} =>
        \E task \in shown :
            /\ res = Bytes(task.res) /\ swap = Bytes(task.swap)
            /\ \A other \in shown : Usage(other) <= Usage(task)
=============================================================================
