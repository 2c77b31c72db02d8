------------------------- MODULE MCSpeedExperiment -------------------------
(***************************************************************************)
(* The speed experiment and the programs it is made of.  The scripts run   *)
(* one process at a time, in which perform_insertions runs (InsertionMgr), *)
(* and then the two programs that read the log of its memory (MemoryLog).  *)
(* What these promise does not depend on the manager's state, and the      *)
(* manager's properties only on where a measurement comes from, so a       *)
(* behaviour is about one of the three parts, with the others at rest.     *)
(***************************************************************************)
EXTENDS SpeedExperiment, MemoryReport, InsertionReport

\* Two streams, the first of them the one that Terrace is not run on.
MCInputs == <<"kron_18", "kron_17">>

\* Lines in which RES and SWAP grow against each other, in every unit.
Lines5 == {[virt |-> <<9, " ">>, res |-> <<3, " ">>, swap |-> <<2, " ">>],
           [virt |-> <<1, "g">>, res |-> <<1, " ">>, swap |-> <<5, " ">>],
           [virt |-> <<2, "g">>, res |-> <<5, " ">>, swap |-> <<0, " ">>],
           [virt |-> <<2, "g">>, res |-> <<1, "g">>, swap |-> <<1, " ">>],
           [virt |-> <<3, "m">>, res |-> <<2, "m">>, swap |-> <<7, " ">>]}

VARIABLE part       \* what this behaviour is about

Mem == INSTANCE MemoryLog
Ins == INSTANCE InsertionMgr
memVars == <<log, cleaning, pipe, reading, virt, res, swap, shown>>
insVars == <<call, timed, expired, m, chunk_i, total, inserted, num_updates, shutdown,
             ppc, tpc, updates, prev_updates, percent, progress, statsWritten>>
partVars == <<part, vars, memVars, insVars>>

\* The programs have read an empty log.
MemAtRest ==
    /\ log = <<>> /\ pipe = <<>> /\ shown = {}
    /\ cleaning = FALSE /\ reading = FALSE
    /\ virt = 0 /\ res = 0 /\ swap = 0

\* perform_insertions as it is before its first call, with no call left to make.
InsAtRest ==
    /\ call = Calls /\ ppc = "out" /\ tpc = "done"
    /\ timed = FALSE /\ expired = FALSE /\ shutdown = FALSE
    /\ m = 0 /\ chunk_i = 0 /\ total = 0 /\ inserted = 0 /\ num_updates = 0
    /\ updates = 0 /\ prev_updates = 0 /\ percent = 0 /\ progress = 0
    /\ statsWritten = FALSE

PartInit ==
    /\ Init
    /\ \/ part = "manager" /\ MemAtRest /\ InsAtRest
       \/ part = "memory" /\ Mem!Init /\ InsAtRest
       \/ part = "insertions" /\ MemAtRest /\ Ins!Init

PartNext ==
    /\ \/ part = "manager" /\ Next /\ UNCHANGED <<memVars, insVars>>
       \/ part = "memory" /\ Mem!Next /\ UNCHANGED <<vars, insVars>>
       \/ part = "insertions" /\ Ins!Next /\ UNCHANGED <<vars, memVars>>
    /\ UNCHANGED part

\* The fairness of each part.  What is at rest has no step that is owed.
PartSpec ==
    /\ PartInit /\ [][PartNext]_partVars
    /\ WF_vars(Step)
    /\ WF_insVars(Ins!PerformStep) /\ WF_insVars(Ins!TrackStep)
=============================================================================
