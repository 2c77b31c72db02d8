---------------------------- MODULE MCMemoryLog ----------------------------
(* A line in KiB and one whose RES top gives in MiB. *)
EXTENDS MemoryLog
Task2 == {[virt |-> <<9, " ">>, res |-> <<3, " ">>, swap |-> <<2, " ">>],
          [virt |-> <<9, "m">>, res |-> <<5, "m">>, swap |-> <<0, " ">>]}
=============================================================================
