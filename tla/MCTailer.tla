------------------------------ MODULE MCTailer ------------------------------
(* The kinds of rotation that each property is about, side by side.         *)
EXTENDS Tailer

MCScenarios ==
  { [faults |-> {"rename", "remove"}, files |-> 3],
    [faults |-> {"rename", "remove", "reuse", "skip"}, files |-> 3],
    [faults |-> {"rename", "remove", "truncate", "skip"}, files |-> 2] }
MCReuse == { [faults |-> {"remove", "reuse"}, files |-> 2] }
=============================================================================
