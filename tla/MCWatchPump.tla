---------------------------- MODULE MCWatchPump ----------------------------
(* Three lines without a reload, and fewer lines with one, of a file that is  *)
(* there at the start or not.  A channel of one is full while the loop holds  *)
(* the lock as soon as a tick returns two lines.                              *)
EXTENDS WatchPump

MCScenarios ==
  { [catchup |-> TRUE, late |-> {}, reloads |-> {}, lines |-> 3],
    [catchup |-> FALSE, late |-> {}, reloads |-> ReloadKinds, lines |-> 2],
    [catchup |-> TRUE, late |-> {}, reloads |-> {"changed"}, lines |-> 1],
    [catchup |-> FALSE, late |-> Files, reloads |-> {"same", "changed"}, lines |-> 2],
    [catchup |-> TRUE, late |-> Files, reloads |-> {}, lines |-> 2] }
MCSame == { [catchup |-> FALSE, late |-> {}, reloads |-> {"same"}, lines |-> 3] }
=============================================================================
