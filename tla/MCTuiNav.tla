------------------------------ MODULE MCTuiNav ------------------------------
(* An ordinary line, a stack trace of which rendering makes two rows, and a  *)
(* line of another group, with a hit, that continues the block above it.     *)
EXTENDS TuiNav

Plain == [cont |-> FALSE, sig |-> FALSE, exc |-> FALSE, hit |-> FALSE]
MCKinds == {"line", "trace", "frame"}
MCGroupOf == [kind \in MCKinds |-> IF kind = "frame" THEN "b" ELSE "a"]
MCRowsOf ==
  [on \in BOOLEAN |-> [kind \in MCKinds |->
     CASE kind = "line"  -> <<Plain>>
       [] kind = "frame" -> <<[Plain EXCEPT !.sig = TRUE, !.hit = TRUE]>>
       [] kind = "trace" /\ on -> <<Plain, [Plain EXCEPT !.cont = TRUE, !.exc = TRUE, !.hit = TRUE]>>
       [] OTHER -> <<[Plain EXCEPT !.exc = TRUE, !.hit = TRUE]>>]]
=============================================================================
