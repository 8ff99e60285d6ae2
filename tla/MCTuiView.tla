----------------------------- MODULE MCTuiView -----------------------------
(* One source line and the marker's empty one.  The renderer makes two rows  *)
(* of the line; switched off, the line is shown raw.                         *)
EXTENDS TuiView

MCRaws == {"line", "empty"}
MCRenderings == {"raw", "tall", "marker", "blank"}
MCHeight == [r \in MCRenderings |-> IF r = "tall" THEN 2 ELSE 1]
MCOutcome ==
  [p \in Versions \X BOOLEAN |->
     [raw \in MCRaws |-> IF raw = "empty" THEN "blank"
                         ELSE IF p[2] THEN "tall" ELSE "raw"]]
=============================================================================
