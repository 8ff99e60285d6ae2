------------------------------- MODULE Delivery -------------------------------
(***************************************************************************)
(* What the watcher, its loop and the pump together promise, whatever      *)
(* channels, locks and rebuilds are between a log file and the buffer:     *)
(* each file is a queue whose lines come out in the order they were        *)
(* written, each at most once, and none is passed over unless the user     *)
(* asked for something that gives lines up: a catch-up, a reload that      *)
(* replaces the watcher, or the end of the program.                        *)
(***************************************************************************)
EXTENDS Integers, Sequences

CONSTANTS
  Files,
  MaxLines     \* bound on the lines written to each file

VARIABLES
  written,  \* lines written to each file
  out,      \* lines handed on, oldest first
  lost,     \* lines given up
  asked     \* what the user has asked for that may give lines up

vars == <<written, out, lost, asked>>

Line == [file : Files, n : 1 .. MaxLines]
Requests == {"catchup", "rebuild", "quit"}

Out == {out[i] : i \in 1 .. Len(out)}
Pending == {l \in Line : l.n <= written[l.file] /\ l \notin Out /\ l \notin lost}

TypeOK ==
  /\ written \in [Files -> 0 .. MaxLines]
  /\ out \in Seq(Line)
  /\ lost \subseteq Line
  /\ asked \subseteq Requests

Write(f) ==
  /\ written[f] < MaxLines
  /\ written' = [written EXCEPT ![f] = @ + 1]
  /\ UNCHANGED <<out, lost, asked>>

\* The oldest pending line of some file.
Deliver(l) ==
  /\ l \in Pending
  /\ \A k \in Pending : k.file = l.file => l.n <= k.n
  /\ out' = Append(out, l)
  /\ UNCHANGED <<written, lost, asked>>

Ask(r) ==
  /\ asked' = asked \union {r}
  /\ UNCHANGED <<written, out, lost>>

\* A request is over, having cost the lines of S, or goes on to cost more.
GiveUp(S, over) ==
  /\ asked # {}
  /\ lost' = lost \union S
  /\ asked' = asked \ over
  /\ UNCHANGED <<written, out>>

Init ==
  /\ written = [f \in Files |-> 0]
  /\ out = <<>>
  /\ lost = {}
  /\ asked = {}

Next ==
  \/ \E f \in Files : Write(f)
  \/ \E l \in Line : Deliver(l)
  \/ \E r \in Requests : Ask(r)
  \/ \E S \in SUBSET Pending, over \in SUBSET asked : GiveUp(S, over)

Spec == Init /\ [][Next]_vars

\* What came out: nothing twice, and nothing out of order.
OnceInOrder ==
  \A i, j \in 1 .. Len(out) :
    i < j /\ out[i].file = out[j].file => out[i].n < out[j].n
=============================================================================
