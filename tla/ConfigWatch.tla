----------------------------- MODULE ConfigWatch -----------------------------
(***************************************************************************)
(* The debounced config watcher of internal/configwatch/configwatch.go and *)
(* its consumer, the pump's `case <-cfgChanges' (main.go).                 *)
(*                                                                         *)
(* The file's content is its version and whether config.Load accepts it.   *)
(* An editor's save is one or more edits: a truncation, a partial write, a *)
(* removal, a rename over the target.  The kernel queues an event with the *)
(* edit it is about.  The debounce timer may fire whenever it is armed.    *)
(***************************************************************************)
EXTENDS Integers

CONSTANTS
  MaxEdits,     \* bound on the changes to the file
  MaxSiblings   \* bound on the changes to other files of its directory

ASSUME EditAssumption == MaxEdits \in Nat /\ MaxSiblings \in Nat

VARIABLES
  file,      \* the target: its version, and valid, invalid or absent
  edits,     \* changes to the target so far: the version of the next is edits + 1
  others,    \* changes to other files so far
  events,    \* target events queued in w.fs.Events
  siblings,  \* events for other files queued there
  timer,     \* the debounce timer is armed (timerC # nil)
  changes,   \* signals in w.changes, which has capacity 1
  pump,      \* the consumer
  attempted, \* version that loadRuntime last read
  loaded,    \* version of the configuration that is running
  reloads,   \* calls of loadRuntime
  since      \* version of the file when the watch on it began

watchVars == <<events, siblings, timer, changes>>
pumpVars == <<pump, attempted, loaded, reloads, since>>
vars == <<file, edits, others, watchVars, pumpVars>>

Kinds == {"valid", "invalid", "absent"}

Running == pump \in {"select", "loading", "applying"}

\* The pump is in its case <-cfgChanges.
Reloading == pump \in {"loading", "applying"}

Init ==
  /\ file = [ver |-> 0, kind |-> "valid"]
  /\ edits = 0
  /\ others = 0
  /\ events = 0
  /\ siblings = 0
  /\ timer = FALSE
  /\ changes = 0
  /\ pump = "starting"
  /\ attempted = 0
  /\ loaded = 0
  /\ reloads = 0
  /\ since = 0

\* The file may change at any time: before the watch begins, without an event.
Edit(kind) ==
  /\ edits < MaxEdits
  /\ pump # "closed"
  /\ edits' = edits + 1
  /\ file' = [ver |-> edits + 1, kind |-> kind]
  /\ events' = IF Running THEN events + 1 ELSE events
  /\ UNCHANGED <<others, siblings, timer, changes, pumpVars>>

EditSibling ==
  /\ others < MaxSiblings
  /\ Running
  /\ others' = others + 1
  /\ siblings' = siblings + 1
  /\ UNCHANGED <<file, edits, events, timer, changes, pumpVars>>

\* New: from here on the directory is watched.
StartWatch ==
  /\ pump = "starting"
  /\ pump' = "select"
  /\ since' = file.ver
  /\ UNCHANGED <<file, edits, others, watchVars, attempted, loaded, reloads>>

\* Mutant of LoopEvent: an event during a reload is ignored.
LoopEventUnlessLoading ==
  /\ Running
  /\ events > 0
  /\ events' = events - 1
  /\ timer' = (timer \/ ~ Reloading)
  /\ UNCHANGED <<file, edits, others, siblings, changes, pumpVars>>

\* An event for the target (re)arms the timer...
LoopEvent ==
  /\ Running
  /\ events > 0
  /\ events' = events - 1
  /\ timer' = TRUE
  /\ UNCHANGED <<file, edits, others, siblings, changes, pumpVars>>

\* Mutant of LoopSibling: every event of the directory arms the timer.
LoopSiblingArms ==
  /\ Running
  /\ siblings > 0
  /\ siblings' = siblings - 1
  /\ timer' = TRUE
  /\ UNCHANGED <<file, edits, others, events, changes, pumpVars>>

\* ...any other is ignored.
LoopSibling ==
  /\ Running
  /\ siblings > 0
  /\ siblings' = siblings - 1
  /\ UNCHANGED <<file, edits, others, events, timer, changes, pumpVars>>

\* Mutant of LoopTimer: no signal is given during a reload.
LoopTimerUnlessLoading ==
  /\ Running
  /\ timer
  /\ timer' = FALSE
  /\ changes' = IF file.kind = "absent" \/ Reloading THEN changes ELSE 1
  /\ UNCHANGED <<file, edits, others, events, siblings, pumpVars>>

\* The file has settled: signal, unless it is gone or a signal is waiting.
LoopTimer ==
  /\ Running
  /\ timer
  /\ timer' = FALSE
  /\ changes' = IF file.kind = "absent" THEN changes ELSE 1
  /\ UNCHANGED <<file, edits, others, events, siblings, pumpVars>>

\* case <-cfgChanges...
PumpTake ==
  /\ pump = "select"
  /\ changes = 1
  /\ changes' = 0
  /\ pump' = "loading"
  /\ UNCHANGED <<file, edits, others, events, siblings, timer, attempted, loaded,
                 reloads, since>>

\* ...loadRuntime: an error leaves the last good configuration running...
PumpLoad ==
  /\ pump = "loading"
  /\ pump' = IF file.kind = "valid" THEN "applying" ELSE "select"
  /\ attempted' = file.ver
  /\ reloads' = reloads + 1
  /\ UNCHANGED <<file, edits, others, watchVars, loaded, since>>

\* ...and applyReloadWatcher with what was read, however old it is by now.
PumpApply ==
  /\ pump = "applying"
  /\ pump' = "select"
  /\ loaded' = attempted
  /\ UNCHANGED <<file, edits, others, watchVars, attempted, reloads, since>>

\* The pump returns; the deferred cw.Close ends the loop, which drops the timer.
Close ==
  /\ pump = "select"
  /\ pump' = "closed"
  /\ timer' = FALSE
  /\ UNCHANGED <<file, edits, others, events, siblings, changes, attempted, loaded,
                 reloads, since>>

Next ==
  \/ \E kind \in Kinds : Edit(kind)
  \/ EditSibling \/ StartWatch
  \/ LoopEvent \/ LoopSibling \/ LoopTimer
  \/ PumpTake \/ PumpLoad \/ PumpApply \/ Close

\* Both goroutines run when they can, and the timer fires.
Fairness ==
  /\ WF_vars(LoopEvent) /\ WF_vars(LoopTimer) /\ WF_vars(PumpTake)
  /\ WF_vars(PumpLoad) /\ WF_vars(PumpApply)

Spec == Init /\ [][Next]_vars /\ Fairness

-----------------------------------------------------------------------------
TypeOK ==
  /\ file \in [ver : Nat, kind : Kinds]
  /\ {edits, others, events, siblings, attempted, loaded, reloads, since} \subseteq Nat
  /\ timer \in BOOLEAN
  /\ changes \in {0, 1}
  /\ pump \in {"starting", "select", "loading", "applying", "closed"}

\* "A pending reload already covers any change": whenever the file has changed
\* since the watch began and differs from what was last read, an event, the
\* timer, a signal or the reload itself is still under way, so neither the
\* debounce, nor the file being missing when the timer fires, nor a signal
\* dropped on a full channel loses the change.  (A change between config.Load
\* and New gives no event: it waits for the next one.)
Covered ==
  Running /\ file.kind # "absent" /\ file.ver \notin {attempted, since}
    => events > 0 \/ timer \/ changes = 1 \/ pump = "loading"

\* A reload happens at most once per change of the target: coalescing never
\* turns into extra reloads (each resets the renderer toggles and re-renders
\* the buffer), and changes to other files never cause one.
Count(p) == IF p THEN 1 ELSE 0
ReloadsAreCaused ==
  reloads + changes + Count(pump = "loading") + Count(timer) + events <= edits

\* A valid configuration put in place after the watch began, and left there, is
\* the one that ends up running.
EditIsApplied ==
  \A v \in 1 .. MaxEdits :
    (Running /\ v # since /\ file = [ver |-> v, kind |-> "valid"])
      ~> (loaded = v \/ file.ver # v \/ pump = "closed")
=============================================================================
