------------------------------ MODULE WatchPump ------------------------------
(***************************************************************************)
(* From the tailers to the buffer: the watcher's loop goroutine            *)
(* (internal/watch/watcher.go), the pump goroutine that owns the watcher,  *)
(* config reload (main.go runWatch, runWatchTUI, applyReloadWatcher), and  *)
(* the TUI's event loop with its lag poll and catch-up.                    *)
(*                                                                         *)
(* A tailer is reduced to how many lines of its file it has read (see      *)
(* Tailer for the rest).  Critical sections on w.mu that do not block are  *)
(* one step; the one that does, tickLocked sending on w.events, keeps the  *)
(* lock while loop[w].locked.  Locks the pump or the TUI wait for are      *)
(* steps guarded by MuFree.                                                *)
(***************************************************************************)
EXTENDS Integers, Sequences, FiniteSets

CONSTANTS
  Files,       \* files the configuration assigns
  EventCap,    \* capacity of w.events (1024 in the code)
  Tui,         \* runWatchTUI rather than runWatch
  Scenarios,   \* what happens together: whether the user may ask for a
               \* catch-up, which files are not there at the start, which
               \* outcomes reloads have (see ReloadKinds), and a bound on the
               \* lines written to each file
  MaxLines,    \* no scenario has more lines than this
  MaxReloads   \* bound on config changes

ReloadKinds ==
  {"bad",        \* loadRuntime fails: the change is ignored
   "same",       \* same watch-set: only the matchers are replaced
   "changed",    \* another watch-set: the watcher is rebuilt
   "builderr"}   \* the rebuild fails: the old watcher is kept

ASSUME PumpAssumption ==
  /\ EventCap \in Nat \ {0}
  /\ Tui \in BOOLEAN
  /\ Scenarios \subseteq
       [catchup : BOOLEAN, late : SUBSET Files, reloads : SUBSET ReloadKinds,
        lines : 0 .. MaxLines]
  /\ {MaxLines, MaxReloads} \subseteq Nat

\* A watcher is named by its position in the succession of watchers.
Watchers == 1 .. MaxReloads + 1
Line == [file : Files, n : 1 .. MaxLines]

VARIABLES
  scenario,  \* what happens in this behaviour
  written,   \* lines written to each file
  told,      \* told[w]: files whose creation w was told of
  read,      \* read[w][f]: lines of f that w's tailer has read, or -1
  loop,      \* the loop goroutine of each watcher
  events,    \* w.events of each watcher
  done,      \* w.done is closed
  cur,       \* the pump's w
  wptr,      \* the watcher published to the TUI's callbacks
  pump,      \* the pump goroutine
  changes,   \* config changes not yet taken from cfgChanges
  reloads,   \* config changes so far
  ui,        \* the TUI's event loop
  catchup,   \* the catch-up command's goroutine
  delivered, \* lines appended to the buffer and handed to the sinks
  skipped    \* lines a catch-up dropped

logVars == <<scenario, written, told>>
watchVars == <<read, loop, events, done>>
pumpVars == <<cur, wptr, pump, changes, reloads, delivered>>
uiVars == <<ui, catchup>>
vars == <<logVars, watchVars, pumpVars, uiVars, skipped>>

NotAdded == -1
NoLoop == [pc |-> "none", locked |-> FALSE, todo |-> {}, queue |-> <<>>]
Selecting == [NoLoop EXCEPT !.pc = "select"]

MuFree(w) == ~ loop[w].locked

\* A tailer that is yet to be opened will start at the beginning.
Pos(w, f) == IF read[w][f] = NotAdded THEN 0 ELSE read[w][f]

Unread(w, f) == [i \in 1 .. written[f] - Pos(w, f) |-> [file |-> f, n |-> Pos(w, f) + i]]

\* The files there are: a late one comes into being with its first line.
Present == {f \in Files : f \notin scenario.late \/ written[f] > 0}

-----------------------------------------------------------------------------
(* The log writers.                                                         *)

\* The watchers that are told of a new file: the pump's, until it is closed, and
\* the one being built, once it watches the directory.
Watching(early) ==
  {w \in Watchers :
     \/ w = cur /\ ~ done[w]
     \/ w = cur + 1 /\ pump.pc \in {"close", "replace"}
     \/ w = cur + 1 /\ pump.pc = "add" /\ early}

WriteLine ==
  /\ \E f \in Files :
       /\ written[f] < scenario.lines
       /\ written' = [written EXCEPT ![f] = @ + 1]
       /\ \/ f \in Present /\ UNCHANGED told
          \/ /\ f \notin Present
             /\ \E early \in BOOLEAN :
                  told' = [w \in Watchers |->
                             IF w \in Watching(early) THEN told[w] \union {f} ELSE told[w]]
  /\ UNCHANGED <<scenario, watchVars, pumpVars, uiVars, skipped>>

-----------------------------------------------------------------------------
(* The loop goroutine.                                                      *)

\* Tick one tailer and go on to send what it returned, holding w.mu or not.
StartTick(w, f, locked, todo) ==
  /\ read' = [read EXCEPT ![w][f] = written[f]]
  /\ loop' = [loop EXCEPT ![w] = [pc |-> "send", locked |-> locked, todo |-> todo,
                                  queue |-> Unread(w, f)]]
  /\ UNCHANGED <<logVars, events, done, pumpVars, uiVars, skipped>>

\* handleFsEvent for a known path: tickLocked.
LoopFsEvent(w) ==
  /\ loop[w].pc = "select"
  /\ \E f \in Files : /\ read[w][f] # NotAdded
                      /\ read[w][f] < written[f]
                      /\ StartTick(w, f, TRUE, {})

\* Mutant of LoopNewFile: the new file is read from its end.
LoopNewFileAtEnd(w) ==
  /\ loop[w].pc = "select"
  /\ \E f \in told[w] : /\ read[w][f] = NotAdded
                        /\ read' = [read EXCEPT ![w][f] = written[f]]
  /\ UNCHANGED <<logVars, loop, events, done, pumpVars, uiVars, skipped>>

\* handleFsEvent for a new path: Add it, and tick it from the start, holding w.mu.
LoopNewFile(w) ==
  /\ loop[w].pc = "select"
  /\ \E f \in told[w] : read[w][f] = NotAdded /\ StartTick(w, f, TRUE, {})

\* The poll timer: tickAll snapshots the tailers, then ticks each unlocked.
LoopPoll(w) ==
  /\ loop[w].pc = "select"
  /\ loop' = [loop EXCEPT ![w].pc = "poll",
                          ![w].todo = {f \in Files : read[w][f] # NotAdded}]
  /\ UNCHANGED <<logVars, read, events, done, pumpVars, uiVars, skipped>>

LoopPollFile(w) ==
  /\ loop[w].pc = "poll"
  /\ \/ /\ loop[w].todo = {}
        /\ loop' = [loop EXCEPT ![w] = Selecting]
        /\ UNCHANGED <<logVars, read, events, done, pumpVars, uiVars, skipped>>
     \/ \E f \in loop[w].todo : StartTick(w, f, FALSE, loop[w].todo \ {f})

\* w.events <- line, which blocks while the channel is full.
LoopSend(w) ==
  /\ loop[w].pc = "send"
  /\ loop[w].queue # <<>>
  /\ Len(events[w]) < EventCap
  /\ events' = [events EXCEPT ![w] = Append(@, Head(loop[w].queue))]
  /\ loop' = [loop EXCEPT ![w].queue = Tail(@)]
  /\ UNCHANGED <<logVars, read, done, pumpVars, uiVars, skipped>>

LoopSent(w) ==
  /\ loop[w].pc = "send"
  /\ loop[w].queue = <<>>
  /\ loop' = [loop EXCEPT ![w].pc = "poll", ![w].locked = FALSE]
  /\ UNCHANGED <<logVars, read, events, done, pumpVars, uiVars, skipped>>

\* Mutant of LoopServeSkip: the tailers do not seek.
LoopServeSkipUnmoved(w) ==
  /\ loop[w].pc = "select"
  /\ catchup = [pc |-> "wait", w |-> w]
  /\ skipped' = skipped \union
       {l \in Line : /\ read[w][l.file] # NotAdded
                     /\ l.n \in read[w][l.file] + 1 .. written[l.file]}
  /\ catchup' = [pc |-> "result"]
  /\ UNCHANGED <<logVars, read, loop, events, done, pumpVars, ui>>

\* skipAllToEOF on behalf of the catch-up goroutine.
LoopServeSkip(w) ==
  /\ loop[w].pc = "select"
  /\ catchup = [pc |-> "wait", w |-> w]
  /\ LET known == {f \in Files : read[w][f] # NotAdded}
     IN /\ read' = [read EXCEPT ![w] =
                      [f \in Files |-> IF f \in known THEN written[f] ELSE @[f]]]
        /\ skipped' = skipped \union
             {l \in Line : /\ l.file \in known
                           /\ l.n \in read[w][l.file] + 1 .. written[l.file]}
  /\ catchup' = [pc |-> "result"]
  /\ UNCHANGED <<logVars, loop, events, done, pumpVars, ui>>

\* Mutants of LoopEnd: the loop may end by itself, or leaves w.mu locked.
LoopEndUnasked(w) ==
  /\ loop[w].pc \notin {"none", "ended"}
  /\ loop' = [loop EXCEPT ![w] = [NoLoop EXCEPT !.pc = "ended"]]
  /\ UNCHANGED <<logVars, read, events, done, pumpVars, uiVars, skipped>>
LoopEndLocked(w) ==
  /\ done[w]
  /\ loop[w].pc \notin {"none", "ended"}
  /\ loop' = [loop EXCEPT ![w].pc = "ended"]
  /\ UNCHANGED <<logVars, read, events, done, pumpVars, uiVars, skipped>>

\* done is closed: a blocked send gives up (and releases w.mu), the loop ends.
LoopEnd(w) ==
  /\ done[w]
  /\ loop[w].pc \notin {"none", "ended"}
  /\ loop' = [loop EXCEPT ![w] = [NoLoop EXCEPT !.pc = "ended"]]
  /\ UNCHANGED <<logVars, read, events, done, pumpVars, uiVars, skipped>>

LoopWork(w) ==
  \/ LoopFsEvent(w) \/ LoopNewFile(w) \/ LoopPoll(w) \/ LoopPollFile(w)
  \/ LoopSend(w) \/ LoopSent(w)

Loop(w) == LoopWork(w) \/ LoopServeSkip(w) \/ LoopEnd(w)

-----------------------------------------------------------------------------
(* The pump goroutine.                                                      *)

Go(pc) == pump' = [pump EXCEPT !.pc = pc]

\* Render, Append, Push, Emit for one line of the current watcher.
PumpLine ==
  /\ pump.pc = "select"
  /\ events[cur] # <<>>
  /\ delivered' = Append(delivered, Head(events[cur]))
  /\ events' = [events EXCEPT ![cur] = Tail(@)]
  /\ UNCHANGED <<logVars, read, loop, done, cur, wptr, pump, changes, reloads, uiVars, skipped>>

\* curSet: what was there when the watcher was built, without what it found.
WatchSet == {f \in Files : read[cur][f] # NotAdded /\ f \notin told[cur]}

\* A settled config change: load, swap the pipeline, re-render the buffer, and
\* compare the watch-sets.  A rebuild starts the new watcher's loop at once, to
\* which it adds the files there are now.
PumpReload ==
  /\ pump.pc = "select"
  /\ changes > 0
  /\ changes' = changes - 1
  /\ \E kind \in scenario.reloads :
       /\ kind = "same" => Present = WatchSet
       /\ pump' = CASE kind = "bad"      -> pump
                    [] kind = "same"     -> [pump EXCEPT !.pc = "setfile"]
                    [] kind = "builderr" -> [pump EXCEPT !.pc = "publish"]
                    [] kind = "changed"  -> [pc |-> "add", todo |-> Present]
       /\ loop' = IF kind = "changed" THEN [loop EXCEPT ![cur + 1] = Selecting] ELSE loop
  /\ UNCHANGED <<logVars, read, events, done, cur, wptr, reloads, delivered, uiVars, skipped>>

PumpLocked(from, w, to) ==
  /\ pump.pc = from
  /\ MuFree(w)
  /\ Go(to)
  /\ UNCHANGED <<logVars, watchVars, cur, wptr, changes, reloads, delivered, uiVars, skipped>>

PumpSetFileMatcher == PumpLocked("setfile", cur, "setdir")
PumpSetDirMatcher == PumpLocked("setdir", cur, "publish")

\* Mutant of PumpAdd: the new watcher reads the files from their start.
PumpAddFromStart ==
  /\ pump.pc = "add"
  /\ MuFree(cur + 1)
  /\ \E f \in pump.todo :
       /\ read' = [read EXCEPT ![cur + 1][f] = 0]
       /\ pump' = [pump EXCEPT !.todo = @ \ {f}]
  /\ UNCHANGED <<logVars, loop, events, done, cur, wptr, changes, reloads,
                 delivered, uiVars, skipped>>

\* buildWatcher: Add every assignment at EOF...
PumpAdd ==
  /\ pump.pc = "add"
  /\ MuFree(cur + 1)
  /\ \E f \in pump.todo :
       /\ read' = [read EXCEPT ![cur + 1][f] = written[f]]
       /\ pump' = [pump EXCEPT !.todo = @ \ {f}]
  /\ UNCHANGED <<logVars, loop, events, done, cur, wptr, changes, reloads,
                 delivered, uiVars, skipped>>

\* ...and WatchDir.
PumpWatchDir == pump.todo = {} /\ PumpLocked("add", cur + 1, "close")

\* w.Close() on the old watcher: close done, then lock to close its tailers.
PumpClose ==
  /\ pump.pc \in {"close", "quit"}
  /\ done' = [done EXCEPT ![cur] = TRUE]
  /\ Go(IF pump.pc = "close" THEN "replace" ELSE "closing")
  /\ UNCHANGED <<logVars, read, loop, events, cur, wptr, changes, reloads,
                 delivered, uiVars, skipped>>

\* The pump now owns the new watcher.  What the old one had read, or had yet to
\* read, before the new one's starting point is lost.
PumpReplace ==
  /\ pump.pc = "replace"
  /\ MuFree(cur)
  /\ cur' = cur + 1
  /\ Go("publish")
  /\ UNCHANGED <<logVars, watchVars, wptr, changes, reloads, delivered, uiVars,
                 skipped>>

PumpPublish ==
  /\ pump.pc = "publish"
  /\ wptr' = cur
  /\ Go(IF Tui THEN "notify" ELSE "select")
  /\ UNCHANGED <<logVars, watchVars, cur, changes, reloads, delivered,
                 uiVars, skipped>>

\* Mutant of PumpNotify: the send waits for an event loop that has ended.
PumpNotifyBlocking ==
  /\ pump.pc = "notify"
  /\ ui.pc = "idle"
  /\ Go("select")
  /\ UNCHANGED <<logVars, watchVars, cur, wptr, changes, reloads, delivered, uiVars, skipped>>

\* app.Reload: prog.Send hands the message to an idle event loop, and is a
\* no-op once the program has ended.
PumpNotify ==
  /\ pump.pc = "notify"
  /\ ui.pc \in {"idle", "exited"}
  /\ Go("select")
  /\ UNCHANGED <<logVars, watchVars, cur, wptr, changes, reloads, delivered, uiVars, skipped>>

\* ctx.Done in runWatchTUI: close the watcher and signal pumpDone.
PumpQuit ==
  /\ pump.pc = "select"
  /\ ui.pc = "exited"
  /\ Go("quit")
  /\ UNCHANGED <<logVars, watchVars, cur, wptr, changes, reloads, delivered, uiVars, skipped>>

PumpStopped == PumpLocked("closing", cur, "stopped")

\* Past its select the pump runs straight through, waiting for locks and the UI.
PumpBusy ==
  \/ PumpSetFileMatcher \/ PumpSetDirMatcher
  \/ PumpAdd \/ PumpWatchDir \/ PumpClose \/ PumpReplace
  \/ PumpPublish \/ PumpNotify \/ PumpStopped

Pump == PumpLine \/ PumpReload \/ PumpQuit \/ PumpBusy

\* The debounced signal of configwatch (capacity 1).
ConfigChange ==
  /\ reloads < MaxReloads
  /\ scenario.reloads # {}
  /\ changes = 0
  /\ changes' = 1
  /\ reloads' = reloads + 1
  /\ UNCHANGED <<logVars, watchVars, cur, wptr, pump, delivered, uiVars,
                 skipped>>

-----------------------------------------------------------------------------
(* The TUI's event loop, and the catch-up command, which runs beside it.    *)

\* pollLag calls Lag on the event loop: it waits there for w.mu.
UiLagTick ==
  /\ ui.pc = "idle"
  /\ ui' = [pc |-> "lag", w |-> wptr]
  /\ UNCHANGED <<logVars, watchVars, pumpVars, catchup, skipped>>

\* Mutant of UiLagRead: it waits for a catch-up under way.
UiLagReadAfterCatchUp ==
  /\ ui.pc = "lag"
  /\ MuFree(ui.w)
  /\ catchup.pc = "idle"
  /\ ui' = [pc |-> "idle"]
  /\ UNCHANGED <<logVars, watchVars, pumpVars, catchup, skipped>>

UiLagRead ==
  /\ ui.pc = "lag"
  /\ MuFree(ui.w)
  /\ ui' = [pc |-> "idle"]
  /\ UNCHANGED <<logVars, watchVars, pumpVars, catchup, skipped>>

UiCatchUpKey ==
  /\ scenario.catchup
  /\ ui.pc = "idle"
  /\ catchup.pc = "idle"
  /\ catchup' = [pc |-> "wait", w |-> wptr]
  /\ UNCHANGED <<logVars, watchVars, pumpVars, ui, skipped>>

\* Mutant of CatchUpClosed: SkipToEOF does not look at w.done.
CatchUpNeverClosed == FALSE /\ UNCHANGED vars

\* SkipToEOF on a closed watcher returns a zero stat.
CatchUpClosed ==
  /\ catchup.pc = "wait"
  /\ done[catchup.w]
  /\ catchup' = [pc |-> "result"]
  /\ UNCHANGED <<logVars, watchVars, pumpVars, ui, skipped>>

\* applyCatchUp: note the skip, then poll the lag again.
UiCatchUpResult ==
  /\ ui.pc = "idle"
  /\ catchup.pc = "result"
  /\ catchup' = [pc |-> "idle"]
  /\ ui' = [pc |-> "lag", w |-> wptr]
  /\ UNCHANGED <<logVars, watchVars, pumpVars, skipped>>

UiQuit ==
  /\ ui.pc = "idle"
  /\ ui' = [pc |-> "exited"]
  /\ UNCHANGED <<logVars, watchVars, pumpVars, catchup, skipped>>

Ui == Tui /\ (UiLagTick \/ UiLagRead \/ UiCatchUpKey \/ UiCatchUpResult \/ UiQuit)

-----------------------------------------------------------------------------
Init ==
  /\ scenario \in Scenarios
  /\ written = [f \in Files |-> 0]
  /\ told = [w \in Watchers |-> {}]
  /\ read = [w \in Watchers |->
               [f \in Files |-> IF w = 1 /\ f \notin scenario.late THEN 0 ELSE NotAdded]]
  /\ loop = [w \in Watchers |-> IF w = 1 THEN Selecting ELSE NoLoop]
  /\ events = [w \in Watchers |-> <<>>]
  /\ done = [w \in Watchers |-> FALSE]
  /\ cur = 1
  /\ wptr = 1
  /\ pump = [pc |-> "select", todo |-> {}]
  /\ changes = 0
  /\ reloads = 0
  /\ ui = [pc |-> "idle"]
  /\ catchup = [pc |-> "idle"]
  /\ delivered = <<>>
  /\ skipped = {}

Next ==
  \/ WriteLine
  \/ ConfigChange
  \/ \E w \in Watchers : Loop(w)
  \/ Pump
  \/ Ui
  \/ CatchUpClosed

\* Each goroutine runs when it can.  A select takes a ready case sooner or later
\* (Go picks among the ready ones at random), and prog.Send is served between
\* two messages: that is strong fairness where the other cases come back for
\* ever, which are the poll timer and the lag poll.  The file events and the
\* two-second timer keep the loop ticking.  Log writers, config changes and the
\* user are under no obligation.
Fairness ==
  /\ \A w \in Watchers : WF_vars(LoopWork(w))
  /\ SF_vars(\E w \in Watchers : LoopNewFile(w))
  /\ SF_vars(\E w \in Watchers : LoopServeSkip(w))
  /\ WF_vars(\E w \in Watchers : LoopEnd(w))
  /\ WF_vars(Pump) /\ SF_vars(PumpNotify)
  /\ WF_vars(Tui /\ UiLagRead) /\ SF_vars(Tui /\ UiCatchUpResult)
  /\ WF_vars(CatchUpClosed)

Spec == Init /\ [][Next]_vars /\ Fairness

-----------------------------------------------------------------------------
TypeOK ==
  /\ scenario \in Scenarios
  /\ written \in [Files -> 0 .. scenario.lines]
  /\ told \in [Watchers -> SUBSET Files]
  /\ read \in [Watchers -> [Files -> NotAdded .. scenario.lines]]
  /\ loop \in [Watchers -> [pc : {"none", "select", "poll", "send", "ended"},
                            locked : BOOLEAN, todo : SUBSET Files, queue : Seq(Line)]]
  /\ events \in [Watchers -> Seq(Line)]
  /\ \A w \in Watchers : Len(events[w]) <= EventCap
  /\ done \in [Watchers -> BOOLEAN]
  /\ {cur, wptr} \subseteq Watchers
  /\ pump \in [pc : {"select", "setfile", "setdir", "add", "close", "replace",
                     "publish", "notify", "quit", "closing", "stopped"},
               todo : SUBSET Files]
  /\ changes \in 0 .. 1
  /\ reloads \in 0 .. MaxReloads
  /\ ui.pc \in {"idle", "lag", "exited"}
  /\ catchup.pc \in {"idle", "wait", "result"}
  /\ delivered \in Seq(Line)
  /\ skipped \subseteq Line

Elems(s) == {s[i] : i \in 1 .. Len(s)}

\* The watcher whose tailer of f counts: the one under construction, when there
\* is nothing left to add of f.
Active(f) ==
  IF pump.pc \in {"close", "replace"} \/ (pump.pc = "add" /\ f \notin pump.todo)
  THEN cur + 1 ELSE cur

\* What the tailer of that watcher is past, and that is not on its way.
Lost ==
  {l \in Line :
     LET w == Active(l.file)
     IN /\ l.n <= read[w][l.file]
        /\ l \notin Elems(delivered)
        /\ l \notin Elems(events[w])
        /\ l \notin Elems(loop[w].queue)}

\* What is under way that may cost lines.
Asked ==
  {r \in {"catchup", "rebuild", "quit"} :
     \/ r = "catchup" /\ catchup.pc = "wait"
     \/ r = "rebuild" /\ pump.pc = "add"
     \/ r = "quit" /\ ui.pc = "exited"}

D == INSTANCE Delivery WITH out <- delivered, lost <- Lost, asked <- Asked

\* The whole chain of tailers, channel, pump and rebuilds is a queue of the
\* lines of each file: they reach the buffer once and in order, and one is
\* passed over only by a catch-up that is being served, by a rebuild adding the
\* file to the new watcher, or after the user quit.  A file found while running
\* comes out whole.
ImplementsDelivery == D!Spec

\* What a catch-up reports as skipped is never shown afterwards: lines already
\* read stay out of its count.  It holds of one watcher; while a rebuild is
\* under way the old watcher may skip lines that the new one goes on to read.
SkippedIsGone ==
  reloads = 0 =>
    skipped \intersect Elems(delivered \o events[cur] \o loop[cur].queue) = {}

Gone == ui.pc = "exited"

\* The state in which a reload may deadlock with the loop: the loop waits for
\* room in w.events while it holds w.mu, and the pump, whose reading would make
\* room, is in a reload, in which it takes that lock.
Reloading == pump.pc \in {"setfile", "setdir", "add", "close", "replace", "publish", "notify"}
Jammed ==
  Reloading /\ \E w \in Watchers :
    loop[w].locked /\ loop[w].queue # <<>> /\ Len(events[w]) = EventCap

\* What the pump's watcher will never hear of: a file that came into being after
\* the rebuild had looked for files and before it watched the directory.
Unheard(f) == read[cur][f] = NotAdded /\ f \notin told[cur]

\* Every line written reaches the buffer, or is given up by a catch-up or a
\* watcher rebuild: neither the two ways of ticking, nor the lag poll and the
\* catch-up, which wait for the loop or its lock, nor a reload can leave it
\* stuck, but for a reload that meets a channel filled under the lock.  It is so
\* of files found while running as well, unless nobody heard of them.
LinesArrive == []<>((\A l \in D!Pending : Unheard(l.file)) \/ Gone \/ Jammed)

\* main.go:294-296, on a reload that leaves the watch-set unchanged: "it keeps
\* every tailer running and just refreshes the matchers, so no in-flight lines
\* are lost or duplicated".  So every line written arrives.
NoInFlightLost == []<>(D!Pending = {} \/ Gone)

\* A config change is applied and the pump goes back to delivering lines,
\* unless it meets a channel filled under the lock.
ReloadCompletes == []<>(~ Reloading \/ Jammed)

\* A lag poll on the event loop gets the watcher's lock, so keys are handled.
UiResponds == []<>(ui.pc # "lag" \/ Jammed)

\* After the user quits, in the middle of a reload or not, the pump closes its
\* watcher and main can return (with the same exception).
QuitCompletes == []<>(Gone => pump.pc = "stopped" \/ Jammed)

\* A catch-up is answered, even if its watcher is closed before serving it.
CatchUpAnswered == []<>(catchup.pc # "wait" \/ Gone \/ Jammed)
=============================================================================
