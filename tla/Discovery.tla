------------------------------ MODULE Discovery ------------------------------
(***************************************************************************)
(* Which files are tailed while files and directories appear, disappear    *)
(* and the configuration is reloaded: the start of main.go and             *)
(* applyReloadWatcher (the pump goroutine), Add, WatchDir, handleFsEvent   *)
(* and handleNewDir of internal/watch/watcher.go (the loop goroutine), and *)
(* the kernel, which reports what is created in a directory only while     *)
(* that directory is watched.                                              *)
(*                                                                         *)
(* Only the newest watcher is modelled: during a rebuild the one before    *)
(* goes on until it is closed, but what it finds is lost with it.          *)
(***************************************************************************)
EXTENDS WatchRules

CONSTANTS
  Scenarios,   \* configurations (the first is in use at the start, any may be
               \* reloaded), the tree at the start, the paths that may appear,
               \* whether they may while no watch sees them, and whether
               \* directories may be removed
  MaxReloads,  \* bound on config changes
  MaxRemovals  \* bound on directories removed

ASSUME ScenarioAssumption ==
  \A s \in Scenarios :
    /\ s.tree \subseteq Dirs \union Files /\ Closed(s.tree)
    /\ 1 \in DOMAIN s.configs
    /\ \A i \in DOMAIN s.configs : IsConfig(s.configs[i])

VARIABLES
  scenario,  \* the one of this behaviour
  tree,      \* what exists
  kernel,    \* directories the kernel reports creations in
  watched,   \* w.watched: directories the watcher believes it watches
  tailers,   \* w.tailers and w.groups: path -> group
  opens,     \* tailers opened so far for each path
  asked,     \* history: directories watched for what appears in them, and not
             \* only because a file in them is tailed
  queue,     \* w.fs.Events: paths created
  loop,      \* the loop goroutine
  fileCfg,   \* configuration behind w.matcher
  dirCfg,    \* configuration behind w.dirMatcher
  pump,      \* the pump goroutine
  curSet,    \* the pump's curSet
  unseen,    \* history: paths that appeared where or when nobody looked
  reloads, removals

watcherVars == <<kernel, watched, tailers, opens, asked>>
pumpVars == <<fileCfg, dirCfg, pump, curSet, reloads>>
vars == <<scenario, tree, watcherVars, queue, loop, pumpVars, unseen, removals>>

Idle == [pc |-> "idle"]
Running == [pc |-> "run"]
NoSet == [files |-> {}, dirs |-> {}]

-----------------------------------------------------------------------------
(* The watcher's operations, each under w.mu.                               *)

\* Mutant of Add: a tailer is opened whether or not there is one.
AddAgain(path, group) ==
  IF path \notin tree
  THEN UNCHANGED watcherVars
  ELSE /\ tailers' = [p \in DOMAIN tailers \union {path} |->
                        IF p = path THEN group ELSE tailers[p]]
       /\ opens' = [opens EXCEPT ![path] = @ + 1]
       /\ watched' = watched \union {Parent(path)} /\ UNCHANGED asked
       /\ kernel' = IF Parent(path) \in watched THEN kernel ELSE kernel \union {Parent(path)}

\* A path that has a tailer is left alone; one that is gone is an error.
Add(path, group) ==
  IF path \in DOMAIN tailers \/ path \notin tree
  THEN UNCHANGED watcherVars
  ELSE /\ tailers' = [p \in DOMAIN tailers \union {path} |->
                        IF p = path THEN group ELSE tailers[p]]
       /\ opens' = [opens EXCEPT ![path] = @ + 1]
       /\ watched' = watched \union {Parent(path)} /\ UNCHANGED asked
       /\ kernel' = IF Parent(path) \in watched THEN kernel ELSE kernel \union {Parent(path)}

WatchDir(dir) ==
  /\ IF dir \in watched \/ dir \notin tree
     THEN UNCHANGED <<kernel, watched>>
     ELSE kernel' = kernel \union {dir} /\ watched' = watched \union {dir}
  /\ asked' = asked \union ({dir} \intersect (watched \union tree))
  /\ UNCHANGED <<tailers, opens>>

-----------------------------------------------------------------------------
(* The file system.                                                         *)

\* A watcher is being put together, or new matchers are being put in place, or
\* a walk goes on with the matcher from before a reload, which disagrees.
Early(p) ==
  \/ pump.pc \in {"add", "dirs"} /\ Parent(p) \notin kernel
  \/ pump.pc \in {"compare", "setfile", "setdir"}
  \/ /\ loop.pc \in {"newdir", "walk"} /\ p \in Files
     /\ FileMatcher(loop.cfg, p) # FileMatcher(fileCfg, p)

Create(p) ==
  /\ p \in scenario.paths \ tree
  /\ Parent(p) \in tree \intersect Dirs
  /\ pump.pc \in {"assign", "run"} \/ scenario.early
  /\ tree' = tree \union {p}
  /\ queue' = IF Parent(p) \in kernel THEN Append(queue, p) ELSE queue
  /\ unseen' = IF Early(p) THEN unseen \union {p} ELSE unseen
  /\ UNCHANGED <<scenario, watcherVars, loop, pumpVars, removals>>

\* A directory is removed with all it holds; the kernel's watches go with it.
RemoveDir(d) ==
  /\ scenario.removal
  /\ removals < MaxRemovals
  /\ removals' = removals + 1
  /\ Parent(d) \in tree
  /\ LET gone == {p \in tree : p = d \/ Under(p, d, TRUE)}
     IN /\ d \in gone
        /\ tree' = tree \ gone
        /\ kernel' = kernel \ gone
        /\ unseen' = unseen \union (gone \intersect watched)
  /\ UNCHANGED <<scenario, watched, tailers, opens, asked, queue, loop, pumpVars>>

-----------------------------------------------------------------------------
(* The loop goroutine.                                                      *)

\* handleFsEvent on a Create: a path with a tailer is ticked, a file offered to
\* the file matcher, a directory to the directory matcher (handleNewDir, which
\* also takes the file matcher it is going to use).
LoopEvent ==
  /\ loop = Idle
  /\ queue # <<>>
  /\ queue' = Tail(queue)
  /\ LET p == Head(queue)
         unknown == p \in tree \ DOMAIN tailers
         group == FileMatcher(fileCfg, p)
     IN loop' = CASE unknown /\ p \in Dirs /\ DirMatcher(dirCfg, p) ->
                       [pc |-> "newdir", dir |-> p, cfg |-> fileCfg]
                  [] unknown /\ p \in Files /\ group # NoGroup ->
                       [pc |-> "add", path |-> p, group |-> group]
                  [] OTHER -> Idle
  /\ UNCHANGED <<scenario, tree, watcherVars, pumpVars, unseen, removals>>

LoopAdd ==
  /\ loop.pc = "add"
  /\ Add(loop.path, loop.group)
  /\ loop' = Idle
  /\ UNCHANGED <<scenario, tree, queue, pumpVars, unseen, removals>>

\* Mutant of LoopNewDir: the directory is read before it is watched.
LoopNewDirReadFirst ==
  /\ loop.pc = "newdir"
  /\ WatchDir(loop.dir)
  /\ loop' = [pc |-> "walk", cfg |-> loop.cfg, read |-> {}, visit |-> {}]
  /\ UNCHANGED <<scenario, tree, queue, pumpVars, unseen, removals>>

\* First the directory is watched...
LoopNewDir ==
  /\ loop.pc = "newdir"
  /\ WatchDir(loop.dir)
  /\ loop' = [pc |-> "walk", cfg |-> loop.cfg, read |-> {loop.dir}, visit |-> {}]
  /\ UNCHANGED <<scenario, tree, queue, pumpVars, unseen, removals>>

\* ...then it is walked, for what was there before the watch.  The walk reads a
\* directory...
LoopRead ==
  /\ loop.pc = "walk"
  /\ \E d \in loop.read :
       loop' = [loop EXCEPT !.read = @ \ {d},
                            !.visit = @ \union (Children(d) \intersect tree)]
  /\ UNCHANGED <<scenario, tree, watcherVars, queue, pumpVars, unseen, removals>>

\* ...and visits its entries: a directory is watched, if the matcher accepts it,
\* before it is read in turn; a file is offered to the file matcher.
LoopVisit ==
  /\ loop.pc = "walk"
  /\ \E p \in loop.visit :
       IF p \in Dirs
       THEN /\ IF DirMatcher(dirCfg, p) THEN WatchDir(p) ELSE UNCHANGED watcherVars
            /\ loop' = [loop EXCEPT !.visit = @ \ {p}, !.read = @ \union {p}]
       ELSE /\ IF FileMatcher(loop.cfg, p) # NoGroup
               THEN Add(p, FileMatcher(loop.cfg, p))
               ELSE UNCHANGED watcherVars
            /\ loop' = [loop EXCEPT !.visit = @ \ {p}]
  /\ UNCHANGED <<scenario, tree, queue, pumpVars, unseen, removals>>

LoopWalked ==
  /\ loop.pc = "walk"
  /\ loop.read = {} /\ loop.visit = {}
  /\ loop' = Idle
  /\ UNCHANGED <<scenario, tree, watcherVars, queue, pumpVars, unseen, removals>>

Loop == LoopEvent \/ LoopAdd \/ LoopNewDir \/ LoopRead \/ LoopVisit \/ LoopWalked

-----------------------------------------------------------------------------
(* The pump goroutine.                                                      *)

\* Directories the matcher would accept, which are not watched for what appears
\* in them and already exist, so that their creation will not be reported.
Overlooked(cfg, dirs) == {d \in tree \intersect Dirs : DirMatcher(cfg, d)} \ dirs

\* discover.Assign at the start, where an error ends the program.
PumpAssign ==
  /\ pump.pc = "assign"
  /\ ~ AssignFails(fileCfg, tree)
  /\ pump' = [pc |-> "new", cfg |-> fileCfg, seen |-> tree, set |-> NoSet,
              assigned |-> Assign(fileCfg, tree)]
  /\ UNCHANGED <<scenario, tree, watcherVars, queue, loop, fileCfg, dirCfg, curSet,
                 unseen, reloads, removals>>

\* loadRuntime on a changed file: a root that is missing fails the reload.
PumpReload ==
  /\ pump = Running
  /\ reloads < MaxReloads
  /\ reloads' = reloads + 1
  /\ \E i \in DOMAIN scenario.configs :
       LET cfg == scenario.configs[i]
       IN pump' = IF AssignFails(cfg, tree)
                  THEN Running
                  ELSE [pc |-> "compare", cfg |-> cfg, seen |-> tree,
                        assigned |-> Assign(cfg, tree)]
  /\ UNCHANGED <<scenario, tree, watcherVars, queue, loop, fileCfg, dirCfg, curSet,
                 unseen, removals>>

\* applyReloadWatcher: the same watch-set takes new matchers, another one a new
\* watcher, which may fail to start.
PumpCompare ==
  /\ pump.pc = "compare"
  /\ LET set == WatchSetOf(pump.assigned, pump.cfg, tree)
     IN IF set = curSet
        THEN pump' = [pc |-> "setfile", cfg |-> pump.cfg]
        ELSE \/ pump' = [pc |-> "new", cfg |-> pump.cfg, seen |-> pump.seen,
                         set |-> set, assigned |-> pump.assigned]
             \/ pump' = Running
  /\ UNCHANGED <<scenario, tree, watcherVars, queue, loop, fileCfg, dirCfg, curSet,
                 unseen, reloads, removals>>

PumpSetFileMatcher ==
  /\ pump.pc = "setfile"
  /\ fileCfg' = pump.cfg
  /\ pump' = [pump EXCEPT !.pc = "setdir"]
  /\ UNCHANGED <<scenario, tree, watcherVars, queue, loop, dirCfg, curSet, unseen,
                 reloads, removals>>

PumpSetDirMatcher ==
  /\ pump.pc = "setdir"
  /\ dirCfg' = pump.cfg
  /\ unseen' = unseen \union Overlooked(pump.cfg, asked \intersect kernel)
  /\ pump' = Running
  /\ UNCHANGED <<scenario, tree, watcherVars, queue, loop, fileCfg, curSet, reloads,
                 removals>>

\* buildWatcher: a watcher with nothing to watch yet...
PumpNew ==
  /\ pump.pc = "new"
  /\ fileCfg' = pump.cfg /\ dirCfg' = pump.cfg
  /\ kernel' = {} /\ watched' = {}
  /\ tailers' = <<>> /\ opens' = [f \in Files |-> 0] /\ asked' = {}
  /\ queue' = <<>> /\ loop' = Idle
  /\ unseen' = tree \ pump.seen
  /\ pump' = [pc |-> "add", cfg |-> pump.cfg, assigned |-> pump.assigned,
              todo |-> pump.assigned, set |-> pump.set]
  /\ UNCHANGED <<scenario, tree, curSet, reloads, removals>>

\* ...a tailer for every assignment...
PumpAdd ==
  /\ pump.pc = "add"
  /\ \E a \in pump.todo :
       /\ Add(a.path, a.group)
       /\ pump' = [pump EXCEPT !.todo = @ \ {a}]
  /\ UNCHANGED <<scenario, tree, queue, loop, fileCfg, dirCfg, curSet, unseen,
                 reloads, removals>>

PumpDirs ==
  /\ pump.pc = "add" /\ pump.todo = {}
  /\ LET dirs == DirsToWatch(pump.cfg, tree)
     IN /\ pump' = [pump EXCEPT !.pc = "dirs", !.todo = dirs]
        /\ unseen' = unseen \union Overlooked(pump.cfg, dirs)
  /\ UNCHANGED <<scenario, tree, watcherVars, queue, loop, fileCfg, dirCfg, curSet,
                 reloads, removals>>

\* ...and a watch on every directory.
PumpWatchDir ==
  /\ pump.pc = "dirs"
  /\ \E d \in pump.todo :
       /\ WatchDir(d)
       /\ pump' = [pump EXCEPT !.todo = @ \ {d}]
  /\ UNCHANGED <<scenario, tree, queue, loop, fileCfg, dirCfg, curSet, unseen,
                 reloads, removals>>

\* The set to compare with is taken before a rebuild, but at the start after it.
PumpBuilt ==
  /\ pump.pc = "dirs" /\ pump.todo = {}
  /\ curSet' = IF pump.set # NoSet THEN pump.set
               ELSE WatchSetOf(pump.assigned, pump.cfg, tree)
  /\ pump' = Running
  /\ UNCHANGED <<scenario, tree, watcherVars, queue, loop, fileCfg, dirCfg, unseen,
                 reloads, removals>>

Pump ==
  \/ PumpAssign \/ PumpReload \/ PumpCompare \/ PumpSetFileMatcher
  \/ PumpSetDirMatcher \/ PumpNew \/ PumpAdd \/ PumpDirs \/ PumpWatchDir \/ PumpBuilt

-----------------------------------------------------------------------------
Init ==
  /\ scenario \in Scenarios
  /\ tree = scenario.tree
  /\ kernel = {} /\ watched = {}
  /\ tailers = <<>> /\ opens = [f \in Files |-> 0] /\ asked = {}
  /\ queue = <<>>
  /\ loop = Idle
  /\ fileCfg = scenario.configs[1] /\ dirCfg = scenario.configs[1]
  /\ pump = [pc |-> "assign"]
  /\ curSet = NoSet
  /\ unseen = {}
  /\ reloads = 0 /\ removals = 0

Next ==
  \/ \E p \in Dirs \union Files : Create(p)
  \/ \E d \in Dirs : RemoveDir(d)
  \/ Loop \/ Pump

Spec == Init /\ [][Next]_vars

-----------------------------------------------------------------------------
\* The kernel watches what the watcher believes to be watched and exists; the
\* root <<>>, which always exists, is in no tree.
TypeOK ==
  /\ scenario \in Scenarios
  /\ tree \subseteq Dirs \union Files
  /\ kernel \subseteq watched \intersect (tree \union {<<>>})
  /\ watched \subseteq Dirs \union Files \union {<<>>}
  /\ DOMAIN tailers \subseteq Files
  /\ NoGroup \notin {tailers[f] : f \in DOMAIN tailers}
  /\ opens \in [Files -> Nat]
  /\ asked \subseteq watched
  /\ queue \in Seq(Dirs \union Files)
  /\ loop.pc \in {"idle", "add", "newdir", "walk"}
  /\ pump.pc \in {"assign", "run", "compare", "setfile", "setdir", "new", "add", "dirs"}
  /\ unseen \subseteq Dirs \union Files
  /\ {reloads, removals} \subseteq Nat

Misread(f) == \E k \in 1 .. Len(f) : f[k] \in Dotted

\* Expanding globs and walking directories selects the same files, for the same
\* groups, as matching each path against the patterns: "a file never appears
\* under two groups" (README), whether it was there at the start or came later.
\* Excepted are the paths that pathUnderAny takes to be outside of a root.
MatcherAgreesWithAssign ==
  \A i \in DOMAIN scenario.configs : \A f \in tree \intersect Files :
    LET cfg == scenario.configs[i]
        mine == {a \in Assign(cfg, tree) : a.path = f}
    IN ~ Misread(f) =>
         IF FileMatcher(cfg, f) = NoGroup
         THEN mine = {}
         ELSE mine = {[path |-> f, group |-> FileMatcher(cfg, f)]}

\* A watcher opens a file once, although the walk of a new directory and the
\* event for the file both find it, and so may the pump: its lines would be
\* duplicated.
TailedOnce == \A f \in Files : opens[f] <= 1

\* Nothing is under way that could still find a file.
Settled == pump = Running /\ loop = Idle /\ queue = <<>>

Unseen(p) == \E q \in unseen : p = q \/ Under(p, q, TRUE)

Tailed(f) ==
  FileMatcher(fileCfg, f) # NoGroup =>
    f \in DOMAIN tailers /\ tailers[f] = FileMatcher(fileCfg, f)

\* In a directory that is watched for what appears in it, every file of some
\* group is tailed for that group and every directory the matcher accepts is
\* watched so too, in whatever order things were created, walked and reported,
\* and reloads replaced matchers or watcher.  Excepted are the files pathUnderAny
\* misreads and what `unseen' lists: what appeared while the watcher was put
\* together, its matchers replaced or a walk went on with an old one, had been
\* there all along without a watch, or was removed and came back.
WatchedDirsAreComplete ==
  Settled =>
    \A p \in tree :
      p # <<>> /\ Parent(p) \in asked \intersect kernel /\ ~ Unseen(p) =>
        IF p \in Files THEN Misread(p) \/ Tailed(p)
        ELSE DirMatcher(dirCfg, p) => p \in asked \intersect kernel

\* README.md:918-921: "New subdirectories appearing inside a recursive group
\* (or inside a watched glob expansion) at runtime get an fsnotify watch + a
\* recursive scan, and their files are tailed as they appear."
SubdirFilesAreTailed ==
  Settled => \A f \in tree \intersect Files : ~ Unseen(f) => Tailed(f)

\* README.md:430-431, on a reload: "files that no longer match are dropped".
UnmatchedAreDropped ==
  Settled /\ reloads > 0 =>
    \A f \in tree \intersect DOMAIN tailers : FileMatcher(fileCfg, f) # NoGroup
=============================================================================
