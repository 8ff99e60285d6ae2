# log-listener in TLA+

Specifications of the concurrent core of log-listener (Go): the tailers and the
watcher, the pump and config reload, the shared record ring, the MCP tools and
the terminal UI that read it, the discovery of files, the config watcher, the
SSE hub, and the loading and reloading of the configuration. TLC checks them on
small instances; TLAPS proves nearly all of their safety properties for
every value of their constants, and that the chain from the tailers to the
buffer implements an abstract queue (`Delivery`).

Run a check with `tlc -config X.cfg M` and the proofs with `tlapm M.tla`.
`PROJECT.json` lists, for tools and for reading beside this file, the runs, the
source lines each definition models (`map`), the hazards, the findings and the
theorems.

## 1. The system

```
 log files --> Tailer --> Watcher.loop --events(1024)--> pump --> render --> linebuf.Buffer
                  ^          |  ^ skipReq                 |  \--> Fanout: stdout, file, SSEHub
              rename,     w.mu  |                         |                        |
              truncate         TUI: lag poll, catch-up    | Push (coalescing)     clients
                                ^                         v
 config.yml --> configwatch --changes(1)--> pump      TUI event loop <--reads-- linebuf.Buffer
                                                                     MCP tools <--reads--/
```

| component | state it keeps | operations | what is hard |
|---|---|---|---|
| record ring, `internal/linebuf` | entries, ID index, next seq, change counter, segmentation cache, viewport | Append, Rerender, Get, Range, Context, Recent, Search, Exceptions, BlockOf, SetViewport | readers keep pointers after unlocking while the ring evicts and re-renders; two caches and an index to invalidate |
| MCP tools, `internal/mcp` | none of their own | get_line, get_range, get_context, get_scrollback, search, list_exceptions, get_viewport | results converted after the lock is dropped; counts and IDs come from a client |
| tailer, `internal/watch/tailer.go` | descriptor, inode, position, partial line | Tick, skipToEOF | several system calls per tick, with rotation and truncation between any two |
| watcher, `internal/watch/watcher.go` | tailers, events channel, `mu`, done | loop, Add, WatchDir, setters, Lag, SkipToEOF, Close | blocking sends, one of them under the lock; catch-up served by the loop; closing |
| pump, `main.go` | current watcher, pipeline pointer | deliver, reload in place, rebuild, quit | two watchers for a moment; waits for locks and for the event loop |
| TUI, `internal/tui` | window, display cache, Clear floor, last generation, panel mirror | reconcile, re-render, clear, toggle, reload, catch-up marker | coalesced signals, caches keyed by ID, keys between the steps of a reload |
| TUI navigation, `internal/tui` | anchors of the top row, the hit and the selection, tail mode, filter, folds, focus, visual mode | scrolling, search, filter, folds, block navigation, selection, copying | each key finds its rows again in a window that grows, evicts and re-renders between two keys |
| config watcher, `internal/configwatch` | debounce timer, signal of capacity 1 | arm, fire, close | saves in several steps, missing file, changes during a reload |
| SSE hub, `internal/sink/sse.go` | clients, closed | Emit, register, unregister, Close | channels closed by two parties and sent on by a third; slow clients |
| discovery, `internal/discover`, matchers and watch-set in `main.go`, `handleFsEvent` in the watcher | w.tailers, w.watched, the matchers, the pump's curSet | Assign, dirsToWatch, the file and directory matchers, handleNewDir, applyReloadWatcher | one rule written twice; files that appear during a scan, a walk or a reload |
| configuration, `internal/config`, `internal/keymap`, `loadRuntime` in `main.go` | the runtime: groups, filter, pipeline; the file watched | ParseArgs, Load, Merge, Validate, Resolve of the keymap, NewPipeline, reload | looked up and read in two steps, while an editor or `init` writes; a reload must leave nothing behind of what ran before |
| catalog, `internal/catalog`, `init.go` | none of its own | Resolve, MergeFiles, runInit | identifiers made of joined names must not collide; what is written must load |
| preload, drawing, other sinks, diagnostics, MCP server | see `components` in PROJECT.json | | sequential or pure output, see sections 7 and 8 |

What makes each correct is the list of properties in section 4.

## 2. The modules

| module | models | composed with |
|---|---|---|
| `LineBuf` | the ring | |
| `McpTools` | the MCP handlers and the accessors they use | extends `LineBuf`: the ring's actions are the environment |
| `TuiView` | pump, forwarder and event loop around the view | extends `LineBuf`: its `BufAppend` and `Rerender` are steps of both sides |
| `RingProofs` | theorems about the ring and its readers, `McpTools` and `TuiView` | extends all three |
| `TuiNav` | the keys of the event loop and what they show and copy | takes `TuiView` as "reconciled at once" |
| `TuiNavProofs` | theorems about it | extends `TuiNav` |
| `Tailer` | one tailer and the file system under it | |
| `TailerProofs` | theorems about it | extends `Tailer` |
| `Delivery` | what is promised from the log files to the buffer: the abstract specification | |
| `WatchPump` | loops of successive watchers, pump, event loop, catch-up | takes `Tailer` as "n lines read"; implements `Delivery` |
| `WatchPumpProofs` | that it does, for every value of the constants | extends `WatchPump` |
| `WatchRules` | which files and directories a configuration selects: pure operators | |
| `Discovery` | the watcher's discovery, reloads and the directory tree under it | extends `WatchRules`; takes `Tailer` as "opened" and `WatchPump` as the pump |
| `DiscoveryProofs` | theorems about both | extends `Discovery` |
| `ConfigWatch`, `ConfigWatchProofs` | the config watcher and the pump's load | `WatchPump`'s `ConfigChange` stands for it |
| `ConfigLoad` | from a command line and a file to what runs: pure operators | |
| `Catalog` | the templates of `init` and the merge into a file: pure operators | extends `ConfigLoad` |
| `ConfigReload` | the program, an editor and `init` around the configuration files | extends `Catalog`; takes `ConfigWatch` as "a change is signalled" |
| `ConfigReloadProofs` | that a reload is a restart, that the command line leads, that what `init` writes loads | extends `ConfigReload` |
| `SSEHub`, `SSEHubProofs` | the hub and its stream handlers | |
| `MCMcpTools`, `MCTailer`, `MCDiscovery`, `MCWatchPump`, `MCConfigReload`, `MCTuiView`, `MCTuiNav` | values of structured constants for TLC | each extends the module it is named after |

Definitions named after a mistake (`RerenderInPlace`, `LoopEndLocked`, ...)
and introduced by "Mutant of" are not part of the models: each is a plausible
bug, and substituting it for the definition that follows must make TLC report
the property it is listed with in PROJECT.json.

### How state and actions correspond to the code

**LineBuf.** `heap` holds every `Entry` ever allocated and `entries`, `byID`
hold indexes into it, because the accessors return `[]*Entry`: aliasing is the
point of the copy-on-write in `Rerender`. An ID is `"L"` and the base-36
sequence number, an injection, so it is modelled by the number. `seq`, `gen`,
`blocks` and `dirty` are the fields of the same meaning. The eviction at the
end of `Append` is part of `BufAppend`. `Segment` works on entries: rows after
an entry's first are continuations, so blocks break only between entries.

**McpTools.** `Call` is an accessor under the lock; `Reply` is the conversion
after it, any number of appends and re-renders later; `get_viewport` has two
critical sections. `req.given` is a history variable: the records as they were
at the lookup. Limits are clamped as in the handlers, with the clamps as
constants. `list_exceptions` refreshes the cache, as in the code.

**Tailer.** `Stat`, `StatInode`, `Drain`, `Reopen` / `Rewind`, `ReadMore` are
the system calls of `Tick` in order; what a read returns goes through `TakeByte`
one byte after the other, which cuts it into lines and keeps the rest; `Write`, `Rename`, `Unlink`, `Create`,
`Truncate` are the outside world and may come between any two. Each byte
carries its number in the order written and the file it was written to, so a
returned line tells where it came from. `scenario` is chosen by `Init` and never
changes: the kinds of rotation this log is exposed to and how many files appear
at the path. It lets one run check several mixes of faults, each of which a
property may be conditional on.

**WatchPump.** One loop per watcher ever built. `LoopFsEvent` ticks with `w.mu`
held until its lines are sent (`tickLocked`), `LoopPoll`/`LoopPollFile` without
(`tickAll`, `tickOne`). A file that is late comes into being with its first
line, and the watchers that watch its directory by then are `told`; the loop
opens it at its start and sends all of it with `w.mu` held (`LoopNewFile`, which
is `Add` with `fromStart`). `PumpReload` picks an outcome: configuration refused,
watch-set unchanged, rebuild failed, rebuild; it is unchanged only if nothing
came into being since the watcher was built (`WatchSet`, the pump's `curSet`),
and a rebuild adds at its end what is `Present` then. The pump's later steps
wait for locks (`MuFree`) and for the event loop (`PumpNotify`). `skipped` is
history: what a catch-up skipped. `scenario`, again fixed by `Init`, says whether
the user may catch up, which files are late, which outcomes a reload can have
and how many lines are written.

**Delivery** has four variables: what was written, what came `out`, what was
`lost`, and what the user has `asked` for that may lose lines. A line comes out
if it is the oldest pending one of its file, and lines are given up only while
something was asked for. `WatchPump` implements it with `out <- delivered` and
two mappings that are computed from its state. `Lost` are the lines that the
tailer that counts is past and that are neither delivered nor on their way
through the loop and the channel; the tailer that counts (`Active`) is the one
of the watcher under construction as soon as that has added the file, or has
none to add, for from there on what the old one reads is discarded. `Asked` holds while a catch-up
waits to be served, while the pump adds files to a new watcher, and once the
user has quit. So a line that is dropped in a state in which nothing of this
is under way, or that comes out twice or late, is a step `Delivery` has not got.

**WatchRules.** A path is a sequence of names, a tree the set of paths that
exist, and a segment of a glob the set of names it matches, so that
`path.Match` is membership. `Assign`, `ListCandidates`, `DirsToWatch` and
`WatchSetOf` look at a tree; `FileMatcher` and `DirMatcher` at one path.
`PathUnder` is `pathUnderAny`, which takes a path relative to a root that begins
with two dots to lead out of it, also when the name merely begins so (`Dotted`).

**Discovery.** `Create` and `RemoveDir` are the outside world; the kernel reports
what is created in a directory of `kernel`. The loop's steps are the event, the
`Add`, and, for a directory, the watch, the reading of each directory and the
visit of each entry of the walk; the pump's are the assignment, each `Add`,
`dirsToWatch`, each watch, the comparison of watch-sets and the two setters.
`watched` may differ from `kernel`: `w.watched` is never cleaned. Two variables
are history: `asked`, the directories that were given to `WatchDir` and not only
watched because `Add` opened a file in them, and `unseen`, what appeared while
nobody could see it, which the code does not promise to find. `scenario` again
is fixed by `Init`.

**TuiView.** The event loop handles one message or key to its end, so a handler
is a step. The pump's render, append and push are three steps, its reload four.
`sig` and `forwarder` are `App.sig` and the goroutine that turns a signal into
a message. `Outcome` is what the pipeline makes of a line, by version of the
configuration and state of the renderer.

**TuiNav.** `lines` are the rows of the window; a row keeps of its text only
whether it continues a block, marks an exception and matches the term. An
anchor is a record and an offset in it, as in the code; records and rows are
numbered from 1, so that the code's -1 is 0. A handler is a step. `searching`
stands for a matcher that is set, typing a term and Enter for one step,
`CommitSearch`; `ExitVisual` also forgets the cursor, which nothing reads before
`EnterVisual` sets it. `toggles` bounds what changes every row. Word wrap is
off, so that a row is one row of the terminal, and overlays are closed.
`FitsAssumption` says that no entry has more rows than the window (section 4).

**ConfigWatch.** Editors save in several steps, with the file empty, invalid or
absent in between (`Kinds`); `events` counts the kernel's events. `LoopTimer` is
the debounce firing; it signals only if the file exists, and not twice. A
reload is three steps, taking the signal, reading the file and applying what was
read, because the file may change between any two. `since` is the version the
file had when the watch on it began.

**ConfigLoad.** What may fail returns a set of one result or of none, in the
order of the code: `ParseArgs` folds the flags into a configuration, `Merge`
adds the document to it (what is on the command line wins, disabled entries
are left out before they are looked at), `Validate`, `KeymapResolves` and
`NewPipeline` accept or refuse. A path or an identifier is a sequence of words,
and `Bad` stands for any text that does not compile. **Catalog** keeps of names
the words they are joined of, because that is where identifiers collide:
`GroupID` counts up until one is free.

**ConfigReload.** `disk` has the file that `--config` names and the two that are
looked for. A reload is taking the signal, looking the file up and reading it,
three steps between which `Edit`, `InitCreate` and `InitWrite` may change any
file (`os.WriteFile` truncates first). `running` is the runtime loaded last: its
pipeline renders, and the panels show it. `watching` is the one whose groups the
watcher follows. They are the same unless a new watcher was needed and could not be
built, as `half` records: the pipeline has been swapped by then and stays. Whether
one is needed depends on the files there are, so `Apply` leaves the outcome
open. `place` is the file that is watched, which a reload does not change even when
it reads another one; `latest` is the file read last, `touched` records that it has
changed since, and `changed` that the watched file has since its watch began.
`dropUnmatched` is taken from the configuration at the start and kept, as in the
code.

**SSEHub.** Each section under `h.mu` is a step; `Emit` has two. `panicked`
records a send on, or a second close of, a closed channel.

## 3. Fairness

Only goroutines of the program are fair: they run when they can, a `select`
takes a ready case sooner or later (Go picks at random among the ready ones),
`sync.Mutex` starves nobody, and timers fire. Writers, rotation, config edits,
keys, clients and quitting are never assumed to happen. In `SSEHub` a write to
a client that is `Stuck` may block for ever, since the server sets no write
deadline.

In `WatchPump` every goroutine has weak fairness, the pump as a whole: its
cases are taken in any order, and a run of lines is bounded by `lines`. Strong
fairness is assumed of four actions only, each of which something else can
disable and enable again for ever: `LoopServeSkip` and `LoopNewFile`, `select`
cases that are ready at every return of the loop, which the poll timer also
feeds (stated of all watchers together, as a request is made to one of them and
a file is new to each once); `PumpNotify` and `UiCatchUpResult`, sends to
the event loop, which receives between two lag polls. In `TuiView` and
`ConfigWatch` weak fairness is enough, as nothing that waits can be disabled
but by being served.

## 4. What each run checks

Runs expected to pass:

| run (cfg) | question | bounds and why they are enough |
|---|---|---|
| mcp (`McpTools`) | the ring: contiguity and block cache; the tools: coherence of replies, ranges, neighbourhoods, pages, search, viewport | capacity 2 and three appends: every fill, one eviction, and a re-render before, between or after; a rendering of each kind segmentation tells apart; two source lines, symmetric; counts from -1 to beyond the clamps |
| tail (`Tailer`) | bytes once and in order, lines not joined, nothing of the open file lost, the tailer ends at the end of the file | three bytes, so that a line, its newline and a later byte fall on both sides of a rotation; three inode numbers; scenarios: rename and removal with three files; the same with reused numbers and a catch-up; rename, removal, truncation and catch-up with two files |
| pump (`WatchPump`) | it implements `Delivery`; what a catch-up skips stays skipped; lines, lag polls, catch-ups, reloads and quitting come to an end | one file, a channel of one, which is full while the lock is held as soon as a tick returns two lines; scenarios: three lines and a catch-up without reloads; two lines and a reload of every outcome; one line, a catch-up and a rebuild, so that the watcher closes before, during and after the request; a late file of two lines, which its watcher finds with one or both written, with a reload before, while or after it appears, or with a catch-up. At most one reload: two watchers at a time are all the code ever has |
| view (`TuiView`) | the view converges, nothing stays hidden, order and Clear floor | capacity 2, window of 3 rows with entries of 1 and 2, so whole entries are dropped at the head; two keys, one reload, three appends |
| nav (`TuiNav`) | the screen keeps still while browsing and on leaving the tail; a key shows the row it moves to; the selection stays within the rows; the two copy keys agree | three lines, of one row or of two when rendered, in a window of three rows: an arrival can evict nothing, one record or two, and a toggle shrinks or grows a record under an anchor; a screen of two, so that there are rows above and below it; a match, a continuation and an exception on different rows; two toggles of any kind (renderer, group, fold, clear, reload) |
| disc (`Discovery`) | both ways of discovering agree, no file is opened twice, watched directories are complete | a root and two levels below it, with files on each: a directory that comes with its contents, level by level, or is found by a walk; six scenarios: overlapping groups and a reload to a root that may be missing; a glob of two levels; a reload of the filter alone; a reload to another group for the same files while a directory is walked; a directory that is watched only because a file in it is tailed; removal, with a name that begins with two dots. One reload, one removal |
| load (`ConfigReload`) | a reload is a restart on the file it reads, whether or not that is the watched one, and in which parts without a new watcher; the command line's groups lead and identifiers are unique; what `init` writes keeps loading | two edits, so that a change falls before, in and after the reload of another, or a second file comes and goes; an `init` beside them, with or without merging, for names whose identifiers collide twice; three command lines (none, one that shadows groups and settings, an explicit file); four disks (local, home, both, explicit) of which some do not start; documents that load, that are refused, and that a reload accepts but a start would not |
| config (`ConfigWatch`) | no change lost, no spurious reload | five steps of saving, two events of siblings: a save may fall before, in and after a reload caused by another |
| sse (`SSEHub`) | no panic, order and independence of clients, streams end | two clients, one that may stick, channel of one, three events |

`CHECK_DEADLOCK FALSE` is set in every cfg: the models end when their bounds on
lines, edits, keys and requests are used up, or when the program has exited.

The liveness properties of `pump` exclude one state, `Jammed`, in which the code
does block for ever; run pump_full shows that it is reached. `LinesArrive` also
excludes files that the watcher never hears of (`Unheard`): they came into being
after a rebuild had looked for files and before it watched their directory.

Runs expected to be violated, each a disagreement between the code and what it
says of itself (quoted in `findings`):

| run | what TLC shows |
|---|---|
| tail_reuse | removed, then recreated with the same inode number: never opened again |
| pump_full | channel full while the loop holds `w.mu`, reload waits for `w.mu`: both wait for ever |
| view_stale | rendered before, appended after a toggle: stays in the old rendering |

More disagreements were met while modelling. Eleven of them are stated as
properties that the code does not have and that no run checks; TLC shows each
when it takes the place of the properties in the cfg named:

- `RangeToleratesOrder` (`McpTools.cfg`): `Range` (`BufRange`) opens the side of the span
  whose ID it does not know before it swaps the bounds
  (`internal/linebuf/linebuf.go:186`), so that, asked for a newer and an older,
  evicted ID, it returns the wrong side of the ring, against "tolerant of
  argument order" in `internal/linebuf/linebuf.go:175-177`.
- `MarkerReadable` (`TuiView.cfg`): a re-render derives the rows of every
  entry from its raw text, which the catch-up marker does not have
  (`internal/linebuf/linebuf.go:422`), against `internal/tui/lag.go:61-62`.
- `MirrorAgrees` (`TuiView.cfg`): the panel state travels in the reload's
  message (`main.go:609`), which a toggle can overtake, against
  `internal/tui/view.go:134-135`.
- `UnmatchedAreDropped` (`Discovery.cfg`): a file discovered while running is not
  in `curSet`, with which a reload compares, so that it stays tailed after a
  reload that no longer selects it (`main.go:303`), against `README.md:430-431`.
- `SubdirFilesAreTailed` (`Discovery.cfg` with `Scenarios <- MCSubdir`): of a glob,
  the root alone is watched and not the recursive group's subdirectories that
  appear below its matches (`main.go:685`), against `README.md:918-920`.
- `LastGoodRuns` (`ConfigReload.cfg`): a reload stores the new pipeline and renders
  the buffer with it before it builds the watcher that it needs, and keeps the old
  watcher if that fails (`main.go:299-312`); the TUI is then sent the new panels
  (`main.go:609-610`). So the new rules run, and the new groups are shown, over
  files followed by the old groups, until a later reload succeeds: neither the new
  configuration nor the last good one, against "leaves the last-good config
  running" in `main.go:460-463`, and `main.go:598-599`.
- `RunsWatchedFile` (`ConfigReload.cfg`): a reload looks for the file anew
  (`internal/config/yaml.go:164`), so that a `./log-listener.yml` that appears is
  loaded instead of the `~/.log-listener.yml` that is watched, and is not watched
  itself, against `README.md:425-427`.
- `RunsWhatWouldStart` (`ConfigReload.cfg`): key bindings are resolved at the start
  only (`main.go:75`), so that a reload takes a file with which the program would
  not start, against `README.md:441-442`.
- `InitRuns` (`ConfigReload.cfg`): of a source with no location that exists, the
  first is written all the same (`internal/catalog/resolve.go:183`), and a
  directory that is not there ends the start, against `README.md:107-109`.
- `NextOrPrompt` (`TuiNav.cfg`): `findHit` moves a start beyond the end back to
  the last row (`internal/tui/search.go:207`), so that from a hit on the last
  row, next finds it again and never offers to wrap, against
  `internal/tui/search.go:78-79`.
- `FocusIsNavigated` (`TuiNav.cfg` with `Scrollback = 5`, `MaxToggles = 0`): the
  focused block is the one at the top row, so that a search that moves the
  top row moves the focus, against `internal/tui/focusbar.go:14-15`.

The others are outside of what the properties named here claim:

- Clear when the only record is the first: `clearedSeq` becomes 0, which
  `reconcile` reads as "no floor" (`internal/tui/reconcile.go:83`), so nothing
  disappears, against `internal/tui/update.go:118-119` (`ViewInOrder`).
- A line that the pipeline drops after a toggle keeps its old rows
  (`internal/linebuf/linebuf.go:423`), against `internal/tui/app.go:444-447`
  (`Fresh`; `MCOutcome` drops no line, so that `RingIsCurrent` is not about this).
- A file truncated between the stat and the drain that regrows past the read
  position is read twice (`internal/watch/tailer.go:93`), against the
  "exactly once" of `docs/superpowers/specs/` (`ReadOnceInOrder`).
- A change of the configuration between its first load and the start of the
  watch is not applied until the next change (`main.go:524`), against
  `README.md:425-427` (`Covered`, `EditIsApplied`, by way of `since`).
- An entry with more rows than the scrollback leaves the window empty
  (`internal/tui/reconcile.go:95`), also in visual mode, against
  `internal/tui/visual.go:106-108` (`SelectionInRange`, by way of `FitsAssumption`).
- With the filter on, leaving tail mode moves the screen, as the new top row is
  counted among the rows that are enabled and not those that match
  (`internal/tui/viewport.go:124`), against `internal/tui/viewport.go:109-113`
  (`UnstickKeepsScreen`).
- A directory that is removed and created again is not watched any more, as
  `WatchDir` still finds it in `w.watched` (`internal/watch/watcher.go:180`):
  its new files are not found (`WatchedDirsAreComplete`, by way of `unseen`).
- The walk of a new directory goes on with the file matcher it began with
  (`internal/watch/watcher.go:385`, used at 416): a file that appears in it after
  a reload has replaced the matchers is tailed for the group of the old
  configuration, or not at all, against `README.md:430-431`
  (`WatchedDirsAreComplete`, by way of `unseen`; the proof of it found this).
- A directory that nothing asks to watch, but in which a file is tailed, is
  watched from then on as the directory of that file (`Add`,
  `internal/watch/watcher.go:156`): what comes into it later is found, what was
  in it already is not looked for (`WatchedDirsAreComplete`, by way of `asked`).
- A directory that exists at the start and matches a glob in part, such as
  `/tmp/acp-logs-1` without its `sub`, is not watched, and what is created in it
  later is not found (`main.go:810`), against `README.md:149-162`; nor is a
  file created between the assignment and the watch (`unseen`).
- A file discovered while running is not in the set a reload compares with, so
  a reload that only changes renderers rebuilds the watcher, against
  `README.md:437-440`: the same line of code as `UnmatchedAreDropped`. In
  `WatchPump` such a reload is a rebuild (`WatchSet`), with what it may lose.
- A file whose first name below a literal root begins with two dots is found at
  the start, and ignored when it appears later (`main.go:756`;
  `MatcherAgreesWithAssign`, by way of `Misread`).
- A file group's pattern in which every special character is escaped, such as
  `a\*.log`, is no pattern to `HasMeta` (`internal/discover/pattern.go:15`), so
  that a file that appears is compared with it as it is written, backslash
  included (`main.go:637-643`), while at the start `filepath.Glob` takes the escape
  away (`internal/discover/discover.go:152`): `a*.log` is found at the start and
  not when it appears, against the "literal exact match" of `main.go:631`.
  `Discovery` knows a pattern by the set of names it matches, so that
  `MatcherAgreesWithAssign` is about patterns that both read alike.
- The other way round, the code is better than is said of it: by
  `main.go:272-275`, `main.go:469-472` and `CHANGELOG.md:26-28`, a rebuild may
  re-emit lines, since two watchers run over the same files for a moment. But what
  the old watcher has read and the pump not taken is dropped with its channel, and
  the new one starts at the end of each file, or at the start of one it finds by
  itself, from which the old one has delivered nothing: no line comes twice,
  though some may not come (`ImplementsDelivery`, `PumpIsAQueue`).

## 5. What is proved

For every value of the constants, under the assumptions named in the modules.

**RingProofs, the ring.** The inductive invariant is `IInv == TypeOK /\ RingContiguous
/\ IndexAgrees`. Contiguity is what makes it inductive: `Append` removes from
the index the ID of the oldest entry, and only because sequence numbers in the
ring are consecutive is that ID in no other position, so that index and ring
still agree. `IndexShape` restates the index arithmetically; `AppendKeepsIndex`
and `RerenderStep` are the two cases. From `IInv` follow `IdentityIsStable`
(an evicted ID is below the ring for ever), while `EntriesAreImmutable` needs
only the types. `GenIsEnough` says that the change counter moves with every
change of ring or index, on which the view's early return relies. `CacheInv`
adds that a clean cache equals `Segment`; `BlocksAreCurrent` then needs that
`Segment` partitions the ring (`LeastElement`, `EndOfBlock`, `BlocksApart`,
`BlocksCover`).

Induction over data is done on recursive functions and not with the library's
induction theorems: what a function of the first n elements has, it has for all n
because there is no least n for which it fails (`LeastElement`, `UpTo`).
`FilterPicks` says so what `Filter`, the model of every loop that collects entries,
returns: positions that satisfy the test, in order, all of them.

**RingProofs, its readers.** Every step of the handlers, the pump and the view is a step
of the ring or leaves it alone, so `McpRefinesRing == McpSpec => Spec`: all of
the above holds while the tools run. `McpInv` adds what a handler holds: the
objects at the positions it was given, which are unchanged because no step
writes to an object that was handed out, and a viewport that names two records
that were there together. `AccessorsAreAlwaysExact` is about the operators alone
and needs nothing but the ring's invariant, contiguity above all: it is what
turns the arithmetic of `BufRange`, `Context` and `Recent` into records.

Of the view, `ViewInv == IInv /\ ProcessesOK /\ ShownOK /\ Current /\
ReconcilePending`. `Current` is the part that is not in a property: between
reloads, the display cache, which is keyed by ID and never looked up by what it
was made of, agrees with the ring on every record in it (`KnowsWell`), and a view
that has seen the last change is what `View` makes of the ring without a cache.
An arrival keeps it, because the cache knows no ID that is still to come
(`ArrivalKeepsCache`); a toggle keeps it, because it forgets the cache in the
step in which it re-renders; a reload breaks it from its re-rendering to the
handling of its message, during which the cache is not to be trusted. A view
built with a cache that agrees is the one built without (`ViewIgnoresTrueCache`),
which gives `ViewIsNeverStale`, the safety half of `ViewConverges`.
`ViewIsInOrder` needs what `Fit` keeps, a tail of the entries that fits
(`FitIsATail`, `RowsAreCounted`).

**TuiNavProofs.** The rows of the window are a stretch of the rows of all records
(`Stream`) that begins where a record begins: `Dropped` looks for the least head
to drop, and `StreamGrows`, that every record adds rows, makes the search end
(`DroppedIs`). From that follows `Layout`: the rows of a record are consecutive and
numbered in order, so that a record and an offset name one row, and `RowForAnchor`
of an anchor finds it or the nearest one that is left (`RowOfAnchor`, `AnchorOfRow`).
`NavInv` is what is inductive. `TypeOK` is not, because the window is that of the
Clear floor: were the floor not below the last line, nothing would be left to look
for (`FloorOK`). To that `NavInv` adds that an anchor is none or has a record that
has arrived and an offset from 1 on (`AnchorsOf`), as an offset of 0 would resolve
to the row before the record's first; and that visual mode has rows, its cursor being
the first row when its record has left, and does not follow the tail, which holds
because no key that clears or scrolls is taken in visual mode. `SelectionInRange` and
`CopyAgrees` then need only where anchors resolve.

The action properties are about the numbers of rows shown, of which `FirstN`, `LastN`
and `Nth` keep count over rows that are not hidden. `UnstickingIsStill` is that the
first `ContentHeight` rows from the first of the last `ContentHeight` are the last
(`UnstickingStays`). `MovesAreShown` needs that fewer than `ContentHeight` shown rows
lie between the top that is chosen and the row that is moved to (`RanksBetween`,
`FewBetween`), and that storing the top as an anchor and resolving it again gives the
same row. `ArrivalsAreStill` is `ArrivalShifts`: with a record more, the new window
is the old one without its first d rows and with the rows of the new record at the
end, so that every anchor that still has its record resolves to d rows higher up
(`AnchoredRowShifts`), and so does everything on the screen (`ScreenShifts`).
`FitsAssumption` is used once, for a window that is never empty because of one record
(`RecordIs`).

**TailerProofs.** `TailInv == TypeOK /\ DiskInv /\ RotatesAway`, and, for a log that
is not truncated, `ReadInv`. What makes reading once and in order inductive is a
fact about the disk: the file at the path is the youngest, so that everything in
it was written after everything read (`BehindThePath`), and opening it never goes
back. Two things could break that, opening again the file that is open, and
rewinding. The first is excluded because a rotation is only seen when the path
shows another inode, and a number is not given out again while the tailer has
the file open (`RotatesAway`, for any number of inodes); the second because a
file that is not truncated is never shorter than what was read of it
(`NeverRewinds`). `LinesAreNeverJoined` follows from the same invariant: a rest
that is kept between two reads is the end of what was read of the open file, and
is given up or finished when another is opened.

**DiscoveryProofs.** `UnderIsPrefix` and `LiteralMatches` reduce walks to prefixes
of a path; `ListedBelong` then shows that a group lists, of a tree in which
every path has its directories (`Closed`), exactly what its patterns match, and
`MatchersAgree` that first-match assignment and first-match claim give the same
group. It needs patterns that are not empty and groups that are called
something (`IsConfig`), and excepts `Misread` paths. `TreeInv` says that every
step keeps the tree closed, which makes it an invariant of `Discovery`.
`OpenedOnce` counts the openings of each file against the tailers. The types
need `TypeInv`: what the loop and the pump hold in each of their states
(`LoopShape`, `PumpShape`), and that a path the kernel watches is in the tree.

`WatchedDirsComplete` is proved from `DiscoveryInv`, which adds four parts.
`Complete`: whatever is noticed in a directory that is watched, or while a
watcher is put together, is before the loop (`Pending`: an event, a step of
handling it, or a directory that the walk is yet to read or visit), reached
already, or on the pump's list (`ToDo`). `KnownDirs`: a directory that
`w.watched` holds is in the kernel or was removed, for otherwise `WatchDir` would
pass over it. `RightGroups`: the group a file has, or is about to get, is that of
the matcher in use, although the matcher may be replaced in between. `PumpKnows`
is why it may: matchers are replaced only where the assignments are the same as
those in use, and by `MatchersAgree` these say what either matcher does. The
watch before the walk is used once, in `LoopKeepsComplete`: what is in a directory
that has just been watched is under one that the walk has yet to read.

**WatchPumpProofs.** `PumpInv == TypeOK /\ Flow /\ Front /\ Hands` says where the
lines are. `Flow`: what a watcher has on its way is in order and not past what its
tailers have read. `Front`: what is delivered is in order and before whatever is
on its way from the watcher that counts for the file. `Hands`: only the next
watcher can be under construction; what it is yet to add is there, and it has
neither read of it nor been told of it; and only those before the current one,
or the last after the user quit, are closed. `Front` is the part that a rebuild
could break, and holds because adding a file makes the new watcher the one that
counts in the same step, and a file that is not there to be added has no lines
yet (`Still`). A file found while running is read from its start in one tick,
which is a tick like any other once a tailer that is not open counts as one that
has read nothing (`Pos`, `UnreadTypes`). Each kind of
step then maps to one of `Delivery` or to a stutter (`Moves`, and one lemma per
action), which gives `PumpIsAQueue == Spec => D!Spec`; that lines come once and in
order follows within the same invariant. `PumpSkippedIsGone` uses the refinement:
what a catch-up skips is lost (`SkipsAreLosses`), no step of `Delivery` takes
anything out of `lost`, and what is lost is neither delivered nor on its way.

**ConfigReloadProofs.** `ReloadInv == Started /\ ReloadIsRestart`. The property
is nearly inductive. As long as the file read last has not changed, no step but a
reload disturbs it, and a reload establishes it, for the file it reads and whether
or not a watcher is built. When it changes, it is either not the watched one, and
then nothing more is said; or the signal is raised; or it is gone, and nothing
loads from it. `Started` is needed for the cases that would escape: nothing is
reloaded before the watched file has changed; and a file named on the command line
is the one watched and read last, so that a reload that finds it gone, and leaves
what runs, leaves nothing to compare. Nothing is assumed of what loading does, so
that this holds of any way of merging and validating that looks at nothing but the
file and the arguments. What it does not say, since it is not so, is that what runs
is one configuration (`LastGoodRuns`, section 4), that a file found in place of the
watched one is followed (`RunsWatchedFile`), and that `drop_unmatched` is reloaded.

The other two are about what loading and the catalog do, and these are folds
over sequences of flags, entries, names and sources. A theorem cannot take an
operator as a parameter, so `Step(loop, p, x, y)` names the loops, one arm for
each, and `Good(loop, p, n, x)` what is so after n steps; `FoldKeeps` is the one
induction, and each fold of the model is shown to be an `IsFoldOf` of its loop.
`Whole` is the inductive invariant of the protocol: the files, those that `init`
is about to write included, are documents, absent or broken, and what is shown and
what is followed have the groups of the command line first (`Leads`). That it keeps comes down to
`LoadLeads`: flags give a configuration in which no two groups are called the
same (`ParseArgsIs`), a file adds only what is not called like one of them
(`FreshIs`, `Added`), and behind them (`MergeLeads`); and a reload either
replaces the groups that are followed by ones that do or leaves them
(`AppliedLeads`). For `InitKeepsLoading`,
`LoadsIs` says what it takes for a file to load, entry by entry. What the
catalog makes has it (`ResolveIs`, `GeneratedLoads`): identifiers are apart from
each other because each is looked for among those given out so far, of which
there are fewer than numbers to try (`OneIsFree`), and from `default` because
they are not it and not empty. What is merged keeps what the file had
(`NewOnlyKeeps`), and loads if it did (`MergedLoads`), also where the file has
entries without an identifier.

These two assume of the constants what the decoder gives (sequences, documents
that have every section) and, in `TemplatesLoad`, of the templates: that a
renderer has no matcher, for which a catalog has no field; and that expressions
compile and no app is called `default` or nothing, which is so of
`catalog.yml` and is not checked of a catalog that is fetched
(`internal/catalog/schema.go:101`). With an app called `default`, a file could
have two groups of that identifier. `WhatInitWritesLoads` has one hypothesis,
`NumeralsDiffer`: different numbers have different numerals. TLC's `ToString`
has it, as `fmt.Sprintf` does, but the provers know nothing of `ToString`.

**ConfigWatchProofs.** `WatchInv == TypeOK /\ Covered` is inductive: the
witnesses of `Covered` (an event, the timer, the signal, the reload) are passed
on one to the next, and an edit always adds an event. `NoExtraReloads` counts
the same witnesses: each is paid for by an edit.

**SSEHubProofs.** `HubInv` says that a registered client's channel is open and
its handler is between register and unregister, and that a closed hub has no
clients; then no step can send on, or close again, a closed channel.
`HubTypeCorrect` needs one more fact, `EmitsEvents`: what is being emitted is the
number of an event. `OrderInv` is what makes the order inductive: nothing in a
stream is ahead of the last event sent (`NotAhead`), and a registered client has
got or missed every event since (`Complete`). Both are said of `Sent`, the last
event whose `Emit` has reached the channels: a client that registers between the
two halves of an `Emit` may get its event, but is not owed it.

Index agreement, immutability and identity in the ring, the freshness of the view
at every moment (`ViewIsFresh`), the order in which `WatchPump` delivers, and the
types of `WatchPump`, of discovery, of the config watcher and of the hub, are
proved and therefore in no run.

## 6. Only model-checked

All liveness: the prover has no fairness reasoning over `ENABLED`.

## 7. Not modelled, and why

The text of lines, regular expressions, HTTP, drawing and the clipboard
are data or I/O; word wrap, panning and overlays change how the rows of
`TuiNav` are laid out. So are symbolic links, file times and errors of the kernel's
watches in discovery. Read errors of a tailer, `Close` while a tick reads, bytes
written to a renamed file after the drain, two rotations between two ticks, and
a truncation that regrows past the read position between two ticks (which a
size cannot show) are outside what the properties claim.

Of the configuration, the syntax of YAML, the parsing of times, and the flags
and settings that choose the mode or the appearance (`--once`, `-o`, `--mcp`,
`--debug-log`, widths) are left; of the catalog, the download of newer templates
and the expansion of variables in paths. What a pipeline makes of a line is a
constant of `TuiView`. `WatchPump` is the pump of the TUI (`runWatchTUI`); that of
`runWatch` has no event loop to wait for, and when it is told to end goes on taking
lines for 200 ms (`main.go:473-486`), which is left. The other sinks, the history preload, the text search and
the diagnostic ring are sequential, touched by one goroutine or under one lock,
and have no protocol of their own. `components` gives the reason for every part.

## 8. Plan

1. (done) ring, MCP tools, tailer, watcher and pump, discovery, view, navigation, config watcher, SSE hub, loading and reloading the configuration; `WatchPump` as an implementation of `Delivery`; proofs about the ring and its readers, the tailer, discovery, delivery, navigation, loading and reloading, the config watcher and the hub.
2. A tailer that is closed while it reads in `Tailer`.
3. The toggles and muting rules of the pipeline, the history preload; word wrap in `TuiNav`.
