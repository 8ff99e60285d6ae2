---------------------------- MODULE ConfigReload ----------------------------
(***************************************************************************)
(* The configuration of a running program (main.go run, loadRuntime and    *)
(* the reload case of the pump) while its file is edited, removed and put  *)
(* back, another file of higher precedence comes and goes, and             *)
(* `log-listener init' writes it (init.go runInit).                        *)
(*                                                                         *)
(* The watcher of the file is what ConfigWatch shows it to be: a change    *)
(* that leaves a file there is followed by a reload that begins after it.  *)
(* A reload looks for the file anew, and finding and reading it are two    *)
(* steps.                                                                  *)
(***************************************************************************)
EXTENDS Catalog

CONSTANTS
  CommandLines, \* what the program may be started with
  Disks,        \* what the files may be when it is started
  Documents,    \* what an editor may leave in a file
  Broken,       \* a file that is not YAML, or empty of sense
  Absent,       \* no file
  Templates,    \* the catalog
  Selections,   \* what `init' may be asked for
  MaxEdits      \* bound on the edits

Files == {"explicit", "local", "home"}

ASSUME CommandLinesAreWhole == \A line \in CommandLines : IsSequence(line)
ASSUME DisksAreWhole == \A d \in Disks : d = [p \in Files |-> d[p]]
ASSUME DocumentsAreWhole ==
  \A doc \in (Documents \union {d[p] : d \in Disks, p \in Files}) \ {Broken, Absent} :
    IsDocument(doc)
ASSUME NotDocuments == ~ IsDocument(Broken) /\ ~ IsDocument(Absent)
ASSUME SelectionsAreWhole == \A names \in Selections : IsSequence(names)
ASSUME TemplatesAreWhole ==
  /\ \A app \in DOMAIN Templates.apps :
       /\ IsSequence(Templates.apps[app].use)
       /\ IsSequence(Templates.apps[app].sources)
       /\ IsSequence(Templates.apps[app].renderers)
  /\ \A b \in DOMAIN Templates.bundles : IsSequence(Templates.bundles[b])
  /\ \A f \in DOMAIN Templates.fragments : IsSequence(Templates.fragments[f])

\* A catalog has no place for the matcher of a renderer (schema.go Renderer).  It is
\* so of catalog.yml, and not checked of a catalog that is fetched, that every
\* expression compiles, and that no app is called as a group without an identifier is.
SourcesOf(cat) ==
  UNION ({ToSet(cat.apps[app].sources) : app \in DOMAIN cat.apps}
         \union {ToSet(cat.fragments[f]) : f \in DOMAIN cat.fragments})
ASSUME TemplatesLoad ==
  /\ \A app \in DOMAIN Templates.apps : IsSequence(app) /\ app \notin {<<>>, Default}
  /\ \A s \in SourcesOf(Templates) : IsSequence(s.id) /\ ~ BadFilter(s.filter)
  /\ \A r \in DOMAIN Templates.renderers :
       LET rule == Templates.renderers[r]
       IN rule.matcher = "" /\ CompileRenderer(rule, <<>>)

VARIABLES
  args,      \* the command line
  disk,      \* the files --config names, ./log-listener.yml and ~/.log-listener.yml
  pump,      \* run, then the pump
  dropUnmatched, \* what the configuration that run started with says of it
  place,     \* the file watched: cfg.SourcePath, or none
  running,   \* the last runtime that loaded: its pipeline renders, the panels show it
  watching,  \* the last one that got a watcher: by its groups files are followed
  half,      \* the last that loaded has not got one
  signal,    \* a change of the watched file is to be taken up
  init,      \* the init command
  edits,     \* edits so far
  changed,   \* the watched file has changed since the watch began
  latest,    \* the file read last, at the start or in a reload, or none
  touched    \* it has changed since

procVars == <<args, dropUnmatched, place, running, watching, half, latest>>
seenVars == <<changed, touched>>
vars == <<procVars, seenVars, disk, pump, signal, init, edits>>

Content(p) == IF p = None THEN EmptyDocument ELSE disk[p]

\* resolveYAMLPath: an explicit file must be there.
ResolvePath ==
  IF \A c \in ParseArgs(args) : c.explicit
  THEN IF disk["explicit"] = Absent THEN {} ELSE {"explicit"}
  ELSE {IF disk["local"] # Absent THEN "local"
        ELSE IF disk["home"] # Absent THEN "home" ELSE None}

\* The rest of Load, on what was read.
LoadFrom(line, p, content) ==
  {c \in UNION {IF p = None THEN {c}
                ELSE IF content \in {Absent, Broken} THEN {} ELSE Merge(c, content) :
                c \in ParseArgs(line)} : Validate(c)}

\* discover.Assign fails on a directory that is not there, but for a glob.
Assigns(groups) ==
  \A i \in DOMAIN groups :
    groups[i].kind = "dir" => ToSet(groups[i].paths) \intersect Missing = {}

\* loadRuntime, after config.Load.
Runtimes(cfgs, drop) ==
  {[groups |-> x[1].groups, filter |-> x[1].filter, pipeline |-> x[2]] :
     x \in UNION {{c} \X NewPipeline(c, drop) : c \in {c \in cfgs : Assigns(c.groups)}}}

Init ==
  /\ args \in CommandLines
  /\ disk \in Disks
  /\ pump = [pc |-> "start"]
  /\ dropUnmatched = FALSE
  /\ place = None
  /\ running = {} /\ watching = {}
  /\ half = FALSE
  /\ signal = FALSE
  /\ init = [pc |-> "none"]
  /\ edits = 0
  /\ changed = FALSE
  /\ latest = None
  /\ touched = FALSE

-----------------------------------------------------------------------------
(* The outside world.                                                       *)

\* The watcher signals unless the file is gone when it looks, also for what
\* changed before.
Notify(p) ==
  /\ touched' = (touched \/ p = latest)
  /\ IF p = place /\ pump.pc \in {"select", "resolve", "read"}
     THEN /\ changed' = TRUE
          /\ signal' \in IF disk'[p] = Absent THEN {FALSE, signal} ELSE {TRUE}
     ELSE UNCHANGED <<changed, signal>>

Edit(p, content) ==
  /\ edits < MaxEdits
  /\ edits' = edits + 1
  /\ disk' = [disk EXCEPT ![p] = content]
  /\ Notify(p)
  /\ UNCHANGED <<procVars, pump, init>>

\* runInit, with ./log-listener.yml as its output.
InitRead(names, merge) ==
  /\ init.pc = "none"
  /\ \E gen \in Resolve(Templates, names) :
       IF disk["local"] = Absent \/ ~ merge
       THEN init' = [pc |-> "create", old |-> Absent, new |-> gen]
       ELSE /\ disk["local"] # Broken
            /\ init' = [pc |-> "create", old |-> disk["local"],
                        new |-> MergeFiles(disk["local"], gen)]
  /\ UNCHANGED <<procVars, seenVars, disk, pump, signal, edits>>

\* os.WriteFile truncates the file...
InitCreate ==
  /\ init.pc = "create"
  /\ init' = [init EXCEPT !.pc = "write"]
  /\ disk' = [disk EXCEPT !["local"] = EmptyDocument]
  /\ Notify("local")
  /\ UNCHANGED <<procVars, pump, edits>>

\* ...and writes it.
InitWrite ==
  /\ init.pc = "write"
  /\ init' = [init EXCEPT !.pc = "done"]
  /\ disk' = [disk EXCEPT !["local"] = init.new]
  /\ Notify("local")
  /\ UNCHANGED <<procVars, pump, edits>>

-----------------------------------------------------------------------------
(* run.                                                                     *)

\* Load, keymap.Resolve, Assign, NewPipeline: an error ends the program.
Start ==
  /\ pump.pc = "start"
  /\ \E p \in ResolvePath, c \in UNION {LoadFrom(args, q, Content(q)) : q \in ResolvePath} :
       /\ KeymapResolves(c.keys)
       /\ Runtimes({c}, c.scalars.drop) # {}
       /\ running' = Runtimes({c}, c.scalars.drop)
       /\ watching' = running'
       /\ dropUnmatched' = c.scalars.drop
       /\ place' = p /\ latest' = p
  /\ touched' = FALSE
  /\ pump' = [pc |-> "started"]
  /\ UNCHANGED <<args, half, disk, signal, init, edits, changed>>

\* configwatch.New.
StartWatch ==
  /\ pump.pc = "started"
  /\ pump' = [pc |-> "select"]
  /\ UNCHANGED <<procVars, seenVars, disk, signal, init, edits>>

PumpTake ==
  /\ pump.pc = "select" /\ signal
  /\ signal' = FALSE
  /\ pump' = [pc |-> "resolve"]
  /\ UNCHANGED <<procVars, seenVars, disk, init, edits>>

PumpResolve ==
  /\ pump.pc = "resolve"
  /\ IF ResolvePath = {} THEN pump' = [pc |-> "select"]
     ELSE \E p \in ResolvePath : pump' = [pc |-> "read", from |-> p]
  /\ UNCHANGED <<procVars, seenVars, disk, signal, init, edits>>

\* The pipeline is swapped at once (applyReloadWatcher).  The groups follow if the
\* watcher takes the new matchers or a new one is built, which depends on the files
\* there are; if that fails, the old one goes on as it was.
Apply(loaded) ==
  IF loaded = {} THEN UNCHANGED <<running, watching, half>>
  ELSE /\ running' = loaded
       /\ \/ watching' = loaded /\ half' = FALSE
          \/ watching' = watching /\ half' = TRUE

\* Mutant of PumpRead: the file's own drop_unmatched is used.
PumpReadAll ==
  /\ pump.pc = "read"
  /\ Apply(UNION {Runtimes({c}, c.scalars.drop) :
                    c \in LoadFrom(args, pump.from, Content(pump.from))})
  /\ pump' = [pc |-> "select"]
  /\ latest' = pump.from /\ touched' = FALSE
  /\ UNCHANGED <<args, dropUnmatched, place, disk, signal, init, edits, changed>>

\* An error leaves the last good configuration running; lines that match
\* nothing are dropped or not as at the start.
PumpRead ==
  /\ pump.pc = "read"
  /\ Apply(Runtimes(LoadFrom(args, pump.from, Content(pump.from)), dropUnmatched))
  /\ pump' = [pc |-> "select"]
  /\ latest' = pump.from /\ touched' = FALSE
  /\ UNCHANGED <<args, dropUnmatched, place, disk, signal, init, edits, changed>>

Next ==
  \/ \E p \in Files, content \in Documents \union {Broken, Absent} : Edit(p, content)
  \/ \E names \in Selections, merge \in BOOLEAN : InitRead(names, merge)
  \/ InitCreate \/ InitWrite
  \/ Start \/ StartWatch \/ PumpTake \/ PumpResolve \/ PumpRead

Spec == Init /\ [][Next]_vars

-----------------------------------------------------------------------------
\* Once its file has changed, the program runs what it would run if it were started
\* now on the file it read last, output settings aside, as long as that file is what
\* it was; and if it is the watched one, also when it changed, but for the time
\* until the change is taken up: nothing of what ran before is left over, no half
\* of an edit stays, and no edit is missed while one is being read.  Not so of a
\* file of higher precedence that a reload has found, for nobody watches it.
\* A watcher that cannot be built makes no difference to the rules and the panels,
\* which are new all the same; only then are files followed by older groups.
ReloadIsRestart ==
  changed /\ (~ touched \/ (latest = place /\ pump.pc = "select" /\ ~ signal)) =>
    LET now == Runtimes(LoadFrom(args, latest, Content(latest)), dropUnmatched)
    IN now \subseteq running /\ (half \/ now \subseteq watching)

\* README.md:417-418 and 892-894: the command line's groups replace those of the file, and
\* come first, so that the first match is theirs, whatever is reloaded; no two
\* groups of a kind share an identifier, by which they are toggled.  It is so of
\* the groups that are shown and of those by which files are followed.
CliGroupsLead ==
  \A r \in running \union watching :
    LET groups == r.groups
    IN /\ \A c \in ParseArgs(args) : IsPrefix(c.groups, groups)
       /\ \A i, j \in DOMAIN groups :
            i # j => groups[i].kind # groups[j].kind \/ groups[i].id # groups[j].id

\* What `init' writes loads, if it has a group at all, and its groups have
\* identifiers of their own; what it merges into a file leaves the file's
\* groups and renderers as they were, and loads if the file did.
InitKeepsLoading ==
  init.pc \in {"create", "write"} =>
    LET loads(doc) == \E c \in LoadFrom(<<>>, "local", doc) : NewPipeline(c, FALSE) # {}
        old == init.old
        new == init.new
        ids == [i \in DOMAIN (new.dirs \o new.files) |-> (new.dirs \o new.files)[i].id]
    IN IF old = Absent
       THEN new.dirs \o new.files # <<>> => loads(new) /\ IsInjective(ids)
       ELSE /\ IsPrefix(old.dirs, new.dirs) /\ IsPrefix(old.files, new.files)
            /\ IsPrefix(old.renderers, new.renderers)
            /\ loads([old EXCEPT !.unknown = FALSE]) => loads(new)

-----------------------------------------------------------------------------
\* README.md:425-427: having loaded a file, the program "watches that file and
\* re-applies changes live".  FALSE: a reload looks for the file anew
\* (internal/config/yaml.go:164), so that ./log-listener.yml, once it exists,
\* is loaded instead of the watched ~/.log-listener.yml, and is not watched.
RunsWatchedFile == latest = place

\* main.go:460-463: "a parse/validation error or watcher-build failure leaves the
\* last-good config running", and 598-599.  FALSE of the second: the pipeline is stored, and
\* the buffer rendered anew, before the watcher is built (main.go:299-309), and
\* what failed is not undone, so that the rules and the panels of one
\* configuration go with the groups of another.
LastGoodRuns == running = watching

\* README.md:441-442: "An invalid edit (parse/validation error) is ignored
\* silently".  FALSE: the bindings of keys are validated at the start only
\* (main.go:75), so that a reload applies a file with which the program would
\* not start.
RunsWhatWouldStart ==
  pump.pc = "select" /\ changed /\ ~ signal /\ latest = place =>
    \A c \in LoadFrom(args, place, disk[place]) :
      Runtimes({c}, dropUnmatched) = running => KeymapResolves(c.keys)

\* README.md:107-109: init "keeps the directories and files that actually exist
\* on disk [...] and writes a log-listener.yml that the normal log-listener run
\* consumes".  FALSE: a source of which no location exists keeps its first
\* (internal/catalog/resolve.go:183), and a directory that does not exist ends
\* the start.
InitRuns ==
  init.pc = "create" /\ init.old = Absent /\ init.new.dirs \o init.new.files # <<>> =>
    \E c \in LoadFrom(<<>>, "local", init.new) : Runtimes({c}, FALSE) # {}
=============================================================================
