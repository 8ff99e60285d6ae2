----------------------------- MODULE ConfigLoad -----------------------------
(***************************************************************************)
(* From a command line and a file to a configuration that runs, as         *)
(* operators: config.ParseArgs, the merge of the YAML file into it and     *)
(* Validate (internal/config), keymap.Resolve (internal/keymap), and       *)
(* NewPipeline with the matchers it compiles (internal/render,             *)
(* internal/match).                                                        *)
(*                                                                         *)
(* What may fail returns a set: of the one result, or empty for an error.  *)
(* So does what may be missing: a filter is {} or the set of a function    *)
(* from the rules given to their values.  Bad is whatever is written where *)
(* a regular expression, a time or a template belongs and is none.         *)
(***************************************************************************)
EXTENDS SequencesExt

CONSTANTS
  Bad,           \* a value that does not compile
  DefaultKeys,   \* the built-in keymap: the keys of each action
  ReservedKeys,  \* keys of the positional group and renderer toggles
  KeyNames       \* keys that the terminal can report

None == "none"
Default == <<"default">>
DefaultSSE == "127.0.0.1:8080"

Has(f, k) == k \in DOMAIN f
IsSequence(s) == s \in Seq(ToSet(s))

\* SelectSeq as the loop it is in the code, of which something can be proved.
Select(seq, Test(_)) ==
  FoldLeft(LAMBDA out, e : IF Test(e) THEN Append(out, e) ELSE out, <<>>, seq)

-----------------------------------------------------------------------------
(* The command line: a sequence of flags with the values after them.  An    *)
(* identifier is a sequence of words (see Catalog), empty if not written.   *)

NewConfig ==
  [groups |-> <<>>, filter |-> {}, explicit |-> FALSE, preloads |-> FALSE,
   scalars |-> [noTui |-> FALSE, noColor |-> FALSE, sse |-> "", drop |-> FALSE],
   given |-> {}, renderers |-> <<>>, matchers |-> <<>>, mutes |-> <<>>,
   keys |-> <<>>]

IdOf(id) == IF id = <<>> THEN Default ELSE id

Places(groups, kind, id) ==
  {i \in DOMAIN groups : groups[i].kind = kind /\ groups[i].id = id}

Ensure(groups, kind, id) ==
  IF Places(groups, kind, id) # {} THEN groups
  ELSE Append(groups, [kind |-> kind, id |-> id, paths |-> <<>>,
                       recursive |-> kind = "dir", filter |-> {}, off |-> FALSE])

\* Later rules replace earlier ones of the same key; a flag without any still
\* makes a filter.
ApplyRules(filter, rules) ==
  IF \E i \in DOMAIN rules : rules[i].val = Bad THEN {}
  ELSE {{FoldLeft(LAMBDA f, r : (r.key :> r.val) @@ f,
                  IF filter = {} THEN <<>> ELSE CHOOSE f \in filter : TRUE, rules)}}

AddPaths(cfg, kind, a) ==
  LET groups == Ensure(cfg.groups, kind, IdOf(a.id))
      at     == Places(groups, kind, IdOf(a.id))
  IN IF a.vals = <<>> THEN {}
     ELSE {[cfg EXCEPT !.groups = [i \in DOMAIN groups |->
              IF i \in at THEN [groups[i] EXCEPT !.paths = @ \o a.vals]
              ELSE groups[i]]]}

AddRules(cfg, a) ==
  LET groups == Ensure(cfg.groups, "dir", IdOf(a.id))
      at     == CHOOSE i \in Places(groups, "dir", IdOf(a.id)) : TRUE
  IN {[cfg EXCEPT !.groups = [groups EXCEPT ![at].filter = f]] :
        f \in ApplyRules(groups[at].filter, a.vals)}

ParseFlag(cfg, a) ==
  CASE a.flag = "-d" -> AddPaths(cfg, "dir", a)
    [] a.flag = "-f" -> AddPaths(cfg, "file", a)
    [] a.flag = "-r" -> AddRules(cfg, a)
    [] a.flag = "-R" -> {[cfg EXCEPT !.filter = f] : f \in ApplyRules(cfg.filter, a.vals)}
    [] a.flag = "--config" -> {[cfg EXCEPT !.explicit = TRUE]}
    [] a.flag = "--preload" -> {[cfg EXCEPT !.preloads = TRUE]}
    [] OTHER -> {[cfg EXCEPT !.scalars[a.flag] = a.val, !.given = @ \union {a.flag}]}

ParseArgs(args) ==
  FoldLeft(LAMBDA cfgs, a : UNION {ParseFlag(c, a) : c \in cfgs}, {NewConfig}, args)

-----------------------------------------------------------------------------
(* The YAML file: a Document, once it parses.                               *)

EmptyDocument ==
  [dirs |-> <<>>, files |-> <<>>, filter |-> {}, renderers |-> <<>>,
   matchers |-> <<>>, mutes |-> <<>>, set |-> <<>>, keys |-> <<>>, unknown |-> FALSE]

\* A document has every section, of entries in their order.
IsDocument(doc) ==
  /\ DOMAIN doc = DOMAIN EmptyDocument
  /\ IsSequence(doc.dirs) /\ IsSequence(doc.files) /\ IsSequence(doc.renderers)

BadFilter(filter) == \E f \in filter : \E k \in DOMAIN f : f[k] = Bad

Repeats(entries) ==
  \E i, j \in DOMAIN entries : i # j /\ IdOf(entries[i].id) = IdOf(entries[j].id)

\* Mutant of Fresh: what is on the command line is not looked at.
FreshUnshadowed(cfg, kind, entries) ==
  Select(entries, LAMBDA e : ~ e.disabled)

\* The entries of a kind that are not disabled, nor on the command line.
Fresh(cfg, kind, entries) ==
  Select(entries, LAMBDA e :
    ~ e.disabled /\ Places(cfg.groups, kind, IdOf(e.id)) = {})

AsGroups(kind, entries) ==
  [i \in DOMAIN entries |->
     [kind |-> kind, id |-> IdOf(entries[i].id), paths |-> entries[i].paths,
      recursive |-> entries[i].recursive, filter |-> entries[i].filter,
      off |-> entries[i].off]]

\* `color: true' and `tui.enabled: true' do nothing; the address of the SSE
\* broadcast is given, or the default, or none.
MergeScalars(cfg, set) ==
  [noTui |-> cfg.scalars.noTui \/ (Has(set, "tui") /\ ~ set.tui /\ "noTui" \notin cfg.given),
   noColor |-> \/ cfg.scalars.noColor
               \/ Has(set, "color") /\ ~ set.color /\ "noColor" \notin cfg.given,
   drop |-> IF Has(set, "drop") THEN set.drop ELSE cfg.scalars.drop,
   sse |-> IF "sse" \in cfg.given THEN cfg.scalars.sse
           ELSE IF Has(set, "sse") /\ ~ set.sse THEN ""
           ELSE IF Has(set, "addr") THEN set.addr
           ELSE IF Has(set, "sse") THEN DefaultSSE ELSE cfg.scalars.sse]

\* The command line's groups come first, then directories, then files.
Merge(cfg, doc) ==
  LET dirs  == Fresh(cfg, "dir", doc.dirs)
      files == Fresh(cfg, "file", doc.files)
  IN IF \/ doc.unknown
        \/ cfg.filter = {} /\ BadFilter(doc.filter)
        \/ Repeats(doc.dirs) \/ Repeats(doc.files)
        \/ \E i \in DOMAIN dirs : BadFilter(dirs[i].filter)
     THEN {}
     ELSE {[cfg EXCEPT
              !.filter = IF @ = {} THEN doc.filter ELSE @,
              !.groups = @ \o AsGroups("dir", dirs) \o AsGroups("file", files),
              !.renderers = Select(doc.renderers, LAMBDA r : ~ r.disabled),
              !.matchers = doc.matchers, !.mutes = doc.mutes,
              !.scalars = MergeScalars(cfg, doc.set), !.keys = doc.keys]}

Validate(cfg) ==
  /\ cfg.groups # <<>> \/ cfg.preloads
  /\ \A i \in DOMAIN cfg.groups : cfg.groups[i].paths # <<>>

-----------------------------------------------------------------------------
(* keymap.Resolve: a layer replaces the keys of the actions it names.       *)

Bindings(layers) ==
  FoldLeft(LAMBDA below, layer : layer @@ below, DefaultKeys, layers)

KeymapResolves(layers) ==
  LET keys == Bindings(layers)
  IN /\ DOMAIN keys = DOMAIN DefaultKeys
     /\ \A a \in DOMAIN keys :
          /\ keys[a] \subseteq KeyNames \ ReservedKeys
          /\ \A b \in DOMAIN keys \ {a} : keys[a] \intersect keys[b] = {}

-----------------------------------------------------------------------------
(* render.NewPipeline.  A matcher is a function from the keys written, such  *)
(* as "line" or "line_regex", to their values.                              *)

Compiles(m) ==
  /\ DOMAIN m # {}
  /\ \A both \in {{"line", "line_regex"}, {"name", "name_regex"}, {"path", "path_regex"}} :
       ~ (both \subseteq DOMAIN m)
  /\ \A k \in DOMAIN m : m[k] # Bad

\* Either a line's regular expression, or the name of a matcher with one.
CompileRenderer(r, matchers) ==
  /\ (r.line = "") # (r.matcher = "")
  /\ IF r.matcher = "" THEN r.line # Bad
     ELSE /\ Has(matchers, r.matcher)
          /\ Compiles(matchers[r.matcher])
          /\ Has(matchers[r.matcher], "line_regex")
  /\ r.template # Bad

CompileMute(m, matchers) ==
  /\ (m.matcher = "") # (DOMAIN m.inline = {})
  /\ IF m.matcher = "" THEN Compiles(m.inline)
     ELSE Has(matchers, m.matcher) /\ Compiles(matchers[m.matcher])

\* The rules in their order, with each renderer's toggle as it starts.
NewPipeline(cfg, drop) ==
  IF /\ \A i \in DOMAIN cfg.renderers : CompileRenderer(cfg.renderers[i], cfg.matchers)
     /\ \A i \in DOMAIN cfg.mutes : CompileMute(cfg.mutes[i], cfg.matchers)
  THEN {[renderers |-> [i \in DOMAIN cfg.renderers |-> cfg.renderers[i].name],
         enabled |-> [i \in DOMAIN cfg.renderers |-> ~ cfg.renderers[i].off],
         mutes |-> Len(cfg.mutes), drop |-> drop]}
  ELSE {}
=============================================================================
