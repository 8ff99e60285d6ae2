----------------------------- MODULE WatchRules -----------------------------
(***************************************************************************)
(* Which files and directories a configuration selects, decided twice in   *)
(* the code: for what exists when a watcher is built, by expanding globs   *)
(* and walking directories (internal/discover, dirsToWatch in main.go),    *)
(* and for one path that appears later, by matching it against the         *)
(* patterns (makeNewFileMatcher, makeNewDirMatcher in main.go).            *)
(*                                                                         *)
(* An absolute path is a sequence of names, a tree the set of paths that   *)
(* exist.  A path.Match pattern is a sequence of sets of names: a literal  *)
(* segment is a singleton, a segment with a metacharacter the set of names *)
(* it matches, at least two.  The modification time limits of a filter are *)
(* part of what it allows.                                                 *)
(***************************************************************************)
EXTENDS Integers, Sequences

CONSTANTS
  Dirs,     \* the paths that are directories if they exist
  Files,    \* the paths that are files if they exist
  Dotted,   \* the names that begin with two dots
  NoGroup   \* what no group is called

ASSUME PathAssumption ==
  /\ Dirs \intersect Files = {}
  /\ <<>> \notin Files
  /\ Dirs \union Files \subseteq Seq(STRING)

Parent(p) == SubSeq(p, 1, Len(p) - 1)
Name(p) == p[Len(p)]
Children(d) == {p \in Dirs \union Files : p # <<>> /\ Parent(p) = d}

\* filepath.WalkDir: strictly below root, at any depth or at one.
Under(p, root, recursive) ==
  /\ Len(p) > Len(root)
  /\ SubSeq(p, 1, Len(root)) = root
  /\ recursive \/ Len(p) = Len(root) + 1

\* pathUnderAny: the same, from the path relative to root, of which one that
\* begins with two dots is taken to lead out of it.
PathUnder(p, root, recursive) ==
  Under(p, root, recursive) /\ p[Len(root) + 1] \notin Dotted

IsLiteral(seg) == \E name \in seg : seg = {name}
HasMeta(pat) == \E i \in 1 .. Len(pat) : ~ IsLiteral(pat[i])

\* The path that a pattern without metacharacters is.
Literal(pat) == [i \in 1 .. Len(pat) |-> CHOOSE name \in pat[i] : TRUE]

\* The directories before the first segment with a metacharacter.
LiteralPrefix(pat) ==
  LET first == CHOOSE i \in 1 .. Len(pat) :
                 ~ IsLiteral(pat[i]) /\ \A j \in 1 .. i - 1 : IsLiteral(pat[j])
  IN Literal(SubSeq(pat, 1, first - 1))

MatchesPath(pat, p) ==
  /\ Len(p) = Len(pat)
  /\ \A i \in 1 .. Len(p) : p[i] \in pat[i]

PrefixMatchesPattern(pat, p) ==
  /\ Len(p) <= Len(pat)
  /\ \A i \in 1 .. Len(p) : p[i] \in pat[i]

\* A group is a record [id, kind, paths, recursive, names]: names is what its
\* filter allows.  A configuration has a sequence of them and a global filter.
IsPattern(pat) ==
  /\ pat \in Seq(SUBSET STRING) /\ pat # <<>>
  /\ \A i \in 1 .. Len(pat) : pat[i] # {}

IsGroup(g) ==
  /\ g.id # NoGroup
  /\ g.kind \in {"dir", "file"} /\ g.recursive \in BOOLEAN
  /\ \A pat \in g.paths : IsPattern(pat)

IsConfig(cfg) ==
  /\ DOMAIN cfg.groups \subseteq Nat
  /\ \A i \in DOMAIN cfg.groups : IsGroup(cfg.groups[i])

\* The directories that lead to a path exist.
Closed(tree) ==
  \A p \in tree : \A k \in 1 .. Len(p) - 1 : SubSeq(p, 1, k) \in tree \intersect Dirs

First(I) == CHOOSE i \in I : \A j \in I : i <= j

Filtered(cfg, g, f) ==
  g.kind = "dir" => Name(f) \in g.names /\ Name(f) \in cfg.global

-----------------------------------------------------------------------------
(* What exists now.                                                         *)

\* ListCandidates: a directory group walks each of its roots, a file group
\* expands its globs.
Roots(g, tree) == {d \in tree \intersect Dirs : \E pat \in g.paths : MatchesPath(pat, d)}

ListCandidates(g, tree) ==
  {f \in tree \intersect Files :
     CASE g.kind = "dir"  -> \E d \in Roots(g, tree) : Under(f, d, g.recursive)
       [] g.kind = "file" -> \E pat \in g.paths : MatchesPath(pat, f)}

\* A literal root that does not exist is an error; a glob may match nothing.
AssignFails(cfg, tree) ==
  \E i \in DOMAIN cfg.groups : \E pat \in cfg.groups[i].paths :
    cfg.groups[i].kind = "dir" /\ ~ HasMeta(pat) /\ Literal(pat) \notin tree

\* Assign: groups take files in the order of declaration.
Takers(cfg, tree, f) ==
  {i \in DOMAIN cfg.groups : /\ f \in ListCandidates(cfg.groups[i], tree)
                             /\ Filtered(cfg, cfg.groups[i], f)}

Assign(cfg, tree) ==
  {[path |-> f, group |-> cfg.groups[First(Takers(cfg, tree, f))].id] :
     f \in {f \in tree \intersect Files : Takers(cfg, tree, f) # {}}}

\* dirsToWatch.
WalkDirs(root, recursive, tree) ==
  {d \in tree \intersect Dirs :
     root \in tree /\ (d = root \/ (recursive /\ Under(d, root, TRUE)))}

DirsOf(g, pat, tree) ==
  LET matches == {p \in tree : MatchesPath(pat, p)}
  IN CASE g.kind = "dir"  ->
            UNION {WalkDirs(m, g.recursive, tree) :
                     m \in matches \intersect Dirs}
              \union (IF HasMeta(pat) THEN {LiteralPrefix(pat)} ELSE {})
       [] g.kind = "file" ->
            IF HasMeta(pat)
            THEN {Parent(m) : m \in matches} \union {LiteralPrefix(pat)}
            ELSE {Parent(Literal(pat))}

DirsToWatch(cfg, tree) ==
  UNION {UNION {DirsOf(cfg.groups[i], pat, tree) : pat \in cfg.groups[i].paths} :
           i \in DOMAIN cfg.groups}

\* watchSetOf: two configurations with the same one need no new watcher.
WatchSetOf(assigned, cfg, tree) ==
  [files |-> assigned, dirs |-> DirsToWatch(cfg, tree)]

-----------------------------------------------------------------------------
(* What appears later.                                                      *)

\* Some ancestor of the file, or its parent, is a root.
FileMatchesDirPattern(pat, f, recursive) ==
  \E k \in 1 .. Len(f) - 1 :
    /\ MatchesPath(pat, SubSeq(f, 1, k))
    /\ recursive \/ k = Len(f) - 1

FileBelongsToDirGroup(g, f) ==
  \E pat \in g.paths :
    IF HasMeta(pat)
    THEN FileMatchesDirPattern(pat, f, g.recursive)
    ELSE PathUnder(f, Literal(pat), g.recursive)

Claims(cfg, g, f) ==
  /\ CASE g.kind = "file" -> \E pat \in g.paths : MatchesPath(pat, f)
       [] g.kind = "dir"  -> FileBelongsToDirGroup(g, f)
  /\ Filtered(cfg, g, f)

\* Mutant of FileMatcher: the last group that claims the file has it.
FileMatcherLast(cfg, f) ==
  LET I == {i \in DOMAIN cfg.groups : Claims(cfg, cfg.groups[i], f)}
  IN IF I = {} THEN NoGroup ELSE cfg.groups[CHOOSE i \in I : \A j \in I : j <= i].id

\* makeNewFileMatcher: the first group that claims the file, or none.
FileMatcher(cfg, f) ==
  LET I == {i \in DOMAIN cfg.groups : Claims(cfg, cfg.groups[i], f)}
  IN IF I = {} THEN NoGroup ELSE cfg.groups[First(I)].id

\* makeNewDirMatcher: could the directory hold files of some group, now or when
\* it has subdirectories?
DirMatcher(cfg, d) ==
  \E i \in DOMAIN cfg.groups : \E pat \in cfg.groups[i].paths :
    IF HasMeta(pat)
    THEN PrefixMatchesPattern(pat, d)
    ELSE /\ cfg.groups[i].kind = "dir" /\ cfg.groups[i].recursive
         /\ PathUnder(d, Literal(pat), TRUE)
=============================================================================
