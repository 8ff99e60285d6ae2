--------------------------- MODULE DiscoveryProofs ---------------------------
(***************************************************************************)
(* Proofs about WatchRules and Discovery: the two ways of deciding which   *)
(* group a file belongs to agree, for every configuration and every tree,  *)
(* no file is tailed twice, and in a directory that is watched for what    *)
(* appears in it none is missed.                                           *)
(***************************************************************************)
EXTENDS Discovery, SequenceTheorems, WellFoundedInduction, TLAPS

-----------------------------------------------------------------------------
(* Walks and patterns.                                                      *)

\* The directory that a path is under is one of those that lead to it.
LEMMA UnderIsPrefix ==
  ASSUME NEW f \in Seq(STRING), NEW d \in Seq(STRING), NEW rec \in BOOLEAN, d # <<>>
  PROVE  Under(f, d, rec) <=>
           \E k \in 1 .. Len(f) - 1 :
             /\ d = SubSeq(f, 1, k)
             /\ rec \/ k = Len(f) - 1
<1>1. Len(d) \in Nat \ {0} /\ Len(f) \in Nat
  BY EmptySeq, LenProperties
<1>2. ASSUME Under(f, d, rec)
      PROVE  \E k \in 1 .. Len(f) - 1 : d = SubSeq(f, 1, k) /\ (rec \/ k = Len(f) - 1)
  <2>1. Len(d) \in 1 .. Len(f) - 1
    BY <1>1, <1>2 DEF Under
  <2>2. d = SubSeq(f, 1, Len(d)) /\ (rec \/ Len(d) = Len(f) - 1)
    BY <1>1, <1>2 DEF Under
  <2>3. QED
    BY <2>1, <2>2
<1>3. ASSUME NEW k \in 1 .. Len(f) - 1, d = SubSeq(f, 1, k), rec \/ k = Len(f) - 1
      PROVE  Under(f, d, rec)
  <2>1. Len(d) = k
    BY <1>1, <1>3, SubSeqProperties
  <2>2. QED
    BY <1>1, <1>3, <2>1 DEF Under
<1>4. QED
  BY <1>2, <1>3

\* A pattern without metacharacters matches the path it is, and no other.
LEMMA LiteralMatches ==
  ASSUME NEW pat, IsPattern(pat), ~ HasMeta(pat), NEW d \in Seq(STRING)
  PROVE  MatchesPath(pat, d) <=> d = Literal(pat)
<1>1. \A i \in 1 .. Len(pat) : \A x \in pat[i] : x = (CHOOSE name \in pat[i] : TRUE)
  BY DEF HasMeta, IsLiteral
<1>2. \A i \in 1 .. Len(pat) : (CHOOSE name \in pat[i] : TRUE) \in pat[i]
  BY DEF IsPattern
<1>3. Len(pat) \in Nat /\ Len(d) \in Nat /\ d = [i \in 1 .. Len(d) |-> d[i]]
  BY LenProperties DEF IsPattern
<1>4. ASSUME MatchesPath(pat, d)
      PROVE  d = Literal(pat)
  BY <1>1, <1>3, <1>4 DEF MatchesPath, Literal
<1>5. ASSUME d = Literal(pat)
      PROVE  MatchesPath(pat, d)
  <2>1. DOMAIN d = 1 .. Len(d) /\ DOMAIN d = 1 .. Len(pat)
    BY <1>5, LenProperties DEF Literal
  <2>2. Len(d) = Len(pat)
    BY <1>3, <2>1
  <2>3. QED
    BY <1>2, <1>5, <2>2 DEF MatchesPath, Literal
<1>6. QED
  BY <1>4, <1>5

\* What a walk of a group's roots, or its globs, list is what belongs to it.
LEMMA ListedBelong ==
  ASSUME PathAssumption, NEW T \in SUBSET (Dirs \union Files), Closed(T),
         NEW g, IsGroup(g), NEW f \in T \intersect Files, ~ Misread(f)
  PROVE  f \in ListCandidates(g, T) <=>
           CASE g.kind = "file" -> \E pat \in g.paths : MatchesPath(pat, f)
             [] g.kind = "dir"  -> FileBelongsToDirGroup(g, f)
<1>1. f \in Seq(STRING) /\ Len(f) \in Nat
  BY LenProperties DEF PathAssumption
<1>2. g.recursive \in BOOLEAN /\ g.kind \in {"dir", "file"}
  BY DEF IsGroup
<1>3. CASE g.kind = "file"
  BY <1>3 DEF ListCandidates
<1>4. CASE g.kind = "dir"
  <2>1. f \in ListCandidates(g, T) <=>
          \E pat \in g.paths : \E d \in T \intersect Dirs :
            MatchesPath(pat, d) /\ Under(f, d, g.recursive)
    BY <1>4 DEF ListCandidates, Roots
  <2>2. ASSUME NEW pat \in g.paths
        PROVE  ( \E d \in T \intersect Dirs :
                   MatchesPath(pat, d) /\ Under(f, d, g.recursive) )
               <=> \E k \in 1 .. Len(f) - 1 :
                     /\ MatchesPath(pat, SubSeq(f, 1, k))
                     /\ g.recursive \/ k = Len(f) - 1
    <3>1. \A d : MatchesPath(pat, d) /\ d \in Dirs => d \in Seq(STRING) /\ d # <<>>
      BY EmptySeq, LenProperties, <2>2 DEF MatchesPath, IsGroup, IsPattern, PathAssumption
    <3>2. \A k \in 1 .. Len(f) - 1 : SubSeq(f, 1, k) \in T \intersect Dirs
      BY DEF Closed
    <3>3. \A d \in T \intersect Dirs :
            MatchesPath(pat, d) =>
              ( Under(f, d, g.recursive) <=>
                  \E k \in 1 .. Len(f) - 1 :
                    d = SubSeq(f, 1, k) /\ (g.recursive \/ k = Len(f) - 1) )
      BY <1>1, <1>2, <3>1, UnderIsPrefix
    <3>4. QED
      BY <3>2, <3>3
  <2>3. ASSUME NEW pat \in g.paths, ~ HasMeta(pat)
        PROVE  ( \E k \in 1 .. Len(f) - 1 :
                   /\ MatchesPath(pat, SubSeq(f, 1, k))
                   /\ g.recursive \/ k = Len(f) - 1 )
               <=> PathUnder(f, Literal(pat), g.recursive)
    <3>1. IsPattern(pat)
      BY DEF IsGroup
    <3>2. Literal(pat) \in Seq(STRING) /\ Literal(pat) # <<>>
      <4>1. \A i \in 1 .. Len(pat) : (CHOOSE name \in pat[i] : TRUE) \in STRING
        BY <3>1, ElementOfSeq DEF IsPattern
      <4>2. Len(pat) \in Nat \ {0}
        BY <3>1, EmptySeq, LenProperties DEF IsPattern
      <4>3. Literal(pat) \in Seq(STRING) /\ Len(Literal(pat)) = Len(pat)
        BY <4>1, <4>2, IsASeq, LenProperties DEF Literal
      <4>4. QED
        BY <4>2, <4>3, EmptySeq
    <3>3. \A k \in 1 .. Len(f) - 1 : SubSeq(f, 1, k) \in Seq(STRING)
      BY <1>1, SubSeqProperties
    <3>4. Under(f, Literal(pat), g.recursive) <=>
            \E k \in 1 .. Len(f) - 1 :
              /\ Literal(pat) = SubSeq(f, 1, k)
              /\ g.recursive \/ k = Len(f) - 1
      BY <1>1, <1>2, <3>2, UnderIsPrefix
    <3>5. \A k \in 1 .. Len(f) - 1 :
            MatchesPath(pat, SubSeq(f, 1, k)) <=> SubSeq(f, 1, k) = Literal(pat)
      BY <2>3, <3>1, <3>3, LiteralMatches
    <3>6. Under(f, Literal(pat), g.recursive)
            => Len(Literal(pat)) + 1 \in 1 .. Len(f)
      BY <1>1, <3>2, LenProperties DEF Under
    <3>7. Under(f, Literal(pat), g.recursive)
            <=> PathUnder(f, Literal(pat), g.recursive)
      BY <3>6 DEF PathUnder, Misread
    <3>8. QED
      BY <3>4, <3>5, <3>7
  <2>4. QED
    BY <1>4, <2>1, <2>2, <2>3 DEF FileBelongsToDirGroup, FileMatchesDirPattern
<1>5. QED
  BY <1>2, <1>3, <1>4

\* So a group takes, of what exists, what it claims of what appears.
LEMMA TakersClaim ==
  ASSUME PathAssumption, NEW T \in SUBSET (Dirs \union Files), Closed(T),
         NEW cfg, IsConfig(cfg), NEW f \in T \intersect Files, ~ Misread(f)
  PROVE  Takers(cfg, T, f) = {i \in DOMAIN cfg.groups : Claims(cfg, cfg.groups[i], f)}
<1>1. ASSUME NEW i \in DOMAIN cfg.groups
      PROVE  /\ f \in ListCandidates(cfg.groups[i], T)
             /\ Filtered(cfg, cfg.groups[i], f)
             <=> Claims(cfg, cfg.groups[i], f)
  <2>1. IsGroup(cfg.groups[i])
    BY DEF IsConfig
  <2>2. f \in ListCandidates(cfg.groups[i], T) <=>
          CASE cfg.groups[i].kind = "file" ->
                 \E pat \in cfg.groups[i].paths : MatchesPath(pat, f)
            [] cfg.groups[i].kind = "dir" -> FileBelongsToDirGroup(cfg.groups[i], f)
    BY <2>1, ListedBelong
  <2>3. QED
    BY <2>1, <2>2 DEF Claims, IsGroup
<1>2. QED
  BY <1>1 DEF Takers

\* The first group is one of them.
LEMMA FirstIsOne ==
  ASSUME NEW I \in SUBSET Nat, I # {}
  PROVE  First(I) \in I
<1> DEFINE Less == {p \in Nat \X Nat : p[1] < p[2]}
<1>1. IsWellFoundedOn(Less, Nat)
  BY NatLessThanWellFounded, Zenon DEF OpToRel
<1>2. PICK m \in I : \A k \in I : <<k, m>> \notin Less
  <2> HIDE DEF Less
  <2>1. QED
    BY <1>1, WFMin
<1>3. ASSUME NEW k \in I
      PROVE  m <= k
  <2>1. <<k, m>> \in Nat \X Nat /\ <<k, m>> \notin Less
    BY <1>2
  <2>2. ~ (<<k, m>>[1] < <<k, m>>[2])
    BY <2>1
  <2>3. QED
    BY <2>2
<1>4. QED
  BY <1>3 DEF First

\* Static and dynamic discovery agree, for every configuration and every tree.
THEOREM MatchersAgree ==
  ASSUME PathAssumption, NEW T \in SUBSET (Dirs \union Files), Closed(T),
         NEW cfg, IsConfig(cfg), NEW f \in T \intersect Files, ~ Misread(f)
  PROVE  {a \in Assign(cfg, T) : a.path = f} =
           IF FileMatcher(cfg, f) = NoGroup
           THEN {}
           ELSE {[path |-> f, group |-> FileMatcher(cfg, f)]}
<1> DEFINE I == {i \in DOMAIN cfg.groups : Claims(cfg, cfg.groups[i], f)}
<1>1. Takers(cfg, T, f) = I
  BY TakersClaim
<1>2. {a \in Assign(cfg, T) : a.path = f} =
        IF I = {} THEN {} ELSE {[path |-> f, group |-> cfg.groups[First(I)].id]}
  <2> DEFINE Of(x) == [path |-> x, group |-> cfg.groups[First(Takers(cfg, T, x))].id]
  <2>1. \A a : a \in Assign(cfg, T) <=>
                 \E x \in T \intersect Files : Takers(cfg, T, x) # {} /\ a = Of(x)
    BY Zenon DEF Assign
  <2>2. \A x : Of(x).path = x
    OBVIOUS
  <2> HIDE DEF Of
  <2>3. \A a : a \in Assign(cfg, T) /\ a.path = f <=> I # {} /\ a = Of(f)
    BY <1>1, <2>1, <2>2, Zenon
  <2>4. Of(f) = [path |-> f, group |-> cfg.groups[First(I)].id]
    BY <1>1 DEF Of
  <2>5. QED
    BY <2>3, <2>4
<1>3. I # {} => cfg.groups[First(I)].id # NoGroup
  <2>1. I \in SUBSET Nat
    BY DEF IsConfig
  <2>2. I # {} => First(I) \in I
    BY <2>1, FirstIsOne
  <2>3. QED
    BY <2>2 DEF IsConfig, IsGroup
<1>4. QED
  BY <1>2, <1>3 DEF FileMatcher

-----------------------------------------------------------------------------
(* The state machine.                                                       *)

\* What exists is reached by directories that exist.
TreeInv ==
  /\ scenario \in Scenarios
  /\ tree \subseteq Dirs \union Files
  /\ Closed(tree)

\* Creating a path in a directory keeps the tree closed.
LEMMA CreateKeepsTree ==
  ASSUME PathAssumption, TreeInv, NEW p \in Dirs \union Files, Create(p)
  PROVE  TreeInv'
<1>1. p \in Seq(STRING) /\ Len(p) \in Nat /\ tree' = tree \union {p}
  BY LenProperties DEF PathAssumption, Create
<1>2. Parent(p) \in tree \intersect Dirs /\ p \notin tree
  BY DEF Create
<1>3. ASSUME NEW k \in 1 .. Len(p) - 1
      PROVE  SubSeq(p, 1, k) \in tree \intersect Dirs
  <2>1. Len(Parent(p)) = Len(p) - 1 /\ Parent(p) \in Seq(STRING)
    BY <1>1, <1>3, SubSeqProperties DEF Parent
  <2>2. CASE k = Len(p) - 1
    BY <1>2, <2>2 DEF Parent
  <2>3. CASE k < Len(p) - 1
    <3>1. SubSeq(Parent(p), 1, k) = SubSeq(p, 1, k)
      BY <1>1, <2>3 DEF Parent
    <3>2. SubSeq(Parent(p), 1, k) \in tree \intersect Dirs
      BY <1>1, <1>2, <2>1, <2>3 DEF TreeInv, Closed
    <3>3. QED
      BY <3>1, <3>2
  <2>4. QED
    BY <1>1, <2>2, <2>3
<1>4. QED
  BY <1>1, <1>3 DEF TreeInv, Closed, Create

\* A directory goes with all it leads to, so the tree stays closed.
LEMMA RemoveKeepsTree ==
  ASSUME PathAssumption, TreeInv, NEW d \in Dirs, RemoveDir(d)
  PROVE  TreeInv'
<1> DEFINE gone == {p \in tree : p = d \/ Under(p, d, TRUE)}
<1>1. tree' = tree \ gone /\ scenario' = scenario
  BY DEF RemoveDir
<1>2. ASSUME NEW p \in tree', NEW k \in 1 .. Len(p) - 1
      PROVE  SubSeq(p, 1, k) \in tree' \intersect Dirs
  <2>1. p \in tree /\ p \in Seq(STRING) /\ Len(p) \in Nat
    BY <1>1, LenProperties DEF TreeInv, PathAssumption
  <2>2. SubSeq(p, 1, k) \in tree \intersect Dirs
    BY <2>1 DEF TreeInv, Closed
  <2>3. Len(SubSeq(p, 1, k)) = k /\ d \in Seq(STRING) /\ Len(d) \in Nat
    BY <2>1, SubSeqProperties, LenProperties DEF PathAssumption
  <2>4. SubSeq(p, 1, k) = d => Under(p, d, TRUE)
    BY <2>1, <2>3 DEF Under
  <2>5. Under(SubSeq(p, 1, k), d, TRUE) => Under(p, d, TRUE)
    <3> SUFFICES ASSUME Under(SubSeq(p, 1, k), d, TRUE)
                 PROVE  Under(p, d, TRUE)
      OBVIOUS
    <3>1. k > Len(d) /\ SubSeq(SubSeq(p, 1, k), 1, Len(d)) = d
      BY <2>3 DEF Under
    <3>2. SubSeq(SubSeq(p, 1, k), 1, Len(d)) = SubSeq(p, 1, Len(d))
      BY <2>1, <2>3, <3>1
    <3>3. QED
      BY <2>1, <2>3, <3>1, <3>2 DEF Under
  <2>6. QED
    BY <1>1, <1>2, <2>1, <2>2, <2>4, <2>5
<1>3. QED
  BY <1>1, <1>2 DEF TreeInv, Closed

\* Nothing else changes the tree.
LEMMA TreeStep == PathAssumption /\ TreeInv /\ [Next]_vars => TreeInv'
<1> SUFFICES ASSUME PathAssumption, TreeInv, [Next]_vars
             PROVE  TreeInv'
  OBVIOUS
<1>1. ASSUME NEW p \in Dirs \union Files, Create(p)
      PROVE  TreeInv'
  BY <1>1, CreateKeepsTree
<1>2. ASSUME NEW d \in Dirs, RemoveDir(d)
      PROVE  TreeInv'
  BY <1>2, RemoveKeepsTree
<1>3. CASE Loop
  BY <1>3 DEF Loop, LoopEvent, LoopAdd, LoopNewDir, LoopRead, LoopVisit, LoopWalked,
              TreeInv, Closed
<1>4. CASE Pump
  BY <1>4 DEF Pump, PumpAssign, PumpReload, PumpCompare, PumpSetFileMatcher,
              PumpSetDirMatcher, PumpNew, PumpAdd, PumpDirs, PumpWatchDir, PumpBuilt,
              TreeInv, Closed
<1>5. CASE UNCHANGED vars
  BY <1>5 DEF vars, TreeInv, Closed
<1>6. QED
  BY <1>1, <1>2, <1>3, <1>4, <1>5 DEF Next

\* What exists is always reached by directories that exist.
LEMMA TreeIsClosed == Spec => []TreeInv
<1>1. Init => TreeInv
  BY ScenarioAssumption DEF Init, TreeInv
<1>2. TreeInv /\ [Next]_vars => TreeInv'
  BY PathAssumption, TreeStep
<1>3. QED
  BY <1>1, <1>2, PTL DEF Spec

\* In every reachable state the matcher that decides about a file that appears
\* and the assignment made when a watcher is built select the same group.
THEOREM SpecMatchersAgree == Spec => []MatcherAgreesWithAssign
<1>1. TreeInv => MatcherAgreesWithAssign
  BY PathAssumption, ScenarioAssumption, MatchersAgree
     DEF TreeInv, MatcherAgreesWithAssign
<1>2. QED
  BY <1>1, TreeIsClosed, PTL

-----------------------------------------------------------------------------
\* A file has been opened exactly if it has a tailer, and then once.
OpenedOnce ==
  /\ DOMAIN opens = Files
  /\ \A f \in Files : opens[f] = IF f \in DOMAIN tailers THEN 1 ELSE 0

\* Add opens a file only if it has no tailer.
LEMMA AddOpensOnce ==
  ASSUME OpenedOnce, NEW path, NEW group, Add(path, group)
  PROVE  OpenedOnce'
<1>1. CASE path \in DOMAIN tailers \/ path \notin tree
  BY <1>1 DEF Add, watcherVars, OpenedOnce
<1>2. CASE ~ (path \in DOMAIN tailers \/ path \notin tree)
  BY <1>2 DEF Add, OpenedOnce
<1>3. QED
  BY <1>1, <1>2

\* Only Add opens, and a new watcher starts with nothing opened.
LEMMA OpenedStep == OpenedOnce /\ [Next]_vars => OpenedOnce'
<1> SUFFICES ASSUME OpenedOnce, [Next]_vars
             PROVE  OpenedOnce'
  OBVIOUS
<1>1. UNCHANGED <<tailers, opens>> => OpenedOnce'
  BY DEF OpenedOnce
<1>2. ASSUME NEW p \in Dirs \union Files, Create(p)
      PROVE  OpenedOnce'
  BY <1>1, <1>2 DEF Create, watcherVars
<1>3. ASSUME NEW d \in Dirs, RemoveDir(d)
      PROVE  OpenedOnce'
  BY <1>1, <1>3 DEF RemoveDir
<1>4. CASE Loop
  <2>1. CASE LoopAdd
    BY <2>1, AddOpensOnce DEF LoopAdd
  <2>2. CASE LoopVisit
    BY <1>1, <2>2, AddOpensOnce DEF LoopVisit, WatchDir, watcherVars
  <2>3. CASE LoopNewDir
    BY <1>1, <2>3 DEF LoopNewDir, WatchDir
  <2>4. CASE LoopEvent \/ LoopRead \/ LoopWalked
    BY <1>1, <2>4 DEF LoopEvent, LoopRead, LoopWalked, watcherVars
  <2>5. QED
    BY <1>4, <2>1, <2>2, <2>3, <2>4 DEF Loop
<1>5. CASE Pump
  <2>1. CASE PumpAdd
    BY <2>1, AddOpensOnce DEF PumpAdd
  <2>2. CASE PumpNew
    BY <2>2 DEF PumpNew, OpenedOnce
  <2>3. CASE PumpWatchDir
    BY <1>1, <2>3 DEF PumpWatchDir, WatchDir
  <2>4. CASE \/ PumpAssign \/ PumpReload \/ PumpCompare \/ PumpSetFileMatcher
             \/ PumpSetDirMatcher \/ PumpDirs \/ PumpBuilt
    BY <1>1, <2>4 DEF PumpAssign, PumpReload, PumpCompare, PumpSetFileMatcher,
                      PumpSetDirMatcher, PumpDirs, PumpBuilt, watcherVars
  <2>5. QED
    BY <1>5, <2>1, <2>2, <2>3, <2>4 DEF Pump
<1>6. CASE UNCHANGED vars
  BY <1>1, <1>6 DEF vars, watcherVars
<1>7. QED
  BY <1>2, <1>3, <1>4, <1>5, <1>6 DEF Next

\* A watcher never opens a file twice, for any number of files, configurations,
\* reloads and removals.
THEOREM FilesAreTailedOnce == Spec => []TailedOnce
<1>1. Init => OpenedOnce
  BY DEF Init, OpenedOnce
<1>2. OpenedOnce => TailedOnce
  BY DEF OpenedOnce, TailedOnce
<1>3. QED
  BY <1>1, <1>2, OpenedStep, PTL DEF Spec

-----------------------------------------------------------------------------
(* Types.                                                                   *)

\* What is assigned are files, to groups.
Assigned(A) == \A a \in A : a.path \in Files /\ a.group # NoGroup

\* What the loop goroutine holds between two steps.
LoopShape ==
  \/ loop = Idle
  \/ \E p \in Files : \E g : g # NoGroup /\ loop = [pc |-> "add", path |-> p, group |-> g]
  \/ \E d \in Dirs : \E c : loop = [pc |-> "newdir", dir |-> d, cfg |-> c]
  \/ \E c : \E R \in SUBSET Dirs, V \in SUBSET (Dirs \union Files) :
       loop = [pc |-> "walk", cfg |-> c, read |-> R, visit |-> V]

\* What the pump goroutine holds between two steps.
PumpShape ==
  \/ pump = [pc |-> "assign"]
  \/ pump = Running
  \/ \E c, s, A : /\ IsConfig(c) /\ Assigned(A)
                  /\ pump = [pc |-> "compare", cfg |-> c, seen |-> s, assigned |-> A]
  \/ \E c : IsConfig(c) /\ pump \in {[pc |-> "setfile", cfg |-> c], [pc |-> "setdir", cfg |-> c]}
  \/ \E c, s, t, A : /\ IsConfig(c) /\ Assigned(A)
                     /\ pump = [pc |-> "new", cfg |-> c, seen |-> s, set |-> t, assigned |-> A]
  \/ \E c, A, T, t : /\ IsConfig(c) /\ Assigned(T)
                     /\ pump = [pc |-> "add", cfg |-> c, assigned |-> A, todo |-> T, set |-> t]
  \/ \E c, A, T, t : /\ IsConfig(c)
                     /\ pump = [pc |-> "dirs", cfg |-> c, assigned |-> A, todo |-> T, set |-> t]

\* What is opened and watched.
WatcherTypes ==
  /\ kernel \subseteq watched \intersect (tree \union {<<>>})
  /\ watched \subseteq Dirs \union Files \union {<<>>}
  /\ DOMAIN tailers \subseteq Files
  /\ NoGroup \notin {tailers[f] : f \in DOMAIN tailers}
  /\ opens \in [Files -> Nat]
  /\ asked \subseteq watched

TypeInv ==
  /\ TreeInv
  /\ WatcherTypes
  /\ LoopShape
  /\ PumpShape
  /\ IsConfig(fileCfg)
  /\ queue \in Seq(Dirs \union Files)
  /\ unseen \subseteq Dirs \union Files
  /\ {reloads, removals} \subseteq Nat

\* An assignment is of files, to groups that are called something.
LEMMA AssignTypes ==
  ASSUME NEW cfg, IsConfig(cfg), NEW T
  PROVE  Assigned(Assign(cfg, T))
<1> SUFFICES ASSUME NEW f \in T \intersect Files, Takers(cfg, T, f) # {}
             PROVE  cfg.groups[First(Takers(cfg, T, f))].id # NoGroup
  BY DEF Assign, Assigned
<1>1. Takers(cfg, T, f) \subseteq DOMAIN cfg.groups
  BY DEF Takers
<1>2. Takers(cfg, T, f) \in SUBSET Nat
  BY <1>1 DEF IsConfig
<1>3. First(Takers(cfg, T, f)) \in DOMAIN cfg.groups
  BY <1>1, <1>2, FirstIsOne
<1>4. QED
  BY <1>3 DEF IsConfig, IsGroup

\* The directory of something that exists exists, or is the root.
LEMMA ParentExists ==
  ASSUME PathAssumption, TreeInv, NEW p \in tree
  PROVE  Parent(p) \in (tree \intersect Dirs) \union {<<>>}
<1>1. p \in Seq(STRING) /\ Len(p) \in Nat
  BY LenProperties DEF TreeInv, PathAssumption
<1>2. CASE Len(p) > 1
  BY <1>1, <1>2 DEF Parent, TreeInv, Closed
<1>3. CASE Len(p) <= 1
  <2>1. SubSeq(p, 1, Len(p) - 1) = <<>>
    BY <1>1, <1>3
  <2>2. QED
    BY <2>1 DEF Parent
<1>4. QED
  BY <1>1, <1>2, <1>3

\* Add keeps the types.
LEMMA AddTypes ==
  ASSUME PathAssumption, TreeInv, WatcherTypes, UNCHANGED tree,
         NEW path \in Files, NEW group, group # NoGroup, Add(path, group)
  PROVE  WatcherTypes'
<1>1. CASE path \in DOMAIN tailers \/ path \notin tree
  BY <1>1 DEF Add, watcherVars, WatcherTypes
<1>2. CASE ~ (path \in DOMAIN tailers \/ path \notin tree)
  <2>1. Parent(path) \in (tree \intersect Dirs) \union {<<>>}
    BY <1>2, ParentExists
  <2>2. /\ tailers' = [p \in DOMAIN tailers \union {path} |->
                          IF p = path THEN group ELSE tailers[p]]
        /\ opens' = [opens EXCEPT ![path] = @ + 1]
        /\ watched' = watched \union {Parent(path)} /\ asked' = asked
        /\ kernel' \subseteq kernel \union {Parent(path)}
    BY <1>2 DEF Add
  <2>3. DOMAIN tailers' \subseteq Files /\ NoGroup \notin {tailers'[f] : f \in DOMAIN tailers'}
    BY <2>2 DEF WatcherTypes
  <2>4. opens' \in [Files -> Nat]
    BY <2>2 DEF WatcherTypes
  <2>5. QED
    BY <2>1, <2>2, <2>3, <2>4 DEF WatcherTypes
<1>3. QED
  BY <1>1, <1>2

\* So does WatchDir.
LEMMA WatchDirTypes ==
  ASSUME TreeInv, WatcherTypes, UNCHANGED tree, NEW d, WatchDir(d)
  PROVE  WatcherTypes'
BY DEF WatchDir, WatcherTypes, TreeInv

\* The goroutines' shapes last while they do nothing.
LEMMA ShapesLast ==
  /\ LoopShape /\ UNCHANGED loop => LoopShape'
  /\ PumpShape /\ UNCHANGED pump => PumpShape'
BY DEF LoopShape, PumpShape, Idle, Running

\* What comes and goes keeps the types.
LEMMA WorldTypes ==
  ASSUME PathAssumption, TypeInv, TreeInv',
         \/ \E p \in Dirs \union Files : Create(p)
         \/ \E d \in Dirs : RemoveDir(d)
  PROVE  TypeInv'
<1>1. ASSUME NEW p \in Dirs \union Files, Create(p)
      PROVE  TypeInv'
  <2>1. queue' \in Seq(Dirs \union Files) /\ unseen' \subseteq Dirs \union Files
    BY <1>1 DEF Create, TypeInv
  <2>2. WatcherTypes'
    BY <1>1 DEF Create, TypeInv, WatcherTypes, watcherVars
  <2>3. QED
    BY <1>1, <2>1, <2>2, ShapesLast DEF Create, TypeInv, pumpVars
<1>2. ASSUME NEW d \in Dirs, RemoveDir(d)
      PROVE  TypeInv'
  <2>1. WatcherTypes' /\ unseen' \subseteq Dirs \union Files
    BY <1>2 DEF RemoveDir, TypeInv, WatcherTypes, TreeInv
  <2>2. /\ UNCHANGED <<queue, loop, pump, fileCfg, reloads>>
        /\ removals' = removals + 1
    BY <1>2 DEF RemoveDir, pumpVars
  <2>3. LoopShape' /\ PumpShape' /\ {reloads, removals}' \subseteq Nat
    BY <2>2, ShapesLast DEF TypeInv
  <2>4. QED
    BY <2>1, <2>2, <2>3 DEF TypeInv
<1>3. QED
  BY <1>1, <1>2

\* The loop goroutine keeps the types.
LEMMA LoopKeepsTypes ==
  ASSUME PathAssumption, TypeInv, TreeInv', Loop
  PROVE  TypeInv'
<1> USE DEF TypeInv
<1>0. ASSUME UNCHANGED <<pumpVars, unseen, removals>>, queue' \in Seq(Dirs \union Files),
             WatcherTypes', LoopShape'
      PROVE  TypeInv'
  BY <1>0, ShapesLast DEF pumpVars
<1>1. CASE LoopEvent
  <2> DEFINE p == Head(queue)
  <2>1. p \in Dirs \union Files /\ queue' \in Seq(Dirs \union Files)
    BY <1>1, HeadTailProperties DEF LoopEvent
  <2>2. LoopShape'
    <3>1. CASE loop' = Idle
      BY <3>1 DEF LoopShape
    <3>2. CASE /\ p \in Files /\ FileMatcher(fileCfg, p) # NoGroup
               /\ loop' = [pc |-> "add", path |-> p, group |-> FileMatcher(fileCfg, p)]
      BY <3>2 DEF LoopShape
    <3>3. CASE p \in Dirs /\ loop' = [pc |-> "newdir", dir |-> p, cfg |-> fileCfg]
      BY <3>3 DEF LoopShape
    <3>4. QED
      BY <1>1, <3>1, <3>2, <3>3 DEF LoopEvent
  <2>3. QED
    BY <1>0, <1>1, <2>1, <2>2 DEF LoopEvent, watcherVars, WatcherTypes
<1>2. CASE LoopAdd
  <2>1. loop.path \in Files /\ loop.group # NoGroup
    BY <1>2 DEF LoopAdd, LoopShape, Idle
  <2>2. WatcherTypes'
    BY <1>2, <2>1, AddTypes DEF LoopAdd
  <2>3. QED
    BY <1>0, <1>2, <2>2 DEF LoopAdd, LoopShape
<1>3. CASE LoopNewDir
  <2>1. PICK d, c : d \in Dirs /\ loop = [pc |-> "newdir", dir |-> d, cfg |-> c]
    BY <1>3 DEF LoopNewDir, LoopShape, Idle
  <2>2. WatcherTypes'
    BY <1>3, <2>1, WatchDirTypes DEF LoopNewDir
  <2>3. loop' = [pc |-> "walk", cfg |-> c, read |-> {d}, visit |-> {}]
    BY <1>3, <2>1 DEF LoopNewDir
  <2>4. LoopShape'
    BY <2>1, <2>3 DEF LoopShape
  <2>5. QED
    BY <1>0, <1>3, <2>2, <2>4 DEF LoopNewDir
<1>4. ASSUME NEW c, NEW R \in SUBSET Dirs, NEW V \in SUBSET (Dirs \union Files),
             loop = [pc |-> "walk", cfg |-> c, read |-> R, visit |-> V],
             LoopRead \/ LoopVisit
      PROVE  TypeInv'
  <2>1. CASE LoopRead
    <3>1. PICK d \in R :
            loop' = [loop EXCEPT !.read = @ \ {d},
                                 !.visit = @ \union (Children(d) \intersect tree)]
      BY <1>4, <2>1 DEF LoopRead
    <3>2. loop' = [pc |-> "walk", cfg |-> c, read |-> R \ {d},
                   visit |-> V \union (Children(d) \intersect tree)]
      BY <1>4, <3>1
    <3>3. LoopShape'
      BY <3>2 DEF LoopShape, Children
    <3>4. QED
      BY <1>0, <2>1, <3>3 DEF LoopRead, watcherVars, WatcherTypes
  <2>2. CASE LoopVisit
    <3>1. PICK p \in V :
            IF p \in Dirs
            THEN /\ IF DirMatcher(dirCfg, p) THEN WatchDir(p) ELSE UNCHANGED watcherVars
                 /\ loop' = [loop EXCEPT !.visit = @ \ {p}, !.read = @ \union {p}]
            ELSE /\ IF FileMatcher(loop.cfg, p) # NoGroup
                    THEN Add(p, FileMatcher(loop.cfg, p))
                    ELSE UNCHANGED watcherVars
                 /\ loop' = [loop EXCEPT !.visit = @ \ {p}]
      BY <1>4, <2>2 DEF LoopVisit
    <3>2. UNCHANGED watcherVars /\ UNCHANGED tree => WatcherTypes'
      BY DEF watcherVars, WatcherTypes
    <3>3. UNCHANGED <<scenario, tree, queue, pumpVars, unseen, removals>>
      BY <2>2 DEF LoopVisit
    <3>4. CASE p \in Dirs
      <4>1. loop' = [pc |-> "walk", cfg |-> c, read |-> R \union {p}, visit |-> V \ {p}]
        BY <1>4, <3>1, <3>4
      <4>2. WatcherTypes'
        BY <3>1, <3>2, <3>3, <3>4, WatchDirTypes
      <4>3. LoopShape'
        BY <3>4, <4>1 DEF LoopShape
      <4>4. QED
        BY <1>0, <3>3, <4>2, <4>3
    <3>5. CASE p \notin Dirs
      <4>1. loop' = [pc |-> "walk", cfg |-> c, read |-> R, visit |-> V \ {p}]
        BY <1>4, <3>1, <3>5
      <4>2. WatcherTypes'
        BY <3>1, <3>2, <3>3, <3>5, AddTypes
      <4>3. LoopShape'
        BY <4>1 DEF LoopShape
      <4>4. QED
        BY <1>0, <3>3, <4>2, <4>3
    <3>6. QED
      BY <3>4, <3>5
  <2>3. QED
    BY <1>4, <2>1, <2>2
<1>5. LoopRead \/ LoopVisit =>
        \E c : \E R \in SUBSET Dirs, V \in SUBSET (Dirs \union Files) :
          loop = [pc |-> "walk", cfg |-> c, read |-> R, visit |-> V]
  <2>1. LoopRead \/ LoopVisit => loop.pc = "walk"
    BY DEF LoopRead, LoopVisit
  <2>2. loop # Idle \/ loop.pc = "idle"
    BY DEF Idle
  <2>3. \A p, g : loop = [pc |-> "add", path |-> p, group |-> g] => loop.pc = "add"
    OBVIOUS
  <2>4. \A d, c : loop = [pc |-> "newdir", dir |-> d, cfg |-> c] => loop.pc = "newdir"
    OBVIOUS
  <2>5. QED
    BY <2>1, <2>2, <2>3, <2>4, Zenon DEF LoopShape
<1>6. CASE LoopWalked
  BY <1>0, <1>6 DEF LoopWalked, LoopShape, watcherVars, WatcherTypes
<1>7. QED
  BY <1>1, <1>2, <1>3, <1>4, <1>5, <1>6 DEF Loop

\* The pump goroutine keeps the types.
LEMMA PumpKeepsTypes ==
  ASSUME PathAssumption, ScenarioAssumption, TypeInv, TreeInv', Pump
  PROVE  TypeInv'
<1> USE DEF TypeInv
<1>0. ASSUME UNCHANGED <<scenario, tree, queue, loop, removals>>, reloads' \in Nat,
             IsConfig(fileCfg'), unseen' \subseteq Dirs \union Files, WatcherTypes', PumpShape'
      PROVE  TypeInv'
  BY <1>0, ShapesLast
<1>a. UNCHANGED watcherVars /\ UNCHANGED tree => WatcherTypes'
  BY DEF watcherVars, WatcherTypes
<1>b. \A cfg, dirs : Overlooked(cfg, dirs) \subseteq Dirs
  BY DEF Overlooked
<1>1. CASE PumpAssign
  <2>1. Assigned(Assign(fileCfg, tree))
    BY AssignTypes
  <2>2. PumpShape'
    BY <1>1, <2>1 DEF PumpAssign, PumpShape
  <2>3. QED
    BY <1>0, <1>1, <1>a, <2>2 DEF PumpAssign
<1>2. CASE PumpReload
  <2>1. PICK i \in DOMAIN scenario.configs :
          pump' = IF AssignFails(scenario.configs[i], tree)
                  THEN Running
                  ELSE [pc |-> "compare", cfg |-> scenario.configs[i], seen |-> tree,
                        assigned |-> Assign(scenario.configs[i], tree)]
    BY <1>2 DEF PumpReload
  <2>2. IsConfig(scenario.configs[i])
    BY ScenarioAssumption DEF TreeInv
  <2>3. Assigned(Assign(scenario.configs[i], tree))
    BY <2>2, AssignTypes
  <2>4. PumpShape'
    <3>1. CASE pump' = Running
      BY <3>1 DEF PumpShape
    <3>2. CASE pump' = [pc |-> "compare", cfg |-> scenario.configs[i], seen |-> tree,
                        assigned |-> Assign(scenario.configs[i], tree)]
      BY <2>2, <2>3, <3>2 DEF PumpShape
    <3>3. QED
      BY <2>1, <3>1, <3>2
  <2>5. reloads' \in Nat
    BY <1>2 DEF PumpReload
  <2>6. QED
    BY <1>0, <1>2, <1>a, <2>4, <2>5 DEF PumpReload
<1>3. CASE PumpCompare
  <2>1. PICK c, s, A : /\ IsConfig(c) /\ Assigned(A)
                       /\ pump = [pc |-> "compare", cfg |-> c, seen |-> s, assigned |-> A]
    BY <1>3 DEF PumpCompare, PumpShape, Running
  <2>2. \/ pump' = [pc |-> "setfile", cfg |-> c]
        \/ \E set : pump' = [pc |-> "new", cfg |-> c, seen |-> s, set |-> set, assigned |-> A]
        \/ pump' = Running
    BY <1>3, <2>1 DEF PumpCompare
  <2>3. PumpShape'
    BY <2>1, <2>2 DEF PumpShape
  <2>4. QED
    BY <1>0, <1>3, <1>a, <2>3 DEF PumpCompare
<1>4. CASE PumpSetFileMatcher
  <2>1. PICK c : IsConfig(c) /\ pump = [pc |-> "setfile", cfg |-> c]
    BY <1>4 DEF PumpSetFileMatcher, PumpShape, Running
  <2>2. pump' = [pc |-> "setdir", cfg |-> c] /\ fileCfg' = c
    BY <1>4, <2>1 DEF PumpSetFileMatcher
  <2>3. PumpShape'
    BY <2>1, <2>2 DEF PumpShape
  <2>4. QED
    BY <1>0, <1>4, <1>a, <2>1, <2>2, <2>3 DEF PumpSetFileMatcher
<1>5. CASE PumpSetDirMatcher
  BY <1>0, <1>5, <1>a, <1>b DEF PumpSetDirMatcher, PumpShape
<1>6. CASE PumpNew
  <2>1. PICK c, s, t, A : /\ IsConfig(c) /\ Assigned(A)
                          /\ pump = [pc |-> "new", cfg |-> c, seen |-> s, set |-> t, assigned |-> A]
    BY <1>6 DEF PumpNew, PumpShape, Running
  <2>2. pump' = [pc |-> "add", cfg |-> c, assigned |-> A, todo |-> A, set |-> t] /\ fileCfg' = c
    BY <1>6, <2>1 DEF PumpNew
  <2>3. PumpShape' /\ LoopShape'
    BY <1>6, <2>1, <2>2 DEF PumpNew, PumpShape, LoopShape
  <2>4. WatcherTypes'
    BY <1>6 DEF PumpNew, WatcherTypes
  <2>5. unseen' \subseteq Dirs \union Files /\ queue' \in Seq(Dirs \union Files)
    BY <1>6 DEF PumpNew, TreeInv
  <2>6. QED
    BY <1>6, <2>1, <2>2, <2>3, <2>4, <2>5 DEF PumpNew
<1>7. ASSUME NEW c, NEW A, NEW T, NEW t, IsConfig(c), Assigned(T),
             pump = [pc |-> "add", cfg |-> c, assigned |-> A, todo |-> T, set |-> t],
             PumpAdd \/ PumpDirs
      PROVE  TypeInv'
  <2>1. CASE PumpAdd
    <3>1. PICK a \in T : Add(a.path, a.group) /\ pump' = [pump EXCEPT !.todo = @ \ {a}]
      BY <1>7, <2>1 DEF PumpAdd
    <3>2. WatcherTypes'
      BY <1>7, <2>1, <3>1, AddTypes DEF PumpAdd, Assigned
    <3>3. pump' = [pc |-> "add", cfg |-> c, assigned |-> A, todo |-> T \ {a}, set |-> t]
      BY <1>7, <3>1
    <3>4. Assigned(T \ {a})
      BY <1>7 DEF Assigned
    <3>5. PumpShape'
      BY <1>7, <3>3, <3>4 DEF PumpShape
    <3>6. QED
      BY <1>0, <2>1, <3>2, <3>5 DEF PumpAdd
  <2>2. CASE PumpDirs
    <3>1. pump' = [pc |-> "dirs", cfg |-> c, assigned |-> A, todo |-> DirsToWatch(c, tree), set |-> t]
      BY <1>7, <2>2 DEF PumpDirs
    <3>2. PumpShape'
      BY <1>7, <3>1 DEF PumpShape
    <3>3. unseen' \subseteq Dirs \union Files
      BY <1>b, <2>2 DEF PumpDirs
    <3>4. QED
      BY <1>0, <1>a, <2>2, <3>2, <3>3 DEF PumpDirs
  <2>3. QED
    BY <1>7, <2>1, <2>2
<1>8. CASE PumpWatchDir
  <2>1. PICK c, A, T, t : /\ IsConfig(c)
                          /\ pump = [pc |-> "dirs", cfg |-> c, assigned |-> A, todo |-> T, set |-> t]
    BY <1>8 DEF PumpWatchDir, PumpShape, Running
  <2>2. PICK d \in T : WatchDir(d) /\ pump' = [pump EXCEPT !.todo = @ \ {d}]
    BY <1>8, <2>1 DEF PumpWatchDir
  <2>3. pump' = [pc |-> "dirs", cfg |-> c, assigned |-> A, todo |-> T \ {d}, set |-> t]
    BY <2>1, <2>2
  <2>4. PumpShape'
    BY <2>1, <2>3 DEF PumpShape
  <2>5. WatcherTypes'
    BY <1>8, <2>2, WatchDirTypes DEF PumpWatchDir
  <2>6. QED
    BY <1>0, <1>8, <2>4, <2>5 DEF PumpWatchDir
<1>9. CASE PumpBuilt
  BY <1>0, <1>9, <1>a DEF PumpBuilt, PumpShape
<1>10. PumpAdd \/ PumpDirs =>
         \E c, A, T, t :
           /\ IsConfig(c) /\ Assigned(T)
           /\ pump = [pc |-> "add", cfg |-> c, assigned |-> A, todo |-> T, set |-> t]
  BY DEF PumpAdd, PumpDirs, PumpShape, Running
<1>11. QED
  BY <1>1, <1>2, <1>3, <1>4, <1>5, <1>6, <1>7, <1>8, <1>9, <1>10 DEF Pump

\* Types hold at the start.
LEMMA TypesAtStart == Init => TypeInv
<1> SUFFICES ASSUME Init PROVE TypeInv
  OBVIOUS
<1>1. TreeInv
  BY ScenarioAssumption DEF Init, TreeInv
<1>2. WatcherTypes
  BY DEF Init, WatcherTypes
<1>3. IsConfig(fileCfg)
  BY ScenarioAssumption DEF Init
<1>4. LoopShape /\ PumpShape
  BY DEF Init, LoopShape, PumpShape
<1>5. QED
  BY <1>1, <1>2, <1>3, <1>4 DEF Init, TypeInv

\* Every step keeps the types.
LEMMA TypesStep == TypeInv /\ [Next]_vars => TypeInv'
<1> SUFFICES ASSUME TypeInv, [Next]_vars PROVE TypeInv'
  OBVIOUS
<1>1. TreeInv'
  BY PathAssumption, TreeStep DEF TypeInv
<1>2. CASE UNCHANGED vars
  BY <1>1, <1>2, ShapesLast DEF vars, watcherVars, pumpVars, TypeInv, WatcherTypes
<1>3. QED
  BY <1>1, <1>2, PathAssumption, ScenarioAssumption, WorldTypes, LoopKeepsTypes,
     PumpKeepsTypes DEF Next

\* Types are kept: the watcher and its goroutines are well typed, only files are
\* tailed, for groups that exist, and the kernel watches nothing that is gone or
\* that the watcher does not know of (watcher.go: Add, WatchDir, handleFsEvent).
THEOREM DiscoveryTypeCorrect == Spec => []TypeOK
<1>1. TypeInv => TypeOK
  <2> SUFFICES ASSUME TypeInv PROVE TypeOK
    OBVIOUS
  <2>1. loop.pc \in {"idle", "add", "newdir", "walk"}
    BY DEF TypeInv, LoopShape, Idle
  <2>2. pump.pc \in {"assign", "run", "compare", "setfile", "setdir", "new", "add", "dirs"}
    BY DEF TypeInv, PumpShape, Running
  <2>3. QED
    BY <2>1, <2>2 DEF TypeInv, WatcherTypes, TreeInv, TypeOK
<1>2. QED
  BY <1>1, TypesAtStart, TypesStep, PTL DEF Spec

-----------------------------------------------------------------------------
(* Nothing is missed: what is known of the paths of the tree.               *)

\* What is in the tree and not excepted.
Noticed == {p \in tree : ~ Unseen(p)}

\* Every directory that is watched is in the kernel or was removed, and every
\* file that is tailed, or about to be, is there or was removed.
KnownDirs ==
  /\ \A d \in watched : d \in kernel \/ Unseen(d)
  /\ \A f \in DOMAIN tailers : Parent(f) \in watched /\ (f \in tree \/ Unseen(f))
  /\ \A i \in DOMAIN queue : Parent(queue[i]) \in watched
  /\ loop.pc = "add" =>
        Parent(loop.path) \in watched /\ (loop.path \in tree \/ Unseen(loop.path))

\* What is excepted stays so until there is a new watcher.
LEMMA UnseenGrows ==
  ASSUME unseen \subseteq unseen', NEW p, Unseen(p)
  PROVE  Unseen(p)'
BY DEF Unseen

\* The directory of a path.
LEMMA ParentIs ==
  ASSUME NEW p \in Seq(STRING), p # <<>>
  PROVE  /\ Parent(p) \in Seq(STRING) /\ Len(Parent(p)) = Len(p) - 1
         /\ \A n \in 0 .. Len(p) - 1 : SubSeq(Parent(p), 1, n) = SubSeq(p, 1, n)
<1> DEFINE d == Parent(p)
           m == Len(p) - 1
<1>1. Len(p) \in Nat \ {0}
  BY EmptySeq, LenProperties
<1>2. m \in Nat /\ m \in Int /\ 1 \in Int /\ \A i \in 1 .. m : p[i] \in STRING
  BY <1>1
<1>3. d = SubSeq(p, 1, m)
  BY DEF Parent
<1> HIDE DEF d, m
<1>4. /\ d \in Seq(STRING)
      /\ Len(d) = IF 1 <= m THEN m - 1 + 1 ELSE 0
      /\ \A i \in 1 .. m - 1 + 1 : d[i] = p[1 + i - 1]
  BY <1>2, <1>3, SubSeqProperties
<1>5. Len(d) = m /\ \A i \in 1 .. m : i = 1 + i - 1
  BY <1>2, <1>4
<1>6. \A i \in 1 .. m : d[i] = p[i]
  BY <1>2, <1>4, <1>5
<1>7. ASSUME NEW n \in 0 .. m
      PROVE  SubSeq(d, 1, n) = SubSeq(p, 1, n)
  BY <1>1, <1>2, <1>4, <1>5, <1>6
<1>8. QED
  BY <1>4, <1>5, <1>7 DEF d, m

\* A path is under a directory if its own is, or is that directory.
LEMMA UnderByParent ==
  ASSUME NEW p \in Seq(STRING), p # <<>>, NEW q \in Seq(STRING)
  PROVE  Under(p, q, TRUE) <=> Parent(p) = q \/ Under(Parent(p), q, TRUE)
<1> DEFINE d == Parent(p)
           m == Len(p)
           n == Len(q)
<1>1. m \in Nat \ {0} /\ n \in Nat
  BY EmptySeq, LenProperties
<1>2. Len(d) = m - 1 /\ \A k \in 0 .. m - 1 : SubSeq(d, 1, k) = SubSeq(p, 1, k)
  BY ParentIs
<1>3. d = SubSeq(p, 1, m - 1)
  BY DEF Parent
<1> HIDE DEF d
<1>4. SUFFICES m > n /\ SubSeq(p, 1, n) = q
               <=> d = q \/ (m - 1 > n /\ SubSeq(d, 1, n) = q)
  BY <1>2 DEF Under, d
<1>5. d = q => m - 1 = n
  BY <1>2
<1> HIDE DEF m, n
<1>6. CASE m <= n
  BY <1>1, <1>5, <1>6
<1>7. CASE m - 1 = n
  BY <1>1, <1>3, <1>7
<1>8. CASE m - 1 > n
  <2>1. SubSeq(d, 1, n) = SubSeq(p, 1, n)
    BY <1>1, <1>2, <1>8
  <2>2. m > n /\ ~ (m - 1 = n)
    BY <1>1, <1>8
  <2>3. QED
    BY <1>5, <1>8, <2>1, <2>2
<1>9. QED
  BY <1>1, <1>6, <1>7, <1>8

\* What is in an excepted directory is excepted.
LEMMA ChildIsUnseen ==
  ASSUME unseen \subseteq Seq(STRING), NEW p \in Seq(STRING), p # <<>>, Unseen(Parent(p))
  PROVE  Unseen(p)
<1>1. PICK q \in unseen : Parent(p) = q \/ Under(Parent(p), q, TRUE)
  BY DEF Unseen
<1>2. Under(p, q, TRUE)
  BY <1>1, UnderByParent
<1>3. QED
  BY <1>2 DEF Unseen

\* With a path that is removed but for the topmost, its directory is.
LEMMA ParentIsRemoved ==
  ASSUME PathAssumption, TreeInv, NEW d \in tree, NEW p \in tree, p # <<>>, Under(p, d, TRUE)
  PROVE  Parent(p) \in tree /\ (Parent(p) = d \/ Under(Parent(p), d, TRUE))
<1>1. p \in Seq(STRING) /\ d \in Seq(STRING)
  BY DEF TreeInv, PathAssumption
<1>2. Parent(p) = d \/ Under(Parent(p), d, TRUE)
  BY <1>1, UnderByParent
<1>3. CASE Parent(p) = d
  BY <1>3
<1>4. CASE Under(Parent(p), d, TRUE)
  <2>1. Parent(p) # <<>>
    <3>1. Len(Parent(p)) > Len(d) /\ Len(d) \in Nat
      BY <1>1, <1>4, LenProperties DEF Under
    <3>2. QED
      BY <3>1
  <2>2. QED
    BY <1>4, <2>1, ParentExists
<1>5. QED
  BY <1>2, <1>3, <1>4

-----------------------------------------------------------------------------
(* Nothing is missed: what the steps do.                                    *)

\* The assignments are of groups that the matcher of a configuration gives...
Agrees(A, cfg) == \A a \in A : Misread(a.path) \/ FileMatcher(cfg, a.path) = a.group

\* ...and there is one for every file of some group.
Picks(A, cfg, S) ==
  \A f \in S \intersect Files :
    ~ Misread(f) /\ FileMatcher(cfg, f) # NoGroup
      => [path |-> f, group |-> FileMatcher(cfg, f)] \in A

\* Assign does both.
LEMMA AssignAgrees ==
  ASSUME PathAssumption, NEW T \in SUBSET (Dirs \union Files), Closed(T),
         NEW cfg, IsConfig(cfg)
  PROVE  Agrees(Assign(cfg, T), cfg) /\ Picks(Assign(cfg, T), cfg, T)
<1>1. ASSUME NEW a \in Assign(cfg, T), ~ Misread(a.path)
      PROVE  FileMatcher(cfg, a.path) = a.group
  <2>1. a.path \in T \intersect Files
    BY DEF Assign
  <2>2. {b \in Assign(cfg, T) : b.path = a.path} =
          IF FileMatcher(cfg, a.path) = NoGroup
          THEN {}
          ELSE {[path |-> a.path, group |-> FileMatcher(cfg, a.path)]}
    BY <1>1, <2>1, MatchersAgree
  <2>3. a \in {b \in Assign(cfg, T) : b.path = a.path}
    OBVIOUS
  <2>4. a = [path |-> a.path, group |-> FileMatcher(cfg, a.path)]
    BY <2>2, <2>3
  <2>5. QED
    BY <2>4
<1>2. ASSUME NEW f \in T \intersect Files, ~ Misread(f), FileMatcher(cfg, f) # NoGroup
      PROVE  [path |-> f, group |-> FileMatcher(cfg, f)] \in Assign(cfg, T)
  <2>1. {b \in Assign(cfg, T) : b.path = f} =
          {[path |-> f, group |-> FileMatcher(cfg, f)]}
    BY <1>2, MatchersAgree
  <2>2. QED
    BY <2>1
<1>3. QED
  BY <1>1, <1>2 DEF Agrees, Picks

\* What Add does: it gives a path that exists its tailer, and adds no directory
\* to those that are watched for what appears in them.
LEMMA AddDoes ==
  ASSUME WatcherTypes, NEW path, NEW group, Add(path, group)
  PROVE  /\ asked' = asked /\ kernel \subseteq kernel' /\ watched \subseteq watched'
         /\ asked \intersect kernel' \subseteq kernel
         /\ watched' \ watched \subseteq kernel'
         /\ DOMAIN tailers \subseteq DOMAIN tailers'
         /\ path \in tree => path \in DOMAIN tailers'
         /\ \A f \in DOMAIN tailers' :
              \/ f \in DOMAIN tailers /\ tailers'[f] = tailers[f]
              \/ f = path /\ f \in tree /\ tailers'[f] = group /\ Parent(f) \in watched'
<1>1. CASE path \in DOMAIN tailers \/ path \notin tree
  BY <1>1 DEF Add, watcherVars
<1>2. CASE ~ (path \in DOMAIN tailers \/ path \notin tree)
  <2>1. tailers' = [p \in DOMAIN tailers \union {path} |->
                      IF p = path THEN group ELSE tailers[p]]
    BY <1>2 DEF Add
  <2>2. /\ watched' = watched \union {Parent(path)} /\ asked' = asked
        /\ kernel' = IF Parent(path) \in watched THEN kernel ELSE kernel \union {Parent(path)}
    BY <1>2 DEF Add
  <2>3. kernel \subseteq watched /\ asked \subseteq watched
    BY DEF WatcherTypes
  <2>4. asked \intersect kernel' \subseteq kernel /\ watched' \ watched \subseteq kernel'
    BY <2>2, <2>3
  <2>5. QED
    BY <1>2, <2>1, <2>2, <2>4
<1>3. QED
  BY <1>1, <1>2

\* What WatchDir does: a directory that exists is watched, if it was not before.
LEMMA WatchDirDoes ==
  ASSUME WatcherTypes, NEW d, WatchDir(d)
  PROVE  /\ UNCHANGED tailers
         /\ kernel \subseteq kernel' /\ kernel' \subseteq kernel \union {d}
         /\ asked \subseteq asked' /\ asked' \subseteq asked \union {d}
         /\ watched \subseteq watched' /\ watched' \ watched \subseteq kernel'
         /\ d \in tree => d \in asked' /\ (d \in kernel' \/ d \in watched)
BY DEF WatchDir, WatcherTypes

\* What the loop goroutine holds in a walk.
LEMMA WalkShape ==
  ASSUME LoopShape, loop.pc = "walk"
  PROVE  \E c : \E R \in SUBSET Dirs, V \in SUBSET (Dirs \union Files) :
           loop = [pc |-> "walk", cfg |-> c, read |-> R, visit |-> V]
<1>1. loop # Idle
  BY DEF Idle
<1>2. \A p, g : loop # [pc |-> "add", path |-> p, group |-> g]
  OBVIOUS
<1>3. \A d, c : loop # [pc |-> "newdir", dir |-> d, cfg |-> c]
  OBVIOUS
<1>4. QED
  BY <1>1, <1>2, <1>3, Zenon DEF LoopShape

\* A watcher that is being put together.
LEMMA BuildShape ==
  ASSUME PumpShape, pump.pc \in {"add", "dirs"}
  PROVE  \E c, A, T, t :
           pump = [pc |-> pump.pc, cfg |-> c, assigned |-> A, todo |-> T, set |-> t]
BY DEF PumpShape, Running

\* What the loop goroutine is about to add is a file.
LEMMA AddsFiles ==
  ASSUME LoopShape, loop.pc = "add"
  PROVE  loop.path \in Files
BY DEF LoopShape, Idle

\* What the walk reads next.
LEMMA ReadDoes ==
  ASSUME LoopShape, LoopRead
  PROVE  \E d \in loop.read :
           /\ loop'.pc = "walk" /\ loop'.cfg = loop.cfg
           /\ loop'.read = loop.read \ {d}
           /\ loop'.visit = loop.visit \union (Children(d) \intersect tree)
<1>1. PICK c, R, V : loop = [pc |-> "walk", cfg |-> c, read |-> R, visit |-> V]
  BY WalkShape DEF LoopRead
<1>2. QED
  BY <1>1 DEF LoopRead

\* What the walk visits next.
LEMMA VisitDoes ==
  ASSUME LoopShape, LoopVisit
  PROVE  \E p \in loop.visit :
           /\ loop'.pc = "walk" /\ loop'.cfg = loop.cfg
           /\ loop'.visit = loop.visit \ {p}
           /\ \/ /\ p \in Dirs /\ loop'.read = loop.read \union {p}
                 /\ IF DirMatcher(dirCfg, p) THEN WatchDir(p) ELSE UNCHANGED watcherVars
              \/ /\ p \in Files /\ loop'.read = loop.read
                 /\ IF FileMatcher(loop.cfg, p) # NoGroup
                    THEN Add(p, FileMatcher(loop.cfg, p))
                    ELSE UNCHANGED watcherVars
<1>1. PICK c : \E R \in SUBSET Dirs, V \in SUBSET (Dirs \union Files) :
        loop = [pc |-> "walk", cfg |-> c, read |-> R, visit |-> V]
  BY WalkShape DEF LoopVisit
<1>2. PICK R \in SUBSET Dirs, V \in SUBSET (Dirs \union Files) :
        loop = [pc |-> "walk", cfg |-> c, read |-> R, visit |-> V]
  BY <1>1
<1>3. PICK p \in V :
        IF p \in Dirs
        THEN /\ IF DirMatcher(dirCfg, p) THEN WatchDir(p) ELSE UNCHANGED watcherVars
             /\ loop' = [loop EXCEPT !.visit = @ \ {p}, !.read = @ \union {p}]
        ELSE /\ IF FileMatcher(loop.cfg, p) # NoGroup
                THEN Add(p, FileMatcher(loop.cfg, p))
                ELSE UNCHANGED watcherVars
             /\ loop' = [loop EXCEPT !.visit = @ \ {p}]
  BY <1>2 DEF LoopVisit
<1>4. p \in loop.visit /\ (p \in Dirs \/ p \in Files)
  BY <1>2
<1>5. CASE p \in Dirs
  <2>1. loop' = [pc |-> "walk", cfg |-> c, read |-> R \union {p}, visit |-> V \ {p}]
    BY <1>2, <1>3, <1>5
  <2>2. IF DirMatcher(dirCfg, p) THEN WatchDir(p) ELSE UNCHANGED watcherVars
    BY <1>3, <1>5
  <2>3. QED
    BY <1>2, <1>4, <1>5, <2>1, <2>2
<1>6. CASE p \notin Dirs
  <2>1. loop' = [pc |-> "walk", cfg |-> c, read |-> R, visit |-> V \ {p}]
    BY <1>2, <1>3, <1>6
  <2>2. IF FileMatcher(loop.cfg, p) # NoGroup
        THEN Add(p, FileMatcher(loop.cfg, p))
        ELSE UNCHANGED watcherVars
    BY <1>3, <1>6
  <2>3. QED
    BY <1>2, <1>4, <1>6, <2>1, <2>2
<1>7. QED
  BY <1>5, <1>6

\* What is left to do when an assignment or a directory has been dealt with.
LEMMA TodoShrinks ==
  ASSUME PumpShape, PumpAdd \/ PumpWatchDir,
         NEW x, pump' = [pump EXCEPT !.todo = @ \ {x}]
  PROVE  /\ pump'.pc = pump.pc /\ pump'.cfg = pump.cfg /\ pump'.assigned = pump.assigned
         /\ pump'.set = pump.set /\ pump'.todo = pump.todo \ {x}
<1>1. PICK c, A, T, t :
        pump = [pc |-> pump.pc, cfg |-> c, assigned |-> A, todo |-> T, set |-> t]
  BY BuildShape DEF PumpAdd, PumpWatchDir
<1>2. QED
  BY <1>1

-----------------------------------------------------------------------------
(* Nothing is missed: the watcher knows what it watches.                    *)

\* What KnownDirs says of the watches and the tailers.
KnownWatches ==
  /\ \A d \in watched : d \in kernel \/ Unseen(d)
  /\ \A f \in DOMAIN tailers : Parent(f) \in watched /\ (f \in tree \/ Unseen(f))

\* Add keeps it.
LEMMA AddKeepsKnown ==
  ASSUME WatcherTypes, KnownWatches, UNCHANGED <<tree, unseen>>,
         NEW path, NEW group, Add(path, group)
  PROVE  KnownWatches' /\ watched \subseteq watched'
<1>1. /\ kernel \subseteq kernel' /\ watched \subseteq watched'
      /\ watched' \ watched \subseteq kernel'
      /\ \A f \in DOMAIN tailers' :
           f \in DOMAIN tailers \/ (f = path /\ f \in tree /\ Parent(f) \in watched')
  BY AddDoes
<1>2. \A p : Unseen(p)' <=> Unseen(p)
  BY DEF Unseen
<1>3. QED
  BY <1>1, <1>2 DEF KnownWatches

\* So does WatchDir.
LEMMA WatchDirKeepsKnown ==
  ASSUME WatcherTypes, KnownWatches, UNCHANGED <<tree, unseen>>,
         NEW d, WatchDir(d)
  PROVE  KnownWatches' /\ watched \subseteq watched'
<1>1. /\ kernel \subseteq kernel' /\ watched \subseteq watched'
      /\ watched' \ watched \subseteq kernel' /\ tailers' = tailers
  BY WatchDirDoes
<1>2. \A p : Unseen(p)' <=> Unseen(p)
  BY DEF Unseen
<1>3. QED
  BY <1>1, <1>2 DEF KnownWatches

\* What comes and goes keeps it too.
LEMMA WorldKeepsKnown ==
  ASSUME PathAssumption, TypeInv, KnownDirs,
         \/ \E p \in Dirs \union Files : Create(p)
         \/ \E d \in Dirs : RemoveDir(d)
  PROVE  KnownDirs'
<1>1. ASSUME NEW p \in Dirs \union Files, Create(p)
      PROVE  KnownDirs'
  <2>1. /\ UNCHANGED <<kernel, watched, tailers, loop>> /\ tree \subseteq tree'
        /\ unseen \subseteq unseen'
        /\ queue' = IF Parent(p) \in kernel THEN Append(queue, p) ELSE queue
    BY <1>1 DEF Create, watcherVars
  <2>2. \A i \in DOMAIN queue' : Parent(queue'[i]) \in watched
    <3>1. queue \in Seq(Dirs \union Files) /\ kernel \subseteq watched
      BY DEF TypeInv, WatcherTypes
    <3>2. CASE Parent(p) \in kernel
      <4>1. \A i \in DOMAIN queue' : queue'[i] = p \/ (i \in DOMAIN queue /\ queue'[i] = queue[i])
        BY <2>1, <3>1, <3>2, AppendProperties
      <4>2. QED
        BY <3>1, <3>2, <4>1 DEF KnownDirs
    <3>3. CASE Parent(p) \notin kernel
      BY <2>1, <3>3 DEF KnownDirs
    <3>4. QED
      BY <3>2, <3>3
  <2>3. \A q : Unseen(q) => Unseen(q)'
    BY <2>1, UnseenGrows
  <2>4. QED
    BY <2>1, <2>2, <2>3 DEF KnownDirs
<1>2. ASSUME NEW d \in Dirs, RemoveDir(d)
      PROVE  KnownDirs'
  <2> DEFINE gone == {p \in tree : p = d \/ Under(p, d, TRUE)}
  <2>1. /\ UNCHANGED <<watched, tailers, loop, queue>> /\ tree' = tree \ gone
        /\ kernel' = kernel \ gone /\ unseen' = unseen \union (gone \intersect watched)
        /\ d \in gone
    BY <1>2 DEF RemoveDir
  <2>2. \A q : Unseen(q) => Unseen(q)'
    BY <2>1, UnseenGrows
  <2>3. \A q \in watched : q \in kernel' \/ Unseen(q)'
    BY <2>1, <2>2 DEF KnownDirs, Unseen
  <2>4. ASSUME NEW f \in Files, Parent(f) \in watched, f \in gone
        PROVE  Unseen(f)'
    <3>1. f \in tree /\ d \in tree /\ f # <<>> /\ f \in Seq(STRING)
      BY <2>1, <2>4 DEF PathAssumption
    <3>2. Under(f, d, TRUE)
      BY <2>4 DEF PathAssumption
    <3>3. Parent(f) \in gone
      BY <3>1, <3>2, ParentIsRemoved DEF TypeInv
    <3>4. Parent(f) \in unseen'
      BY <2>1, <2>4, <3>3
    <3>5. Under(f, Parent(f), TRUE)
      <4>1. Parent(f) \in Seq(STRING)
        BY <3>1, ParentIs
      <4>2. QED
        BY <3>1, <4>1, UnderByParent
    <3>6. QED
      BY <3>4, <3>5 DEF Unseen
  <2>5. \A f \in DOMAIN tailers : f \in Files
    BY DEF TypeInv, WatcherTypes
  <2>6. loop.pc = "add" => loop.path \in Files
    BY AddsFiles DEF TypeInv
  <2>7. QED
    BY <2>1, <2>2, <2>3, <2>4, <2>5, <2>6 DEF KnownDirs
<1>3. QED
  BY <1>1, <1>2

\* The loop goroutine keeps it.
LEMMA LoopKeepsKnown ==
  ASSUME TypeInv, KnownDirs, Loop
  PROVE  KnownDirs'
<1>0. UNCHANGED <<tree, unseen>> /\ WatcherTypes /\ LoopShape /\ KnownWatches
  BY DEF Loop, LoopEvent, LoopAdd, LoopNewDir, LoopRead, LoopVisit, LoopWalked,
         TypeInv, KnownDirs, KnownWatches
<1>1. \A p : Unseen(p)' <=> Unseen(p)
  BY <1>0 DEF Unseen
<1>2. ASSUME KnownWatches', watched \subseteq watched', UNCHANGED queue, loop'.pc # "add"
      PROVE  KnownDirs'
  BY <1>0, <1>1, <1>2 DEF KnownDirs, KnownWatches
<1>3. UNCHANGED watcherVars => KnownWatches' /\ watched \subseteq watched'
  BY <1>0, <1>1 DEF KnownWatches, watcherVars
<1>4. CASE LoopEvent
  <2> DEFINE p == Head(queue)
  <2>1. queue \in Seq(Dirs \union Files) /\ queue # <<>> /\ queue' = Tail(queue)
    BY <1>4 DEF LoopEvent, TypeInv
  <2>2. Parent(p) \in watched /\ \A i \in DOMAIN queue' : Parent(queue'[i]) \in watched
    <3>1. /\ Len(queue) \in Nat \ {0} /\ DOMAIN queue = 1 .. Len(queue) /\ p = queue[1]
          /\ DOMAIN queue' = 1 .. Len(queue) - 1
          /\ \A i \in 1 .. Len(queue) - 1 : queue'[i] = queue[i + 1]
      BY <2>1
    <3>2. \A i \in 1 .. Len(queue) - 1 : i + 1 \in DOMAIN queue
      BY <3>1
    <3>3. 1 \in DOMAIN queue
      BY <3>1
    <3>4. QED
      BY <3>1, <3>2, <3>3 DEF KnownDirs
  <2>3. \/ loop'.pc # "add"
        \/ loop'.pc = "add" /\ loop'.path = p /\ p \in tree
    <3>1. CASE loop' = Idle
      BY <3>1 DEF Idle
    <3>2. CASE p \in tree /\ loop' = [pc |-> "add", path |-> p, group |-> FileMatcher(fileCfg, p)]
      BY <3>2
    <3>3. CASE loop' = [pc |-> "newdir", dir |-> p, cfg |-> fileCfg]
      BY <3>3
    <3>4. QED
      BY <1>4, <3>1, <3>2, <3>3 DEF LoopEvent
  <2>4. UNCHANGED <<watched, tailers, kernel>>
    BY <1>4 DEF LoopEvent, watcherVars
  <2>5. QED
    BY <1>0, <1>1, <2>2, <2>3, <2>4 DEF KnownDirs
<1>5. CASE LoopAdd
  BY <1>0, <1>2, <1>5, AddKeepsKnown DEF LoopAdd, Idle
<1>6. CASE LoopNewDir
  BY <1>0, <1>2, <1>6, WatchDirKeepsKnown DEF LoopNewDir
<1>7. CASE LoopRead
  <2>1. loop'.pc = "walk"
    BY <1>0, <1>7, ReadDoes
  <2>2. QED
    BY <1>2, <1>3, <1>7, <2>1 DEF LoopRead
<1>8. CASE LoopVisit
  <2>1. PICK p \in loop.visit :
          /\ loop'.pc = "walk"
          /\ \/ IF DirMatcher(dirCfg, p) THEN WatchDir(p) ELSE UNCHANGED watcherVars
             \/ IF FileMatcher(loop.cfg, p) # NoGroup
                THEN Add(p, FileMatcher(loop.cfg, p))
                ELSE UNCHANGED watcherVars
    BY <1>0, <1>8, VisitDoes
  <2>2. KnownWatches' /\ watched \subseteq watched'
    BY <1>0, <1>3, <2>1, AddKeepsKnown, WatchDirKeepsKnown
  <2>3. QED
    BY <1>2, <1>8, <2>1, <2>2 DEF LoopVisit
<1>9. CASE LoopWalked
  BY <1>2, <1>3, <1>9 DEF LoopWalked, Idle
<1>10. QED
  BY <1>4, <1>5, <1>6, <1>7, <1>8, <1>9 DEF Loop

\* So does the pump goroutine, and every step.
LEMMA KnownStep == TypeInv /\ KnownDirs /\ [Next]_vars => KnownDirs'
<1> SUFFICES ASSUME TypeInv, KnownDirs, [Next]_vars
             PROVE  KnownDirs'
  OBVIOUS
<1>1. ASSUME UNCHANGED <<queue, loop, tree>>, unseen \subseteq unseen',
             \/ UNCHANGED <<kernel, watched, tailers>>
             \/ (KnownWatches' /\ watched \subseteq watched')
      PROVE  KnownDirs'
  <2>1. \A q : Unseen(q) => Unseen(q)'
    BY <1>1, UnseenGrows
  <2>2. QED
    BY <1>1, <2>1 DEF KnownDirs, KnownWatches
<1>2. WatcherTypes /\ KnownWatches
  BY DEF TypeInv, KnownDirs, KnownWatches
<1>3. CASE Pump
  <2>1. CASE PumpNew
    BY <2>1 DEF PumpNew, KnownDirs, Idle
  <2>2. CASE PumpAdd
    BY <1>1, <1>2, <2>2, AddKeepsKnown DEF PumpAdd
  <2>3. CASE PumpWatchDir
    BY <1>1, <1>2, <2>3, WatchDirKeepsKnown DEF PumpWatchDir
  <2>4. CASE PumpAssign \/ PumpReload \/ PumpCompare \/ PumpSetFileMatcher
    BY <1>1, <2>4 DEF PumpAssign, PumpReload, PumpCompare, PumpSetFileMatcher, watcherVars
  <2>5. CASE PumpSetDirMatcher \/ PumpDirs \/ PumpBuilt
    BY <1>1, <2>5 DEF PumpSetDirMatcher, PumpDirs, PumpBuilt, watcherVars
  <2>6. QED
    BY <1>3, <2>1, <2>2, <2>3, <2>4, <2>5 DEF Pump
<1>4. CASE UNCHANGED vars
  BY <1>1, <1>4 DEF vars, watcherVars
<1>5. QED
  BY <1>3, <1>4, PathAssumption, WorldKeepsKnown, LoopKeepsKnown DEF Next

-----------------------------------------------------------------------------
(* Nothing is missed: what the pump goroutine knows of its configurations.  *)

Building == pump.pc \in {"add", "dirs"}
Serving == pump.pc \in {"run", "compare", "setfile", "setdir"}

\* What is assigned agrees with the matcher that is going to be used, and holds
\* what was seen; and what the pump takes for its watch-set with the matcher that
\* is in use.
PumpKnows ==
  /\ pump.pc \in {"compare", "new", "add", "dirs"} => Agrees(pump.assigned, pump.cfg)
  /\ pump.pc \in {"compare", "new"} => Picks(pump.assigned, pump.cfg, pump.seen)
  /\ pump.pc = "compare" => Noticed \subseteq pump.seen
  /\ pump.pc \in {"new", "add", "dirs"} => pump.set = NoSet \/ pump.set.files = pump.assigned
  /\ Building => fileCfg = pump.cfg /\ dirCfg = pump.cfg
  /\ pump.pc = "add" => pump.todo \subseteq pump.assigned
  /\ Serving => Agrees(curSet.files, fileCfg)
  /\ pump.pc = "setfile" =>
       Agrees(curSet.files, pump.cfg) /\ Picks(curSet.files, pump.cfg, Noticed)

\* What comes and goes while a reload is under way is not noticed.
LEMMA WorldNoticed ==
  ASSUME pump.pc \in {"compare", "setfile"},
         \/ \E p \in Dirs \union Files : Create(p)
         \/ \E d \in Dirs : RemoveDir(d)
  PROVE  Noticed' \subseteq Noticed
<1>1. ASSUME NEW p \in Dirs \union Files, Create(p)
      PROVE  Noticed' \subseteq Noticed
  <2>1. Early(p)
    BY DEF Early
  <2>2. tree' = tree \union {p} /\ unseen' = unseen \union {p}
    BY <1>1, <2>1 DEF Create
  <2>3. QED
    BY <2>2 DEF Noticed, Unseen
<1>2. ASSUME NEW d \in Dirs, RemoveDir(d)
      PROVE  Noticed' \subseteq Noticed
  <2>1. tree' \subseteq tree /\ unseen \subseteq unseen'
    BY <1>2 DEF RemoveDir
  <2>2. QED
    BY <2>1 DEF Noticed, Unseen
<1>3. QED
  BY <1>1, <1>2

\* Steps that leave the pump alone.
LEMMA WorldKeepsPump ==
  ASSUME PumpKnows, UNCHANGED <<pump, curSet, fileCfg, dirCfg>>,
         pump.pc \in {"compare", "setfile"} => Noticed' \subseteq Noticed
  PROVE  PumpKnows'
BY DEF PumpKnows, Building, Serving, Picks

\* The pump's own steps.
LEMMA PumpKeepsPump ==
  ASSUME PathAssumption, ScenarioAssumption, TypeInv, PumpKnows, Pump
  PROVE  PumpKnows'
<1>1. CASE PumpAssign
  <2>1. /\ pump' = [pc |-> "new", cfg |-> fileCfg, seen |-> tree, set |-> NoSet,
                    assigned |-> Assign(fileCfg, tree)]
        /\ pump.pc = "assign" /\ UNCHANGED <<tree, unseen, curSet, fileCfg, dirCfg>>
    BY <1>1 DEF PumpAssign
  <2>2. /\ Agrees(Assign(fileCfg, tree), fileCfg)
        /\ Picks(Assign(fileCfg, tree), fileCfg, tree)
    BY AssignAgrees DEF TypeInv, TreeInv
  <2>3. QED
    BY <2>1, <2>2 DEF PumpKnows, Building, Serving
<1>2. CASE PumpReload
  <2>1. PICK i \in DOMAIN scenario.configs :
          \/ pump' = Running
          \/ pump' = [pc |-> "compare", cfg |-> scenario.configs[i], seen |-> tree,
                      assigned |-> Assign(scenario.configs[i], tree)]
    BY <1>2 DEF PumpReload
  <2> DEFINE cfg == scenario.configs[i]
  <2>2. UNCHANGED <<tree, unseen, curSet, fileCfg, dirCfg>> /\ pump.pc = "run"
    BY <1>2 DEF PumpReload, Running
  <2>3. IsConfig(cfg)
    BY ScenarioAssumption DEF TypeInv, TreeInv
  <2>4. Agrees(Assign(cfg, tree), cfg) /\ Picks(Assign(cfg, tree), cfg, tree)
    BY <2>3, AssignAgrees DEF TypeInv, TreeInv
  <2>5. Agrees(curSet.files, fileCfg)
    BY <2>2 DEF PumpKnows, Serving
  <2>6. Noticed' \subseteq tree
    BY <2>2 DEF Noticed
  <2> HIDE DEF cfg
  <2>7. CASE pump' = Running
    BY <2>2, <2>5, <2>7 DEF PumpKnows, Building, Serving, Running
  <2>8. CASE pump' = [pc |-> "compare", cfg |-> cfg, seen |-> tree,
                      assigned |-> Assign(cfg, tree)]
    BY <2>2, <2>4, <2>5, <2>6, <2>8 DEF PumpKnows, Building, Serving
  <2>9. QED
    BY <2>1, <2>7, <2>8 DEF cfg
<1>3. CASE PumpCompare
  <2> DEFINE set == WatchSetOf(pump.assigned, pump.cfg, tree)
  <2>1. /\ pump.pc = "compare" /\ UNCHANGED <<tree, unseen, curSet, fileCfg, dirCfg>>
        /\ \/ set = curSet /\ pump' = [pc |-> "setfile", cfg |-> pump.cfg]
           \/ pump' = [pc |-> "new", cfg |-> pump.cfg, seen |-> pump.seen,
                       set |-> set, assigned |-> pump.assigned]
           \/ pump' = Running
    BY <1>3 DEF PumpCompare
  <2>2. set.files = pump.assigned
    BY DEF WatchSetOf
  <2>3. /\ Agrees(pump.assigned, pump.cfg) /\ Picks(pump.assigned, pump.cfg, pump.seen)
        /\ Noticed \subseteq pump.seen /\ Agrees(curSet.files, fileCfg)
    BY <2>1 DEF PumpKnows, Serving
  <2> HIDE DEF set
  <2>4. CASE set = curSet /\ pump' = [pc |-> "setfile", cfg |-> pump.cfg]
    <3>1. Picks(curSet.files, pump.cfg, Noticed)
      BY <2>2, <2>3, <2>4 DEF Picks
    <3>2. Noticed' = Noticed
      BY <2>1 DEF Noticed, Unseen
    <3>3. QED
      BY <2>1, <2>2, <2>3, <2>4, <3>1, <3>2 DEF PumpKnows, Building, Serving
  <2>5. CASE pump' = [pc |-> "new", cfg |-> pump.cfg, seen |-> pump.seen,
                      set |-> set, assigned |-> pump.assigned]
    BY <2>1, <2>2, <2>3, <2>5 DEF PumpKnows, Building, Serving
  <2>6. CASE pump' = Running
    BY <2>1, <2>3, <2>6 DEF PumpKnows, Building, Serving, Running
  <2>7. QED
    BY <2>1, <2>4, <2>5, <2>6
<1>4. CASE PumpSetFileMatcher
  <2>1. PICK c : pump = [pc |-> "setfile", cfg |-> c]
    BY <1>4 DEF PumpSetFileMatcher, TypeInv, PumpShape, Running
  <2>2. pump' = [pc |-> "setdir", cfg |-> c] /\ fileCfg' = c /\ curSet' = curSet
    BY <1>4, <2>1 DEF PumpSetFileMatcher
  <2>3. Agrees(curSet.files, c)
    BY <2>1 DEF PumpKnows
  <2>4. QED
    BY <2>2, <2>3 DEF PumpKnows, Building, Serving
<1>5. CASE PumpSetDirMatcher
  BY <1>5 DEF PumpSetDirMatcher, PumpKnows, Building, Serving, Running
<1>6. CASE PumpNew
  <2>1. /\ pump.pc = "new" /\ fileCfg' = pump.cfg /\ dirCfg' = pump.cfg
        /\ pump' = [pc |-> "add", cfg |-> pump.cfg, assigned |-> pump.assigned,
                    todo |-> pump.assigned, set |-> pump.set]
    BY <1>6 DEF PumpNew
  <2>2. QED
    BY <2>1 DEF PumpKnows, Building, Serving
<1>7. CASE PumpAdd
  <2>1. PICK a \in pump.todo : pump' = [pump EXCEPT !.todo = @ \ {a}]
    BY <1>7 DEF PumpAdd
  <2>2. /\ pump'.pc = pump.pc /\ pump'.cfg = pump.cfg /\ pump'.assigned = pump.assigned
        /\ pump'.set = pump.set /\ pump'.todo = pump.todo \ {a}
    BY <1>7, <2>1, TodoShrinks DEF TypeInv
  <2>3. UNCHANGED <<fileCfg, dirCfg>> /\ pump.pc = "add"
    BY <1>7 DEF PumpAdd
  <2>4. QED
    BY <2>2, <2>3 DEF PumpKnows, Building, Serving
<1>8. CASE PumpDirs
  <2>1. PICK c, A, T, t :
          pump = [pc |-> "add", cfg |-> c, assigned |-> A, todo |-> T, set |-> t]
    BY <1>8, BuildShape DEF PumpDirs, TypeInv
  <2>2. pump' = [pc |-> "dirs", cfg |-> c, assigned |-> A, todo |-> DirsToWatch(c, tree),
                 set |-> t]
    BY <1>8, <2>1 DEF PumpDirs
  <2>3. UNCHANGED <<fileCfg, dirCfg>>
    BY <1>8 DEF PumpDirs
  <2>4. QED
    BY <2>1, <2>2, <2>3 DEF PumpKnows, Building, Serving
<1>9. CASE PumpWatchDir
  <2>1. PICK d \in pump.todo : pump' = [pump EXCEPT !.todo = @ \ {d}]
    BY <1>9 DEF PumpWatchDir
  <2>2. /\ pump'.pc = pump.pc /\ pump'.cfg = pump.cfg /\ pump'.assigned = pump.assigned
        /\ pump'.set = pump.set
    BY <1>9, <2>1, TodoShrinks DEF TypeInv
  <2>3. UNCHANGED <<fileCfg, dirCfg>> /\ pump.pc = "dirs"
    BY <1>9 DEF PumpWatchDir
  <2>4. QED
    BY <2>2, <2>3 DEF PumpKnows, Building, Serving
<1>10. CASE PumpBuilt
  <2>1. pump.pc = "dirs" /\ pump' = Running /\ UNCHANGED <<fileCfg, dirCfg>>
    BY <1>10 DEF PumpBuilt
  <2>2. curSet'.files = pump.assigned
    BY <1>10, <2>1 DEF PumpBuilt, PumpKnows, WatchSetOf
  <2>3. Agrees(pump.assigned, fileCfg)
    BY <2>1 DEF PumpKnows, Building
  <2>4. QED
    BY <2>1, <2>2, <2>3 DEF PumpKnows, Building, Serving, Running
<1>11. QED
  BY <1>1, <1>2, <1>3, <1>4, <1>5, <1>6, <1>7, <1>8, <1>9, <1>10 DEF Pump

\* Every step keeps what the pump knows.
LEMMA PumpKnowsStep == TypeInv /\ PumpKnows /\ [Next]_vars => PumpKnows'
<1> SUFFICES ASSUME TypeInv, PumpKnows, [Next]_vars
             PROVE  PumpKnows'
  OBVIOUS
<1>1. CASE \/ \E p \in Dirs \union Files : Create(p)
           \/ \E d \in Dirs : RemoveDir(d)
  <2>1. UNCHANGED <<pump, curSet, fileCfg, dirCfg>>
    BY <1>1 DEF Create, RemoveDir, pumpVars
  <2>2. pump.pc \in {"compare", "setfile"} => Noticed' \subseteq Noticed
    BY <1>1, WorldNoticed
  <2>3. QED
    BY <2>1, <2>2, WorldKeepsPump
<1>2. CASE Loop \/ UNCHANGED vars
  <2>1. UNCHANGED <<pump, curSet, fileCfg, dirCfg, tree, unseen>>
    BY <1>2 DEF Loop, LoopEvent, LoopAdd, LoopNewDir, LoopRead, LoopVisit, LoopWalked,
                vars, pumpVars
  <2>2. Noticed' = Noticed
    BY <2>1 DEF Noticed, Unseen
  <2>3. QED
    BY <2>1, <2>2, WorldKeepsPump
<1>3. QED
  BY <1>1, <1>2, PathAssumption, ScenarioAssumption, PumpKeepsPump DEF Next

-----------------------------------------------------------------------------
(* Nothing is missed: every file is tailed for the right group.             *)

\* A file that is noticed and belongs to some group belongs to g.
Right(f, g) ==
  ~ Unseen(f) /\ ~ Misread(f) /\ FileMatcher(fileCfg, f) # NoGroup
    => g = FileMatcher(fileCfg, f)

\* So it is with the group a tailer has, or gets, although the matcher that is
\* in use may be replaced between the choice of the group and the opening.
RightGroups ==
  /\ \A f \in DOMAIN tailers : Right(f, tailers[f])
  /\ loop.pc = "add" => Right(loop.path, loop.group)
  /\ loop.pc \in {"newdir", "walk"} =>
       \A f \in tree \intersect Files : Right(f, FileMatcher(loop.cfg, f))

\* With the same matcher, what was right is.
LEMMA RightLasts ==
  ASSUME unseen \subseteq unseen', UNCHANGED fileCfg, NEW f, NEW g, Right(f, g)
  PROVE  Right(f, g)'
BY UnseenGrows DEF Right

\* What comes and goes: a file that appears in a walk whose matcher is not the
\* one in use is not noticed if the two disagree about it.
LEMMA WorldKeepsRight ==
  ASSUME RightGroups,
         \/ \E p \in Dirs \union Files : Create(p)
         \/ \E d \in Dirs : RemoveDir(d)
  PROVE  RightGroups'
<1>1. UNCHANGED <<tailers, loop, fileCfg>> /\ unseen \subseteq unseen'
  BY DEF Create, RemoveDir, watcherVars, pumpVars
<1>2. \A f, g : Right(f, g) => Right(f, g)'
  BY <1>1, RightLasts
<1>3. ASSUME loop.pc \in {"newdir", "walk"}, NEW f \in tree' \intersect Files
      PROVE  Right(f, FileMatcher(loop.cfg, f))'
  <2>1. CASE f \in tree
    <3>1. Right(f, FileMatcher(loop.cfg, f))
      BY <1>3, <2>1 DEF RightGroups
    <3>2. QED
      BY <1>1, <3>1, RightLasts DEF Right
  <2>2. CASE f \notin tree
    <3>1. Create(f)
      BY <1>3, <2>2 DEF Create, RemoveDir
    <3>2. CASE FileMatcher(loop.cfg, f) # FileMatcher(fileCfg, f)
      <4>1. f \in unseen'
        BY <1>3, <3>1, <3>2 DEF Create, Early
      <4>2. QED
        BY <4>1 DEF Right, Unseen
    <3>3. CASE FileMatcher(loop.cfg, f) = FileMatcher(fileCfg, f)
      BY <1>1, <3>3 DEF Right
    <3>4. QED
      BY <3>2, <3>3
  <2>3. QED
    BY <2>1, <2>2
<1>4. QED
  BY <1>1, <1>2, <1>3 DEF RightGroups

\* The loop goroutine.
LEMMA LoopKeepsRight ==
  ASSUME TypeInv, RightGroups, Loop
  PROVE  RightGroups'
<1>1. UNCHANGED <<tree, unseen, fileCfg>> /\ WatcherTypes /\ LoopShape
  BY DEF Loop, LoopEvent, LoopAdd, LoopNewDir, LoopRead, LoopVisit, LoopWalked,
         TypeInv, pumpVars
<1>2. \A f, g : Right(f, g) => Right(f, g)'
  BY <1>1, RightLasts
<1>3. ASSUME \A f \in DOMAIN tailers' :
               (f \in DOMAIN tailers /\ tailers'[f] = tailers[f]) \/ Right(f, tailers'[f])
      PROVE  \A f \in DOMAIN tailers' : Right(f, tailers[f])'
  <2> SUFFICES ASSUME NEW f \in DOMAIN tailers'
               PROVE  Right(f, tailers[f])'
    OBVIOUS
  <2>1. Right(f, tailers'[f])
    BY <1>3 DEF RightGroups
  <2>2. \A g : Right(f, g) => Right(f, g)'
    BY <1>2
  <2>3. QED
    BY <1>1, <2>1 DEF Right, Unseen
<1>4. ASSUME UNCHANGED tailers
      PROVE  \A f \in DOMAIN tailers' : Right(f, tailers[f])'
  BY <1>3, <1>4
<1>5. ASSUME loop.pc \in {"newdir", "walk"}, loop'.cfg = loop.cfg
      PROVE  \A f \in tree' \intersect Files : Right(f, FileMatcher(loop.cfg, f))'
  BY <1>1, <1>5 DEF RightGroups, Right, Unseen
<1>6. CASE LoopEvent
  <2> DEFINE p == Head(queue)
  <2>1. UNCHANGED tailers
    BY <1>6 DEF LoopEvent, watcherVars
  <2>2. CASE loop' = Idle
    BY <1>4, <2>1, <2>2 DEF RightGroups, Idle
  <2>3. CASE loop' = [pc |-> "add", path |-> p, group |-> FileMatcher(fileCfg, p)]
    BY <1>1, <1>4, <2>1, <2>3 DEF RightGroups, Right
  <2>4. CASE loop' = [pc |-> "newdir", dir |-> p, cfg |-> fileCfg]
    BY <1>1, <1>4, <2>1, <2>4 DEF RightGroups, Right
  <2>5. QED
    BY <1>6, <2>2, <2>3, <2>4 DEF LoopEvent
<1>7. CASE LoopAdd
  <2>1. loop.pc = "add" /\ Add(loop.path, loop.group) /\ loop' = Idle
    BY <1>7 DEF LoopAdd
  <2>2. \A f \in DOMAIN tailers' :
          \/ f \in DOMAIN tailers /\ tailers'[f] = tailers[f]
          \/ f = loop.path /\ tailers'[f] = loop.group
    BY <1>1, <2>1, AddDoes
  <2>3. Right(loop.path, loop.group)
    BY <2>1 DEF RightGroups
  <2>4. \A f \in DOMAIN tailers' : Right(f, tailers[f])'
    BY <1>3, <2>2, <2>3
  <2>5. QED
    BY <2>1, <2>4 DEF RightGroups, Idle
<1>8. CASE LoopNewDir
  <2>1. loop.pc = "newdir" /\ loop'.pc = "walk" /\ loop'.cfg = loop.cfg /\ UNCHANGED tailers
    BY <1>8 DEF LoopNewDir, WatchDir
  <2>2. QED
    BY <1>4, <1>5, <2>1 DEF RightGroups
<1>9. CASE LoopRead
  <2>1. loop.pc = "walk" /\ loop'.pc = "walk" /\ loop'.cfg = loop.cfg /\ UNCHANGED tailers
    BY <1>1, <1>9, ReadDoes DEF LoopRead, watcherVars
  <2>2. QED
    BY <1>4, <1>5, <2>1 DEF RightGroups
<1>10. CASE LoopVisit
  <2>1. PICK p \in loop.visit :
          /\ loop'.pc = "walk" /\ loop'.cfg = loop.cfg
          /\ \/ p \in Dirs /\ IF DirMatcher(dirCfg, p) THEN WatchDir(p) ELSE UNCHANGED watcherVars
             \/ p \in Files /\ IF FileMatcher(loop.cfg, p) # NoGroup
                               THEN Add(p, FileMatcher(loop.cfg, p))
                               ELSE UNCHANGED watcherVars
    BY <1>1, <1>10, VisitDoes
  <2>2. loop.pc = "walk"
    BY <1>10 DEF LoopVisit
  <2>3. UNCHANGED tailers \/ (p \in Files /\ Add(p, FileMatcher(loop.cfg, p)))
    BY <2>1 DEF watcherVars, WatchDir
  <2>4. ASSUME p \in Files, Add(p, FileMatcher(loop.cfg, p))
        PROVE  \A f \in DOMAIN tailers' : Right(f, tailers[f])'
    <3>1. \A f \in DOMAIN tailers' :
            \/ f \in DOMAIN tailers /\ tailers'[f] = tailers[f]
            \/ f = p /\ f \in tree /\ tailers'[f] = FileMatcher(loop.cfg, p)
      BY <1>1, <2>4, AddDoes
    <3>2. p \in tree => Right(p, FileMatcher(loop.cfg, p))
      BY <2>2, <2>4 DEF RightGroups
    <3>3. QED
      BY <1>3, <3>1, <3>2
  <2>5. \A f \in DOMAIN tailers' : Right(f, tailers[f])'
    BY <1>4, <2>3, <2>4
  <2>6. QED
    BY <1>5, <2>1, <2>2, <2>5 DEF RightGroups
<1>11. CASE LoopWalked
  BY <1>4, <1>11 DEF LoopWalked, RightGroups, Idle, watcherVars
<1>12. QED
  BY <1>6, <1>7, <1>8, <1>9, <1>10, <1>11 DEF Loop

\* The pump goroutine: new matchers are put in place only where the watch-set,
\* and so what is assigned, is the same.
LEMMA PumpKeepsRight ==
  ASSUME TypeInv, KnownDirs, PumpKnows, RightGroups, Pump
  PROVE  RightGroups'
<1>1. WatcherTypes /\ LoopShape
  BY DEF TypeInv
<1>2. ASSUME UNCHANGED <<tailers, loop, fileCfg, tree>>, unseen \subseteq unseen'
      PROVE  RightGroups'
  <2>1. \A f, g : Right(f, g) => Right(f, g)'
    BY <1>2, RightLasts
  <2>2. \A f : Unseen(f) => Unseen(f)'
    BY <1>2, UnseenGrows
  <2>3. QED
    BY <1>2, <2>2 DEF RightGroups, Right
<1>3. CASE PumpNew
  <2>1. tailers' = <<>> /\ loop' = Idle
    BY <1>3 DEF PumpNew
  <2>2. QED
    BY <2>1 DEF RightGroups, Idle
<1>4. CASE PumpAdd
  <2>1. PICK a \in pump.todo : Add(a.path, a.group)
    BY <1>4 DEF PumpAdd
  <2>2. UNCHANGED <<loop, fileCfg, tree, unseen>> /\ pump.pc = "add"
    BY <1>4 DEF PumpAdd
  <2>3. Right(a.path, a.group)
    <3>1. a \in pump.assigned /\ Agrees(pump.assigned, fileCfg)
      BY <2>1, <2>2 DEF PumpKnows, Building
    <3>2. QED
      BY <3>1 DEF Agrees, Right
  <2>4. \A f \in DOMAIN tailers' :
          \/ f \in DOMAIN tailers /\ tailers'[f] = tailers[f]
          \/ f = a.path /\ tailers'[f] = a.group
    BY <1>1, <2>1, AddDoes
  <2>5. \A f \in DOMAIN tailers' : Right(f, tailers'[f])
    BY <2>3, <2>4 DEF RightGroups
  <2>6. QED
    BY <2>2, <2>5 DEF RightGroups, Right, Unseen
<1>5. CASE PumpSetFileMatcher
  <2>1. /\ pump.pc = "setfile" /\ fileCfg' = pump.cfg
        /\ UNCHANGED <<tailers, loop, tree, unseen>>
    BY <1>5 DEF PumpSetFileMatcher, watcherVars
  <2>2. /\ Agrees(curSet.files, fileCfg)
        /\ Picks(curSet.files, pump.cfg, Noticed)
    BY <2>1 DEF PumpKnows, Serving
  <2>3. ASSUME NEW f \in Files, NEW g, f \in tree \/ Unseen(f), Right(f, g)
        PROVE  Right(f, g)'
    <3> SUFFICES ASSUME ~ Unseen(f), ~ Misread(f), FileMatcher(pump.cfg, f) # NoGroup
                 PROVE  g = FileMatcher(pump.cfg, f)
      BY <2>1 DEF Right, Unseen
    <3>1. f \in Noticed
      BY <2>3 DEF Noticed
    <3>2. [path |-> f, group |-> FileMatcher(pump.cfg, f)] \in curSet.files
      BY <2>2, <3>1 DEF Picks
    <3>3. FileMatcher(fileCfg, f) = FileMatcher(pump.cfg, f)
      <4> DEFINE a == [path |-> f, group |-> FileMatcher(pump.cfg, f)]
      <4>1. a.path = f /\ a.group = FileMatcher(pump.cfg, f)
        OBVIOUS
      <4>2. Misread(a.path) \/ FileMatcher(fileCfg, a.path) = a.group
        BY <2>2, <3>2 DEF Agrees
      <4> HIDE DEF a
      <4>3. QED
        BY <4>1, <4>2
    <3>4. QED
      BY <2>3, <3>3 DEF Right
  <2>4. ASSUME NEW f \in DOMAIN tailers
        PROVE  Right(f, tailers[f])'
    <3>1. f \in Files /\ (f \in tree \/ Unseen(f)) /\ Right(f, tailers[f])
      BY <1>1 DEF WatcherTypes, KnownDirs, RightGroups
    <3>2. QED
      BY <2>1, <2>3, <3>1 DEF Right
  <2>5. ASSUME loop.pc = "add"
        PROVE  Right(loop.path, loop.group)'
    <3>1. /\ loop.path \in Files /\ (loop.path \in tree \/ Unseen(loop.path))
          /\ Right(loop.path, loop.group)
      BY <1>1, <2>5, AddsFiles DEF KnownDirs, RightGroups
    <3>2. QED
      BY <2>1, <2>3, <3>1 DEF Right
  <2>6. ASSUME loop.pc \in {"newdir", "walk"}, NEW f \in tree \intersect Files
        PROVE  Right(f, FileMatcher(loop.cfg, f))'
    <3>1. Right(f, FileMatcher(loop.cfg, f))
      BY <2>6 DEF RightGroups
    <3>2. QED
      BY <2>1, <2>3, <3>1 DEF Right
  <2>7. QED
    BY <2>1, <2>4, <2>5, <2>6 DEF RightGroups
<1>6. CASE PumpAssign \/ PumpReload \/ PumpCompare \/ PumpBuilt
  BY <1>2, <1>6 DEF PumpAssign, PumpReload, PumpCompare, PumpBuilt, watcherVars
<1>7. CASE PumpSetDirMatcher \/ PumpDirs
  BY <1>2, <1>7 DEF PumpSetDirMatcher, PumpDirs, watcherVars
<1>8. CASE PumpWatchDir
  BY <1>2, <1>8 DEF PumpWatchDir, WatchDir
<1>9. QED
  BY <1>3, <1>4, <1>5, <1>6, <1>7, <1>8 DEF Pump

\* Every step keeps the groups right.
LEMMA RightStep ==
  TypeInv /\ KnownDirs /\ PumpKnows /\ RightGroups /\ [Next]_vars => RightGroups'
<1> SUFFICES ASSUME TypeInv, KnownDirs, PumpKnows, RightGroups, [Next]_vars
             PROVE  RightGroups'
  OBVIOUS
<1>1. CASE UNCHANGED vars
  BY <1>1 DEF vars, watcherVars, pumpVars, RightGroups, Right, Unseen
<1>2. QED
  BY <1>1, WorldKeepsRight, LoopKeepsRight, PumpKeepsRight DEF Next

-----------------------------------------------------------------------------
(* Nothing is missed: everything is dealt with, or will be.                 *)

\* The walk is going to come to a path.
InWalk(p) ==
  /\ loop.pc = "walk"
  /\ \/ \E q \in loop.visit : p = q \/ Under(p, q, TRUE)
     \/ \E q \in loop.read : Under(p, q, TRUE)

\* The loop goroutine has it before it.
Pending(p) ==
  \/ \E i \in DOMAIN queue : queue[i] = p
  \/ loop.pc = "add" /\ loop.path = p
  \/ loop.pc = "newdir" /\ loop.dir = p
  \/ InWalk(p)

\* It is tailed, or watched, if it has to be.
Reached(p) ==
  IF p \in Files THEN FileMatcher(fileCfg, p) = NoGroup \/ p \in DOMAIN tailers
  ELSE ~ DirMatcher(dirCfg, p) \/ p \in asked \intersect kernel

\* The pump has it before it.
ToDo(p) ==
  \/ /\ pump.pc = "add"
     /\ p \in Files => [path |-> p, group |-> FileMatcher(fileCfg, p)] \in pump.todo
  \/ pump.pc = "dirs" /\ p \notin Files /\ p \in pump.todo

\* The directory it is in is watched for what appears, or the watcher is being
\* put together, and it was noticed.
Owed(p) ==
  /\ ~ Unseen(p)
  /\ p \in Files => ~ Misread(p)
  /\ Building \/ (p # <<>> /\ Parent(p) \in asked \intersect kernel)

Complete == \A p \in tree : Owed(p) => Pending(p) \/ Reached(p) \/ ToDo(p)

\* A path below a directory is below, or is, one of its entries.
LEMMA ChildTowards ==
  ASSUME PathAssumption, TreeInv, NEW p \in tree, NEW d \in Seq(STRING), Under(p, d, TRUE)
  PROVE  \E c \in Children(d) \intersect tree : p = c \/ Under(p, c, TRUE)
<1> DEFINE m == Len(p)
           n == Len(d)
           c == SubSeq(p, 1, n + 1)
<1>1. p \in Seq(STRING) /\ m \in Nat /\ n \in Nat /\ m > n /\ SubSeq(p, 1, n) = d
  BY LenProperties DEF TreeInv, PathAssumption, Under
<1>2. c \in Seq(STRING) /\ Len(c) = n + 1 /\ c # <<>>
  <2>1. 1 \in Int /\ n + 1 \in Int /\ \A i \in 1 .. n + 1 : p[i] \in STRING
    BY <1>1
  <2>2. c \in Seq(STRING) /\ Len(c) = IF 1 <= n + 1 THEN n + 1 - 1 + 1 ELSE 0
    BY <2>1, SubSeqProperties
  <2>3. Len(c) = n + 1
    BY <1>1, <2>2
  <2>4. QED
    BY <1>1, <2>2, <2>3
<1>3. SubSeq(c, 1, n) = SubSeq(p, 1, n)
  BY <1>1
<1>4. Parent(c) = d
  <2>1. Len(c) - 1 = n
    BY <1>1, <1>2
  <2>2. QED
    BY <1>1, <1>3, <2>1 DEF Parent
<1>5. CASE m = n + 1
  <2>1. c = p
    BY <1>1, <1>5
  <2>2. QED
    BY <1>2, <1>4, <2>1 DEF Children, TreeInv
<1>6. CASE n + 1 < m
  <2>1. c \in tree
    BY <1>1, <1>6 DEF TreeInv, Closed
  <2>2. Under(p, c, TRUE)
    BY <1>1, <1>2, <1>6 DEF Under
  <2>3. QED
    BY <1>2, <1>4, <2>1, <2>2 DEF Children, TreeInv
<1> HIDE DEF m, n
<1>7. m = n + 1 \/ n + 1 < m
  BY <1>1
<1>8. QED
  BY <1>5, <1>6, <1>7

\* Nothing that exists is below a file.
LEMMA NotUnderFiles ==
  ASSUME PathAssumption, TreeInv, NEW p \in tree, NEW f \in Files
  PROVE  ~ Under(p, f, TRUE)
<1> SUFFICES ASSUME Under(p, f, TRUE) PROVE FALSE
  OBVIOUS
<1>1. p \in Seq(STRING) /\ f \in Seq(STRING) /\ f # <<>>
  BY DEF TreeInv, PathAssumption
<1>2. Len(p) \in Nat /\ Len(f) \in Nat \ {0} /\ Len(p) > Len(f) /\ SubSeq(p, 1, Len(f)) = f
  BY <1>1, EmptySeq, LenProperties DEF Under
<1>3. Len(f) \in 1 .. Len(p) - 1
  BY <1>2
<1>4. f \in Dirs
  BY <1>2, <1>3 DEF TreeInv, Closed
<1>5. QED
  BY <1>4 DEF PathAssumption

\* What comes is reported, or not noticed; and what is left is dealt with as
\* before when something goes.
LEMMA WorldKeepsComplete ==
  ASSUME PathAssumption, TypeInv, Complete,
         \/ \E p \in Dirs \union Files : Create(p)
         \/ \E d \in Dirs : RemoveDir(d)
  PROVE  Complete'
<1>0. /\ UNCHANGED <<tailers, asked, loop, pump, fileCfg, dirCfg>>
      /\ unseen \subseteq unseen' /\ kernel' \subseteq kernel
  BY DEF Create, RemoveDir, watcherVars, pumpVars
<1>1. ASSUME NEW p, Owed(p)'
      PROVE  Owed(p)
  <2>1. ~ Unseen(p)
    BY <1>0, <1>1, UnseenGrows DEF Owed
  <2>2. QED
    BY <1>0, <1>1, <2>1 DEF Owed, Building
<1>2. \A p : ToDo(p) => ToDo(p)'
  BY <1>0 DEF ToDo
<1>3. ASSUME NEW c \in Dirs \union Files, Create(c)
      PROVE  Complete'
  <2>1. /\ UNCHANGED kernel /\ tree' = tree \union {c}
        /\ queue' = IF Parent(c) \in kernel THEN Append(queue, c) ELSE queue
        /\ unseen' = IF Early(c) THEN unseen \union {c} ELSE unseen
    BY <1>3 DEF Create, watcherVars
  <2>2. queue \in Seq(Dirs \union Files)
    BY DEF TypeInv
  <2>3. /\ \A i \in DOMAIN queue : i \in DOMAIN queue' /\ queue'[i] = queue[i]
        /\ Parent(c) \in kernel => \E i \in DOMAIN queue' : queue'[i] = c
    <3>1. CASE Parent(c) \in kernel
      <4>1. queue' = Append(queue, c)
        BY <2>1, <3>1
      <4>2. /\ Len(queue) \in Nat /\ DOMAIN queue = 1 .. Len(queue)
            /\ DOMAIN queue' = 1 .. Len(queue) + 1
            /\ \A i \in 1 .. Len(queue) : queue'[i] = queue[i]
            /\ queue'[Len(queue) + 1] = c
        BY <1>3, <2>2, <4>1, AppendProperties, LenProperties
      <4>3. Len(queue) + 1 \in DOMAIN queue' /\ \A i \in DOMAIN queue : i \in DOMAIN queue'
        BY <4>2
      <4>4. QED
        BY <4>2, <4>3
    <3>2. CASE Parent(c) \notin kernel
      BY <2>1, <3>2
    <3>3. QED
      BY <3>1, <3>2
  <2>4. \A p : Pending(p) => Pending(p)'
    BY <1>0, <2>3 DEF Pending, InWalk
  <2>5. \A p : Reached(p) => Reached(p)'
    BY <1>0, <2>1 DEF Reached
  <2>6. ASSUME Owed(c)'
        PROVE  Pending(c)'
    <3>1. c \notin unseen'
      BY <2>6 DEF Owed, Unseen
    <3>2. ~ Early(c)
      BY <2>1, <3>1
    <3>3. Parent(c) \in kernel
      BY <1>1, <2>6, <3>2 DEF Owed, Early, Building
    <3>4. QED
      BY <2>3, <3>3 DEF Pending
  <2>7. QED
    BY <1>1, <1>2, <2>1, <2>4, <2>5, <2>6 DEF Complete
<1>4. ASSUME NEW d \in Dirs, RemoveDir(d)
      PROVE  Complete'
  <2> DEFINE gone == {p \in tree : p = d \/ Under(p, d, TRUE)}
  <2>1. tree' = tree \ gone /\ kernel' = kernel \ gone /\ UNCHANGED queue
    BY <1>4 DEF RemoveDir
  <2> HIDE DEF gone
  <2>2. \A p : Pending(p) => Pending(p)'
    BY <1>0, <2>1 DEF Pending, InWalk
  <2>3. \A p \in tree' : Reached(p) => Reached(p)'
    BY <1>0, <2>1 DEF Reached
  <2>4. QED
    BY <1>1, <1>2, <2>1, <2>2, <2>3 DEF Complete
<1>5. QED
  BY <1>3, <1>4

\* The loop goroutine passes on what it takes, tails or watches it, or may leave
\* it; and it walks what it watches.
LEMMA LoopKeepsComplete ==
  ASSUME PathAssumption, TypeInv, KnownDirs, RightGroups, Complete, Loop
  PROVE  Complete'
<1>0. /\ UNCHANGED <<tree, unseen, pump, fileCfg, dirCfg>>
      /\ WatcherTypes /\ LoopShape /\ TreeInv
  BY DEF Loop, LoopEvent, LoopAdd, LoopNewDir, LoopRead, LoopVisit, LoopWalked,
         TypeInv, pumpVars
<1>1. \A p : /\ Unseen(p)' <=> Unseen(p)
             /\ ToDo(p)' <=> ToDo(p)
  BY <1>0 DEF Unseen, ToDo
<1>2. \A p : asked' \intersect kernel' \subseteq asked \intersect kernel /\ Owed(p)' => Owed(p)
  BY <1>0, <1>1 DEF Owed, Building
<1>3. /\ kernel \subseteq kernel' /\ asked \subseteq asked'
      /\ DOMAIN tailers \subseteq DOMAIN tailers'
      => \A p : Reached(p) => Reached(p)'
  BY <1>0 DEF Reached
<1>4. CASE LoopEvent
  <2>0. PICK h : h = Head(queue)
    OBVIOUS
  <2>1. loop.pc = "idle" /\ UNCHANGED <<asked, kernel, tailers>>
    BY <1>4 DEF LoopEvent, watcherVars, Idle
  <2>2. ASSUME NEW p \in tree, NEW i \in DOMAIN queue, queue[i] = p
        PROVE  p = h \/ \E j \in DOMAIN queue' : queue'[j] = p
    <3>1. queue \in Seq(Dirs \union Files) /\ queue # <<>> /\ queue' = Tail(queue)
      BY <1>4 DEF LoopEvent, TypeInv
    <3>2. /\ Len(queue) \in Nat \ {0} /\ DOMAIN queue = 1 .. Len(queue) /\ h = queue[1]
          /\ DOMAIN queue' = 1 .. Len(queue) - 1
          /\ \A j \in 1 .. Len(queue) - 1 : queue'[j] = queue[j + 1]
      BY <2>0, <3>1
    <3>3. i = 1 \/ (i - 1 \in 1 .. Len(queue) - 1 /\ i - 1 + 1 = i)
      BY <3>2
    <3>4. QED
      BY <2>2, <3>2, <3>3
  <2>3. h \in tree => Pending(h)' \/ Reached(h)
    <3> SUFFICES ASSUME h \in tree PROVE Pending(h)' \/ Reached(h)
      OBVIOUS
    <3>1. CASE h \in DOMAIN tailers
      BY <1>0, <3>1 DEF Reached, WatcherTypes
    <3>2. CASE h \notin DOMAIN tailers /\ h \in Files
      <4>1. CASE FileMatcher(fileCfg, h) = NoGroup
        BY <3>2, <4>1 DEF Reached
      <4>2. CASE FileMatcher(fileCfg, h) # NoGroup
        <5>1. h \notin Dirs
          BY <3>2 DEF PathAssumption
        <5>2. loop' = [pc |-> "add", path |-> h, group |-> FileMatcher(fileCfg, h)]
          BY <1>4, <3>2, <4>2, <5>1, <2>0 DEF LoopEvent
        <5>3. QED
          BY <5>2 DEF Pending
      <4>3. QED
        BY <4>1, <4>2
    <3>3. CASE h \notin DOMAIN tailers /\ h \notin Files
      <4>1. h \in Dirs
        BY <1>0, <3>3 DEF TreeInv
      <4>2. CASE ~ DirMatcher(dirCfg, h)
        BY <3>3, <4>2 DEF Reached
      <4>3. CASE DirMatcher(dirCfg, h)
        <5>1. loop' = [pc |-> "newdir", dir |-> h, cfg |-> fileCfg]
          BY <1>4, <3>3, <4>1, <4>3, <2>0 DEF LoopEvent
        <5>2. QED
          BY <5>1 DEF Pending
      <4>4. QED
        BY <4>2, <4>3
    <3>4. QED
      BY <3>1, <3>2, <3>3
  <2>4. ASSUME NEW p \in tree, Pending(p)
        PROVE  Pending(p)' \/ Reached(p)
    <3>1. PICK i \in DOMAIN queue : queue[i] = p
      BY <2>1, <2>4 DEF Pending, InWalk
    <3>2. p = h \/ \E j \in DOMAIN queue' : queue'[j] = p
      BY <2>2, <3>1
    <3>3. QED
      BY <2>3, <3>2 DEF Pending
  <2>5. QED
    BY <1>0, <1>1, <1>2, <1>3, <2>1, <2>4 DEF Complete
<1>5. CASE LoopAdd
  <2>1. /\ loop.pc = "add" /\ Add(loop.path, loop.group) /\ UNCHANGED queue
        /\ loop.path \in Files
    BY <1>0, <1>5, AddsFiles DEF LoopAdd
  <2>2. /\ asked' = asked /\ kernel \subseteq kernel' /\ asked \intersect kernel' \subseteq kernel
        /\ DOMAIN tailers \subseteq DOMAIN tailers'
        /\ loop.path \in tree => loop.path \in DOMAIN tailers'
    BY <1>0, <2>1, AddDoes
  <2>3. ASSUME NEW p \in tree, Pending(p)
        PROVE  Pending(p)' \/ Reached(p)'
    <3>1. (\E i \in DOMAIN queue : queue[i] = p) \/ loop.path = p
      BY <2>1, <2>3 DEF Pending, InWalk
    <3>2. QED
      BY <2>1, <2>2, <3>1 DEF Pending, Reached
  <2>4. QED
    BY <1>0, <1>1, <1>2, <1>3, <2>2, <2>3 DEF Complete
<1>6. ASSUME NEW d, WatchDir(d), NEW p \in tree, Owed(p)', p = d
      PROVE  p \in asked' \intersect kernel'
  <2>1. ~ Unseen(p)
    BY <1>1, <1>6 DEF Owed
  <2>2. kernel \subseteq kernel' /\ d \in asked' /\ (d \in kernel' \/ d \in watched)
    BY <1>0, <1>6, WatchDirDoes
  <2>3. QED
    BY <1>6, <2>1, <2>2 DEF KnownDirs
<1>7. ASSUME NEW d \in Dirs, WatchDir(d), NEW p \in tree, Owed(p)'
      PROVE  Owed(p) \/ Under(p, d, TRUE)
  <2>1. kernel' \subseteq kernel \union {d} /\ asked' \subseteq asked \union {d}
    BY <1>0, <1>7, WatchDirDoes
  <2>2. Owed(p) \/ (p # <<>> /\ Parent(p) = d)
    BY <1>0, <1>1, <1>7, <2>1 DEF Owed, Building
  <2>3. p \in Seq(STRING) /\ d \in Seq(STRING)
    BY <1>0 DEF TreeInv, PathAssumption
  <2>4. p # <<>> /\ Parent(p) = d => Under(p, d, TRUE)
    BY <2>3, UnderByParent
  <2>5. QED
    BY <2>2, <2>4
<1>8. CASE LoopNewDir
  <2>1. PICK d, c : d \in Dirs /\ loop = [pc |-> "newdir", dir |-> d, cfg |-> c]
    BY <1>0, <1>8 DEF LoopNewDir, LoopShape, Idle
  <2>2. /\ WatchDir(d) /\ loop' = [pc |-> "walk", cfg |-> c, read |-> {d}, visit |-> {}]
        /\ UNCHANGED queue
    BY <1>8, <2>1 DEF LoopNewDir
  <2>3. kernel \subseteq kernel' /\ asked \subseteq asked' /\ UNCHANGED tailers
    BY <1>0, <2>2, WatchDirDoes
  <2>4. \A p : Under(p, d, TRUE) => Pending(p)'
    BY <2>2 DEF Pending, InWalk
  <2>5. ASSUME NEW p \in tree, Owed(p)', Pending(p)
        PROVE  Pending(p)' \/ Reached(p)'
    <3>1. (\E i \in DOMAIN queue : queue[i] = p) \/ p = d
      BY <2>1, <2>5 DEF Pending, InWalk
    <3>2. p = d => p \in asked' \intersect kernel' /\ p \notin Files
      BY <1>6, <2>1, <2>2, <2>5 DEF PathAssumption
    <3>3. QED
      BY <2>2, <3>1, <3>2 DEF Pending, Reached
  <2>6. QED
    BY <1>0, <1>1, <1>3, <1>7, <2>1, <2>2, <2>3, <2>4, <2>5 DEF Complete
<1>9. CASE LoopRead
  <2>1. PICK d \in loop.read :
          /\ loop'.pc = "walk" /\ loop'.read = loop.read \ {d}
          /\ loop'.visit = loop.visit \union (Children(d) \intersect tree)
    BY <1>0, <1>9, ReadDoes
  <2>2. loop.pc = "walk" /\ UNCHANGED <<queue, asked, kernel, tailers>>
    BY <1>9 DEF LoopRead, watcherVars
  <2>3. d \in Seq(STRING)
    <3>1. PICK c : \E R \in SUBSET Dirs, V \in SUBSET (Dirs \union Files) :
            loop = [pc |-> "walk", cfg |-> c, read |-> R, visit |-> V]
      BY <1>0, <2>2, WalkShape
    <3>2. d \in Dirs
      BY <3>1
    <3>3. QED
      BY <3>2 DEF PathAssumption
  <2>4. ASSUME NEW p \in tree, Pending(p)
        PROVE  Pending(p)'
    <3>1. CASE \E i \in DOMAIN queue : queue[i] = p
      BY <2>2, <3>1 DEF Pending
    <3>2. CASE \E q \in loop.visit : p = q \/ Under(p, q, TRUE)
      BY <2>1, <3>2 DEF Pending, InWalk
    <3>3. ASSUME NEW q \in loop.read, Under(p, q, TRUE)
          PROVE  InWalk(p)'
      <4>1. CASE q # d
        BY <2>1, <3>3, <4>1 DEF InWalk
      <4>2. CASE q = d
        <5>1. PICK c \in Children(d) \intersect tree : p = c \/ Under(p, c, TRUE)
          BY <1>0, <2>3, <3>3, <4>2, ChildTowards
        <5>2. QED
          BY <2>1, <5>1 DEF InWalk
      <4>3. QED
        BY <4>1, <4>2
    <3>4. QED
      BY <2>2, <2>4, <3>1, <3>2, <3>3 DEF Pending, InWalk
  <2>5. QED
    BY <1>0, <1>1, <1>2, <1>3, <2>2, <2>4 DEF Complete
<1>10. CASE LoopVisit
  <2>1. PICK q \in loop.visit :
          /\ loop'.pc = "walk" /\ loop'.visit = loop.visit \ {q}
          /\ \/ /\ q \in Dirs /\ loop'.read = loop.read \union {q}
                /\ IF DirMatcher(dirCfg, q) THEN WatchDir(q) ELSE UNCHANGED watcherVars
             \/ /\ q \in Files /\ loop'.read = loop.read
                /\ IF FileMatcher(loop.cfg, q) # NoGroup
                   THEN Add(q, FileMatcher(loop.cfg, q))
                   ELSE UNCHANGED watcherVars
    BY <1>0, <1>10, VisitDoes
  <2>2. loop.pc = "walk" /\ UNCHANGED queue
    BY <1>10 DEF LoopVisit
  <2>3. ASSUME NEW p, Pending(p)
        PROVE  Pending(p)' \/ p = q \/ Under(p, q, TRUE)
    <3>1. (\E i \in DOMAIN queue : queue[i] = p) \/ InWalk(p)
      BY <2>2, <2>3 DEF Pending
    <3>2. CASE \E i \in DOMAIN queue : queue[i] = p
      BY <2>2, <3>2 DEF Pending
    <3>3. CASE InWalk(p)
      BY <2>1, <3>3 DEF Pending, InWalk
    <3>4. QED
      BY <3>1, <3>2, <3>3
  <2>4. CASE /\ q \in Dirs /\ loop'.read = loop.read \union {q}
             /\ IF DirMatcher(dirCfg, q) THEN WatchDir(q) ELSE UNCHANGED watcherVars
    <3>1. \A p : Under(p, q, TRUE) => Pending(p)'
      BY <2>1, <2>4 DEF Pending, InWalk
    <3>2. q \notin Files
      BY <2>4 DEF PathAssumption
    <3>3. CASE ~ DirMatcher(dirCfg, q)
      <4>1. UNCHANGED <<asked, kernel, tailers>>
        BY <2>4, <3>3 DEF watcherVars
      <4>2. Reached(q)'
        BY <1>0, <3>2, <3>3 DEF Reached
      <4>3. QED
        BY <1>0, <1>1, <1>2, <1>3, <2>3, <3>1, <4>1, <4>2 DEF Complete
    <3>4. CASE DirMatcher(dirCfg, q)
      <4>1. WatchDir(q)
        BY <2>4, <3>4
      <4>2. kernel \subseteq kernel' /\ asked \subseteq asked' /\ UNCHANGED tailers
        BY <1>0, <4>1, WatchDirDoes
      <4>3. \A p \in tree : Owed(p)' /\ p = q => Reached(p)'
        BY <1>6, <3>2, <4>1 DEF Reached
      <4>4. \A p \in tree : Owed(p)' => Owed(p) \/ Under(p, q, TRUE)
        BY <1>7, <2>4, <4>1
      <4>5. QED
        BY <1>0, <1>1, <1>3, <2>3, <3>1, <4>2, <4>3, <4>4 DEF Complete
    <3>5. QED
      BY <3>3, <3>4
  <2>5. CASE /\ q \in Files /\ loop'.read = loop.read
             /\ IF FileMatcher(loop.cfg, q) # NoGroup
                THEN Add(q, FileMatcher(loop.cfg, q))
                ELSE UNCHANGED watcherVars
    <3>1. \A p \in tree : ~ Under(p, q, TRUE)
      BY <1>0, <2>5, NotUnderFiles
    <3>2. CASE FileMatcher(loop.cfg, q) = NoGroup
      <4>1. UNCHANGED <<asked, kernel, tailers>>
        BY <2>5, <3>2 DEF watcherVars
      <4>2. q \in tree /\ Owed(q) => FileMatcher(fileCfg, q) = NoGroup
        BY <2>2, <2>5, <3>2 DEF RightGroups, Right, Owed
      <4>3. q \in tree /\ Owed(q) => Reached(q)
        BY <2>5, <4>2 DEF Reached
      <4>4. QED
        BY <1>0, <1>1, <1>2, <1>3, <2>3, <3>1, <4>1, <4>3 DEF Complete
    <3>3. CASE FileMatcher(loop.cfg, q) # NoGroup
      <4>1. Add(q, FileMatcher(loop.cfg, q))
        BY <2>5, <3>3
      <4>2. /\ asked' = asked /\ kernel \subseteq kernel'
            /\ asked \intersect kernel' \subseteq kernel
            /\ DOMAIN tailers \subseteq DOMAIN tailers'
            /\ q \in tree => q \in DOMAIN tailers'
        BY <1>0, <4>1, AddDoes
      <4>3. q \in tree => Reached(q)'
        BY <2>5, <4>2 DEF Reached
      <4>4. QED
        BY <1>0, <1>1, <1>2, <1>3, <2>3, <3>1, <4>2, <4>3 DEF Complete
    <3>4. QED
      BY <3>2, <3>3
  <2>6. QED
    BY <2>1, <2>4, <2>5
<1>11. CASE LoopWalked
  <2>1. /\ loop.pc = "walk" /\ loop.read = {} /\ loop.visit = {}
        /\ UNCHANGED <<queue, asked, kernel, tailers>>
    BY <1>11 DEF LoopWalked, watcherVars
  <2>2. \A p : Pending(p) => Pending(p)'
    BY <2>1 DEF Pending, InWalk
  <2>3. QED
    BY <1>0, <1>1, <1>2, <1>3, <2>1, <2>2 DEF Complete
<1>12. QED
  BY <1>4, <1>5, <1>8, <1>9, <1>10, <1>11 DEF Loop

\* The pump goroutine puts on its list what it noticed, and deals with all of it;
\* new matchers ask for nothing that the ones before did not, but what exists and
\* is not watched, which counts as not noticed.
LEMMA PumpKeepsComplete ==
  ASSUME PathAssumption, TypeInv, KnownDirs, PumpKnows, Complete, Pump
  PROVE  Complete'
<1>0. WatcherTypes /\ UNCHANGED tree
  BY DEF Pump, PumpAssign, PumpReload, PumpCompare, PumpSetFileMatcher, PumpSetDirMatcher,
         PumpNew, PumpAdd, PumpDirs, PumpWatchDir, PumpBuilt, TypeInv
<1>1. ASSUME unseen \subseteq unseen', Building' => Building,
             asked' \intersect kernel' \subseteq asked \intersect kernel \/ Building
      PROVE  \A p : Owed(p)' => Owed(p)
  <2>1. \A p : Unseen(p) => Unseen(p)'
    BY <1>1, UnseenGrows
  <2>2. QED
    BY <1>1, <2>1 DEF Owed
<1>2. UNCHANGED <<loop, queue>> => \A p : Pending(p) => Pending(p)'
  BY DEF Pending, InWalk
<1>3. CASE PumpAssign \/ PumpReload \/ PumpCompare
  <2>1. /\ UNCHANGED <<loop, queue, unseen, kernel, tailers, asked, fileCfg, dirCfg>>
        /\ pump.pc \notin {"add", "dirs"} /\ pump'.pc \notin {"add", "dirs"}
    BY <1>3 DEF PumpAssign, PumpReload, PumpCompare, watcherVars, Running
  <2>2. \A p : Owed(p)' => Owed(p)
    BY <1>1, <2>1 DEF Building
  <2>3. \A p : (Reached(p) => Reached(p)') /\ ~ ToDo(p)
    BY <2>1 DEF Reached, ToDo
  <2>4. QED
    BY <1>0, <1>2, <2>1, <2>2, <2>3 DEF Complete
<1>4. CASE PumpSetFileMatcher
  <2>1. PICK c : pump = [pc |-> "setfile", cfg |-> c]
    BY <1>4 DEF PumpSetFileMatcher, TypeInv, PumpShape, Running
  <2>2. /\ pump' = [pc |-> "setdir", cfg |-> c] /\ fileCfg' = c
        /\ UNCHANGED <<loop, queue, unseen, kernel, tailers, asked, dirCfg>>
    BY <1>4, <2>1 DEF PumpSetFileMatcher, watcherVars
  <2>3. Agrees(curSet.files, fileCfg) /\ Picks(curSet.files, c, Noticed)
    BY <2>1 DEF PumpKnows, Serving
  <2>4. \A p : Owed(p)' => Owed(p)
    BY <1>1, <2>1, <2>2 DEF Building
  <2>5. \A p : ~ ToDo(p)
    BY <2>1 DEF ToDo
  <2>6. ASSUME NEW p \in tree, Owed(p), Reached(p)
        PROVE  Reached(p)'
    <3>1. CASE p \notin Files
      BY <2>2, <2>6, <3>1 DEF Reached
    <3>2. CASE p \in Files /\ FileMatcher(c, p) = NoGroup
      BY <2>2, <3>2 DEF Reached
    <3>3. CASE p \in Files /\ FileMatcher(c, p) # NoGroup
      <4> DEFINE a == [path |-> p, group |-> FileMatcher(c, p)]
      <4>1. p \in Noticed /\ ~ Misread(p)
        BY <2>6, <3>3 DEF Owed, Noticed
      <4>2. a \in curSet.files
        BY <2>3, <3>3, <4>1 DEF Picks
      <4>3. a.path = p /\ a.group # NoGroup
        BY <3>3
      <4> HIDE DEF a
      <4>4. FileMatcher(fileCfg, p) # NoGroup
        BY <2>3, <4>1, <4>2, <4>3 DEF Agrees
      <4>5. p \in DOMAIN tailers
        BY <2>6, <3>3, <4>4 DEF Reached
      <4>6. QED
        BY <2>2, <3>3, <4>5 DEF Reached
    <3>4. QED
      BY <3>1, <3>2, <3>3
  <2>7. QED
    BY <1>0, <1>2, <2>2, <2>4, <2>5, <2>6 DEF Complete
<1>5. CASE PumpSetDirMatcher
  <2>1. /\ UNCHANGED <<loop, queue, kernel, tailers, asked, fileCfg>>
        /\ unseen' = unseen \union Overlooked(pump.cfg, asked \intersect kernel)
        /\ dirCfg' = pump.cfg /\ pump.pc = "setdir" /\ pump' = Running
    BY <1>5 DEF PumpSetDirMatcher, watcherVars
  <2>2. \A p : Owed(p)' => Owed(p)
    BY <1>1, <2>1 DEF Building, Running
  <2>3. \A p : ~ ToDo(p)
    BY <2>1 DEF ToDo
  <2>4. ASSUME NEW p \in tree, Owed(p)', Reached(p)
        PROVE  Reached(p)'
    <3>1. CASE p \in Files
      BY <2>1, <2>4, <3>1 DEF Reached
    <3>2. CASE p \notin Files
      <4>1. p \notin Overlooked(pump.cfg, asked \intersect kernel)
        BY <2>1, <2>4 DEF Owed, Unseen
      <4>2. p \in Dirs
        BY <3>2 DEF TypeInv, TreeInv
      <4>3. ~ DirMatcher(pump.cfg, p) \/ p \in asked \intersect kernel
        BY <2>4, <4>1, <4>2 DEF Overlooked
      <4>4. QED
        BY <2>1, <3>2, <4>3 DEF Reached
    <3>3. QED
      BY <3>1, <3>2
  <2>5. QED
    BY <1>0, <1>2, <2>1, <2>2, <2>3, <2>4 DEF Complete
<1>6. CASE PumpNew
  <2>1. /\ pump.pc = "new" /\ fileCfg' = pump.cfg /\ unseen' = tree \ pump.seen
        /\ pump' = [pc |-> "add", cfg |-> pump.cfg, assigned |-> pump.assigned,
                    todo |-> pump.assigned, set |-> pump.set]
    BY <1>6 DEF PumpNew
  <2>2. Picks(pump.assigned, pump.cfg, pump.seen)
    BY <2>1 DEF PumpKnows
  <2>3. ASSUME NEW p \in tree, Owed(p)'
        PROVE  Reached(p)' \/ ToDo(p)'
    <3>1. CASE p \notin Files
      BY <2>1, <3>1 DEF ToDo
    <3>2. CASE p \in Files /\ FileMatcher(pump.cfg, p) = NoGroup
      BY <2>1, <3>2 DEF Reached
    <3>3. CASE p \in Files /\ FileMatcher(pump.cfg, p) # NoGroup
      <4>1. p \in pump.seen /\ ~ Misread(p)
        BY <2>1, <2>3, <3>3 DEF Owed, Unseen
      <4>2. [path |-> p, group |-> FileMatcher(pump.cfg, p)] \in pump.assigned
        BY <2>2, <3>3, <4>1 DEF Picks
      <4>3. QED
        BY <2>1, <4>2 DEF ToDo
    <3>4. QED
      BY <3>1, <3>2, <3>3
  <2>4. QED
    BY <1>0, <2>3 DEF Complete
<1>7. CASE PumpAdd
  <2>1. PICK a \in pump.todo : Add(a.path, a.group) /\ pump' = [pump EXCEPT !.todo = @ \ {a}]
    BY <1>7 DEF PumpAdd
  <2>2. pump'.pc = pump.pc /\ pump'.todo = pump.todo \ {a}
    BY <1>7, <2>1, TodoShrinks DEF TypeInv
  <2>3. pump.pc = "add" /\ UNCHANGED <<loop, queue, unseen, fileCfg, dirCfg>>
    BY <1>7 DEF PumpAdd
  <2>4. \A p : Owed(p)' => Owed(p)
    BY <1>1, <2>2, <2>3 DEF Building
  <2>5. /\ kernel \subseteq kernel' /\ asked' = asked /\ DOMAIN tailers \subseteq DOMAIN tailers'
        /\ a.path \in tree => a.path \in DOMAIN tailers'
    BY <1>0, <2>1, AddDoes
  <2>6. \A p : Reached(p) => Reached(p)'
    BY <2>3, <2>5 DEF Reached
  <2>7. ASSUME NEW p \in tree, ToDo(p)
        PROVE  ToDo(p)' \/ Reached(p)'
    <3>1. CASE p \notin Files
      BY <2>2, <2>3, <3>1 DEF ToDo
    <3>2. CASE p \in Files /\ a = [path |-> p, group |-> FileMatcher(fileCfg, p)]
      <4>1. a.path = p
        BY <3>2
      <4>2. QED
        BY <2>5, <3>2, <4>1 DEF Reached
    <3>3. CASE p \in Files /\ a # [path |-> p, group |-> FileMatcher(fileCfg, p)]
      BY <2>2, <2>3, <2>7, <3>3 DEF ToDo
    <3>4. QED
      BY <3>1, <3>2, <3>3
  <2>8. QED
    BY <1>0, <1>2, <2>3, <2>4, <2>6, <2>7 DEF Complete
<1>8. CASE PumpDirs
  <2>1. PICK c, A, T, t :
          pump = [pc |-> "add", cfg |-> c, assigned |-> A, todo |-> T, set |-> t]
    BY <1>8, BuildShape DEF PumpDirs, TypeInv
  <2> DEFINE dirs == DirsToWatch(c, tree)
  <2>2. /\ T = {}
        /\ pump' = [pc |-> "dirs", cfg |-> c, assigned |-> A, todo |-> dirs, set |-> t]
        /\ unseen' = unseen \union Overlooked(c, dirs)
        /\ UNCHANGED <<loop, queue, kernel, tailers, asked, fileCfg, dirCfg>>
    BY <1>8, <2>1 DEF PumpDirs, watcherVars
  <2> HIDE DEF dirs
  <2>3. dirCfg = c
    BY <2>1 DEF PumpKnows, Building
  <2>4. \A p : Owed(p)' => Owed(p)
    BY <1>1, <2>1, <2>2 DEF Building
  <2>5. \A p : Reached(p) => Reached(p)'
    BY <2>2 DEF Reached
  <2>6. ASSUME NEW p \in tree, Owed(p)', ToDo(p)
        PROVE  ToDo(p)' \/ Reached(p)'
    <3>1. p \notin Files
      BY <2>1, <2>2, <2>6 DEF ToDo
    <3>2. p \in Dirs
      BY <3>1 DEF TypeInv, TreeInv
    <3>3. p \notin Overlooked(c, dirs)
      BY <2>2, <2>6 DEF Owed, Unseen
    <3>4. ~ DirMatcher(c, p) \/ p \in dirs
      BY <3>2, <3>3, <2>6 DEF Overlooked
    <3>5. QED
      BY <2>2, <2>3, <3>1, <3>4 DEF ToDo, Reached
  <2>7. QED
    BY <1>0, <1>2, <2>2, <2>4, <2>5, <2>6 DEF Complete
<1>9. CASE PumpWatchDir
  <2>1. PICK d \in pump.todo : WatchDir(d) /\ pump' = [pump EXCEPT !.todo = @ \ {d}]
    BY <1>9 DEF PumpWatchDir
  <2>2. pump'.pc = pump.pc /\ pump'.todo = pump.todo \ {d}
    BY <1>9, <2>1, TodoShrinks DEF TypeInv
  <2>3. pump.pc = "dirs" /\ UNCHANGED <<loop, queue, unseen, fileCfg, dirCfg>>
    BY <1>9 DEF PumpWatchDir
  <2>4. \A p : Owed(p)' => Owed(p)
    BY <1>1, <2>2, <2>3 DEF Building
  <2>5. /\ kernel \subseteq kernel' /\ asked \subseteq asked' /\ UNCHANGED tailers
        /\ d \in tree => d \in asked' /\ (d \in kernel' \/ d \in watched)
    BY <1>0, <2>1, WatchDirDoes
  <2>6. \A p : Reached(p) => Reached(p)'
    BY <2>3, <2>5 DEF Reached
  <2>7. ASSUME NEW p \in tree, Owed(p), ToDo(p)
        PROVE  ToDo(p)' \/ Reached(p)'
    <3>1. p \notin Files /\ p \in pump.todo
      BY <2>3, <2>7 DEF ToDo
    <3>2. CASE p # d
      BY <2>2, <2>3, <3>1, <3>2 DEF ToDo
    <3>3. CASE p = d
      <4>1. p \in asked' \intersect kernel'
        BY <2>5, <2>7, <3>3 DEF KnownDirs, Owed
      <4>2. QED
        BY <3>1, <4>1 DEF Reached
    <3>4. QED
      BY <3>2, <3>3
  <2>8. QED
    BY <1>0, <1>2, <2>3, <2>4, <2>6, <2>7 DEF Complete
<1>10. CASE PumpBuilt
  <2>1. /\ pump.pc = "dirs" /\ pump.todo = {} /\ pump' = Running
        /\ UNCHANGED <<loop, queue, unseen, kernel, tailers, asked, fileCfg, dirCfg>>
    BY <1>10 DEF PumpBuilt, watcherVars
  <2>2. \A p : Owed(p)' => Owed(p)
    BY <1>1, <2>1 DEF Building
  <2>3. \A p : (Reached(p) => Reached(p)') /\ ~ ToDo(p)
    BY <2>1 DEF Reached, ToDo
  <2>4. QED
    BY <1>0, <1>2, <2>1, <2>2, <2>3 DEF Complete
<1>11. QED
  BY <1>3, <1>4, <1>5, <1>6, <1>7, <1>8, <1>9, <1>10 DEF Pump

\* The inductive invariant.
DiscoveryInv == TypeInv /\ KnownDirs /\ PumpKnows /\ RightGroups /\ Complete

\* It holds at the start.
LEMMA DiscoveryAtStart == Init => DiscoveryInv
<1> SUFFICES ASSUME Init PROVE DiscoveryInv
  OBVIOUS
<1>1. TypeInv
  BY TypesAtStart
<1>2. KnownDirs /\ RightGroups
  BY DEF Init, KnownDirs, RightGroups, Idle
<1>3. PumpKnows
  BY DEF Init, PumpKnows, Building, Serving
<1>4. Complete
  BY DEF Init, Complete, Owed, Building
<1>5. QED
  BY <1>1, <1>2, <1>3, <1>4 DEF DiscoveryInv

\* Every step keeps it.
LEMMA DiscoveryStep == DiscoveryInv /\ [Next]_vars => DiscoveryInv'
<1> SUFFICES ASSUME DiscoveryInv, [Next]_vars PROVE DiscoveryInv'
  OBVIOUS
<1>1. TypeInv /\ KnownDirs /\ PumpKnows /\ RightGroups /\ Complete
  BY DEF DiscoveryInv
<1>2. TypeInv' /\ KnownDirs' /\ PumpKnows' /\ RightGroups'
  BY <1>1, TypesStep, KnownStep, PumpKnowsStep, RightStep
<1>3. CASE UNCHANGED vars
  <2>1. UNCHANGED <<tree, kernel, tailers, asked, queue, loop, fileCfg, dirCfg, pump, unseen>>
    BY <1>3 DEF vars, watcherVars, pumpVars
  <2>2. \A p : /\ Owed(p)' => Owed(p)
               /\ Pending(p) => Pending(p)'
    BY <2>1 DEF Owed, Pending, InWalk, Unseen, Building
  <2>3. \A p : /\ Reached(p) => Reached(p)'
               /\ ToDo(p) => ToDo(p)'
    BY <2>1 DEF Reached, ToDo
  <2>4. Complete'
    BY <1>1, <2>1, <2>2, <2>3 DEF Complete
  <2>5. QED
    BY <1>2, <2>4 DEF DiscoveryInv
<1>4. CASE Next
  <2>1. Complete'
    BY <1>1, <1>4, PathAssumption, WorldKeepsComplete, LoopKeepsComplete,
       PumpKeepsComplete DEF Next
  <2>2. QED
    BY <1>2, <2>1 DEF DiscoveryInv
<1>5. QED
  BY <1>3, <1>4

\* In a directory that is watched for what appears in it, nothing is missed once
\* the goroutines are done: every file of some group is tailed, for that group,
\* and every directory the matcher accepts is watched, for any tree, any
\* configurations and any number of reloads and removals (watcher.go: the order of
\* watch and walk in handleNewDir; main.go: applyReloadWatcher, buildWatcher).
THEOREM WatchedDirsComplete == Spec => []WatchedDirsAreComplete
<1>1. DiscoveryInv => WatchedDirsAreComplete
  <2> SUFFICES ASSUME DiscoveryInv, Settled,
                      NEW p \in tree, p # <<>>, Parent(p) \in asked \intersect kernel,
                      ~ Unseen(p)
               PROVE  IF p \in Files THEN Misread(p) \/ Tailed(p)
                      ELSE DirMatcher(dirCfg, p) => p \in asked \intersect kernel
    BY DEF WatchedDirsAreComplete
  <2>1. pump.pc = "run" /\ loop.pc = "idle" /\ queue = <<>>
    BY DEF Settled, Running, Idle
  <2>2. ~ Pending(p) /\ ~ ToDo(p)
    BY <2>1 DEF Pending, InWalk, ToDo
  <2>3. Complete /\ RightGroups
    BY DEF DiscoveryInv
  <2>4. CASE p \in Files /\ ~ Misread(p)
    <3>1. Reached(p)
      BY <2>2, <2>3, <2>4 DEF Complete, Owed
    <3>2. QED
      BY <2>3, <2>4, <3>1 DEF Reached, RightGroups, Right, Tailed
  <2>5. CASE p \notin Files
    <3>1. Reached(p)
      BY <2>2, <2>3, <2>5 DEF Complete, Owed
    <3>2. QED
      BY <2>5, <3>1 DEF Reached
  <2>6. QED
    BY <2>4, <2>5
<1>2. QED
  BY <1>1, DiscoveryAtStart, DiscoveryStep, PTL DEF Spec
=============================================================================
