------------------------- MODULE ConfigReloadProofs -------------------------
(***************************************************************************)
(* Proofs about ConfigReload, for every command line, every content of the *)
(* files, every sequence of edits and every failure.                       *)
(*                                                                         *)
(* First, a program whose file has changed runs what a program started on  *)
(* the file it read last would run: this does not depend on what loading   *)
(* does.                                                                   *)
(*                                                                         *)
(* Then, that the groups of the command line come first in what runs, and  *)
(* that what `log-listener init' writes loads: these do.  Loading and the  *)
(* catalog are loops over sequences, each a fold of which an invariant is  *)
(* to be shown.  Since a theorem has no operator parameter, Step names the *)
(* loops, Good their invariants, and FoldKeeps is the one induction for    *)
(* all of them.                                                            *)
(***************************************************************************)
EXTENDS ConfigReload, FiniteSetTheorems, SequenceTheorems, TLAPS

\* A file is named on the command line.
Named == \A c \in ParseArgs(args) : c.explicit

\* Nothing is reloaded before something has changed, and nothing has changed before
\* the watch begins; and a file named on the command line is the one that is
\* watched, looked for and read.
Started ==
  /\ pump.pc \in {"start", "started", "select", "resolve", "read"}
  /\ pump.pc \in {"start", "started"} => ~ changed
  /\ ~ changed => latest = place /\ ~ signal /\ pump.pc \notin {"resolve", "read"}
  /\ signal \in BOOLEAN
  /\ pump.pc # "start" /\ Named => place = "explicit" /\ latest = "explicit"
  /\ pump.pc = "read" /\ Named => pump.from = "explicit"
  /\ disk = [p \in Files |-> disk[p]]
  /\ place \in Files \union {None}
  /\ latest \in Files \union {None}
  /\ pump.pc = "read" => pump.from \in Files \union {None}

ReloadInv == Started /\ ReloadIsRestart

-----------------------------------------------------------------------------
\* Nothing loads from a file that is not there.
LEMMA AbsentDoesNotLoad ==
  ASSUME NEW line, NEW p, p # None, NEW drop
  PROVE  Runtimes(LoadFrom(line, p, Absent), drop) = {}
<1>1. LoadFrom(line, p, Absent) = {}
  BY DEF LoadFrom
<1>2. QED
  BY <1>1 DEF Runtimes

\* A file is not found only if it was named, and is gone.
LEMMA NotFound ==
  ASSUME ResolvePath = {}
  PROVE  Named /\ disk["explicit"] = Absent
BY DEF ResolvePath, Named

\* What is found is a file, and the one named if one is.
LEMMA Found ==
  ASSUME NEW p \in ResolvePath
  PROVE  /\ p \in Files \union {None}
         /\ Named => p = "explicit"
BY DEF ResolvePath, Files, Named

\* The file read last, if it changes, is one of which nothing loads, or that is to
\* be taken up, or that is known to have changed.
LEMMA ChangeIsNoticed ==
  ASSUME ReloadInv, NEW p \in Files, NEW content,
         disk' = [disk EXCEPT ![p] = content], Notify(p),
         UNCHANGED procVars, UNCHANGED pump
  PROVE  ReloadInv'
<1>1. Started'
  BY DEF ReloadInv, Started, Notify, procVars, Named, Files
<1> DEFINE now == Runtimes(LoadFrom(args, latest, Content(latest)), dropUnmatched)
<1>2. ASSUME changed', ~ touched' \/ (latest = place /\ pump.pc = "select" /\ ~ signal')
      PROVE  now' \subseteq running /\ (half \/ now' \subseteq watching)
  <2>1. CASE p = latest
    <3>1. latest = place /\ pump.pc = "select"
      BY <1>2, <2>1 DEF Notify
    <3>2. disk'[latest] = Absent
      BY <1>2, <2>1, <3>1 DEF Notify
    <3>3. latest # None
      BY <2>1 DEF Files, None
    <3>4. now' = {}
      BY <3>2, <3>3, AbsentDoesNotLoad DEF Content, procVars
    <3>5. QED
      BY <3>4
  <2>2. CASE p # latest
    <3>1. Content(latest)' = Content(latest)
      BY <2>2 DEF Content, procVars, ReloadInv, Started
    <3>2. now' = now
      BY <3>1 DEF procVars
    <3>3. changed
      BY <1>2, <2>2 DEF Notify, ReloadInv, Started
    <3>4. ~ touched \/ (latest = place /\ pump.pc = "select" /\ ~ signal)
      BY <1>2, <2>2 DEF Notify
    <3>5. QED
      BY <3>2, <3>3, <3>4 DEF ReloadInv, ReloadIsRestart
  <2>3. QED
    BY <2>1, <2>2
<1>3. ReloadIsRestart'
  BY <1>2 DEF ReloadIsRestart, procVars
<1>4. QED
  BY <1>1, <1>3 DEF ReloadInv

\* At the start nothing has changed.
LEMMA ReloadInvInit == Init => ReloadInv
<1> SUFFICES ASSUME Init PROVE ReloadInv
  OBVIOUS
<1>1. disk = [p \in Files |-> disk[p]]
  BY DisksAreWhole DEF Init, Files
<1>2. QED
  BY <1>1 DEF Init, ReloadInv, Started, ReloadIsRestart

\* Every step of the program, of an editor and of `init' keeps it so.
LEMMA ReloadInvNext == ReloadInv /\ [Next]_vars => ReloadInv'
<1> SUFFICES ASSUME ReloadInv, [Next]_vars
             PROVE  ReloadInv'
  OBVIOUS
<1>1. ASSUME NEW p \in Files, NEW content, Edit(p, content)
      PROVE  ReloadInv'
  BY <1>1, ChangeIsNoticed DEF Edit
<1>2. ASSUME NEW names, NEW merge, InitRead(names, merge)
      PROVE  ReloadInv'
  BY <1>2 DEF InitRead, procVars, seenVars, ReloadInv, Started, ReloadIsRestart, Named, Content
<1>3. CASE InitCreate
  BY <1>3, ChangeIsNoticed DEF InitCreate, Files
<1>4. CASE InitWrite
  BY <1>4, ChangeIsNoticed DEF InitWrite, Files
<1>5. CASE Start
  <2>1. PICK p \in ResolvePath : place' = p /\ latest' = p
    BY <1>5 DEF Start
  <2>2. /\ pump.pc = "start" /\ pump' = [pc |-> "started"]
        /\ UNCHANGED <<args, disk, signal, changed>>
    BY <1>5 DEF Start
  <2>3. Named' = Named
    BY <2>2 DEF Named
  <2>4. Started'
    BY <2>1, <2>2, <2>3, Found DEF ReloadInv, Started
  <2>5. ReloadIsRestart'
    BY <2>2 DEF ReloadInv, Started, ReloadIsRestart
  <2>6. QED
    BY <2>4, <2>5 DEF ReloadInv
<1>6. CASE StartWatch
  <2>1. /\ pump.pc = "started" /\ pump' = [pc |-> "select"]
        /\ UNCHANGED <<args, place, latest, disk, signal, changed>>
    BY <1>6 DEF StartWatch, procVars, seenVars
  <2>2. Started' /\ ~ changed'
    BY <2>1 DEF ReloadInv, Started, Named
  <2>3. QED
    BY <2>2 DEF ReloadInv, ReloadIsRestart
<1>7. CASE PumpTake
  <2>1. /\ pump.pc = "select" /\ pump' = [pc |-> "resolve"]
        /\ signal /\ signal' = FALSE
        /\ UNCHANGED <<procVars, disk, changed, touched>>
    BY <1>7 DEF PumpTake, procVars, seenVars
  <2>2. Started'
    BY <2>1 DEF ReloadInv, Started, Named, procVars
  <2>3. ReloadIsRestart'
    BY <2>1 DEF ReloadInv, ReloadIsRestart, Content, procVars
  <2>4. QED
    BY <2>2, <2>3 DEF ReloadInv
<1>8. CASE PumpResolve
  <2>1. pump.pc = "resolve" /\ UNCHANGED <<procVars, disk, signal, changed, touched>>
    BY <1>8 DEF PumpResolve, seenVars
  <2>2. CASE ResolvePath = {}
    <3>1. pump' = [pc |-> "select"]
      BY <1>8, <2>2 DEF PumpResolve
    <3>2. latest = "explicit" /\ disk[latest] = Absent
      BY <2>1, <2>2, NotFound DEF ReloadInv, Started
    <3>3. Content(latest)' = Absent /\ latest' # None
      BY <2>1, <3>2 DEF Content, procVars, None
    <3>4. Runtimes(LoadFrom(args', latest', Content(latest)'), dropUnmatched') = {}
      BY <3>3, AbsentDoesNotLoad
    <3>5. Started'
      BY <2>1, <3>1 DEF ReloadInv, Started, Named, procVars
    <3>6. QED
      BY <3>4, <3>5 DEF ReloadInv, ReloadIsRestart
  <2>3. CASE ResolvePath # {}
    <3>1. PICK p \in ResolvePath : pump' = [pc |-> "read", from |-> p]
      BY <1>8, <2>3 DEF PumpResolve
    <3>2. Started'
      BY <2>1, <3>1, Found DEF ReloadInv, Started, Named, procVars
    <3>3. ReloadIsRestart'
      BY <2>1, <3>1 DEF ReloadInv, ReloadIsRestart, Content, procVars
    <3>4. QED
      BY <3>2, <3>3 DEF ReloadInv
  <2>4. QED
    BY <2>2, <2>3
<1>9. CASE PumpRead
  <2> DEFINE loaded == Runtimes(LoadFrom(args, pump.from, Content(pump.from)), dropUnmatched)
  <2>1. /\ pump.pc = "read" /\ pump' = [pc |-> "select"]
        /\ latest' = pump.from
        /\ UNCHANGED <<args, dropUnmatched, place, disk, signal, changed>>
    BY <1>9 DEF PumpRead
  <2>2. Started'
    BY <2>1 DEF ReloadInv, Started, Named
  <2>3. loaded \subseteq running' /\ (half' \/ loaded \subseteq watching')
    <3>1. Apply(loaded)
      BY <1>9 DEF PumpRead
    <3> HIDE DEF loaded
    <3>2. QED
      BY <3>1 DEF Apply
  <2>4. Runtimes(LoadFrom(args', latest', Content(latest)'), dropUnmatched') = loaded
    BY <2>1 DEF Content
  <2>5. ReloadIsRestart'
    BY <2>3, <2>4 DEF ReloadIsRestart
  <2>6. QED
    BY <2>2, <2>5 DEF ReloadInv
<1>10. CASE UNCHANGED vars
  BY <1>10 DEF vars, procVars, seenVars, ReloadInv, Started, ReloadIsRestart, Named, Content
<1>11. QED
  BY <1>1, <1>2, <1>3, <1>4, <1>5, <1>6, <1>7, <1>8, <1>9, <1>10 DEF Next

\* Whatever a configuration is made of and however its file is edited, removed or
\* shadowed, once a change has been taken up the program renders and shows by the
\* configuration with which it would start on the file it read last; and it follows
\* files by that one's groups, unless it could not build the watcher for them
\* (main.go applyReloadWatcher).
THEOREM AReloadIsARestart == Spec => []ReloadIsRestart
<1>1. ReloadInv => ReloadIsRestart
  BY DEF ReloadInv
<1>2. QED
  BY ReloadInvInit, ReloadInvNext, <1>1, PTL DEF Spec

-----------------------------------------------------------------------------
(* The loops of loading and of the catalog, and their invariants.          *)

\* What of a file passes the filter of a loop: p.cfg is the configuration so far.
Passes(loop, p, e) ==
  /\ ~ e.disabled
  /\ loop = "fresh" => Places(p.cfg.groups, p.kind, IdOf(e.id)) = {}

\* The loops of the model, as Step and Good below need them.
AddName(out, n) == IF Contains(out, n) THEN out ELSE Append(out, n)
Member(cat, out, n) == {AddName(out, r.name) : r \in {x \in ResolveName(cat, n) : ~ x.bundle}}
Opened(cat, out, r) ==
  IF r.bundle
  THEN FoldLeft(LAMBDA outs, n : UNION {Member(cat, o, n) : o \in outs}, {out}, cat.bundles[r.name])
  ELSE {AddName(out, r.name)}
Expanded(cat, out, n) == UNION {Opened(cat, out, r) : r \in ResolveName(cat, n)}
AsUsed(app, product, sources) ==
  [i \in DOMAIN sources |-> [app |-> app, product |-> product, source |-> sources[i]]]

\* A step of a loop: p is what it knows, x what there is so far, y an element.
Step(loop, p, x, y) ==
  CASE loop = "parse" -> UNION {ParseFlag(c, y) : c \in x}
    [] loop \in {"fresh", "enabled"} -> IF Passes(loop, p, y) THEN Append(x, y) ELSE x
    [] loop = "member" -> UNION {Member(p, o, y) : o \in x}
    [] loop = "names" -> UNION {Expanded(p, o, y) : o \in x}
    [] loop = "use" -> x \o AsUsed(p.app, y.product, p.cat.fragments[y.frag])
    [] loop = "uses" -> x \o UsesOf(p, y)
    [] loop = "rule" -> AddName(x, y)
    [] loop = "rules" -> FoldLeft(AddName, x, p.apps[y].renderers)
    [] loop = "emit" -> EmitSource(x, y)
    [] loop = "new" -> IF \E i \in DOMAIN x : x[i][p.key] = y[p.key] THEN x ELSE Append(x, y)

\* Groups in a sequence, of which no two are called the same.
Distinct(groups) ==
  \A i, j \in DOMAIN groups :
    i # j => groups[i].kind # groups[j].kind \/ groups[i].id # groups[j].id

\* As config.Config has them.
AreGroups(groups) ==
  /\ IsSequence(groups)
  /\ \A i \in DOMAIN groups : {"kind", "id"} \subseteq DOMAIN groups[i]
  /\ Distinct(groups)

\* What ParseArgs may return.
Parsed(cfgs) ==
  /\ \A c, d \in cfgs : c = d
  /\ \A c \in cfgs : DOMAIN c = DOMAIN NewConfig /\ AreGroups(c.groups)

\* Of the first n entries those that pass, apart if the entries are.
Selected(loop, p, n, x) ==
  /\ IsSequence(x)
  /\ \A i \in DOMAIN x : \E k \in 1 .. n : x[i] = p.seq[k] /\ Passes(loop, p, p.seq[k])
  /\ \A k \in 1 .. n : Passes(loop, p, p.seq[k]) => \E i \in DOMAIN x : x[i] = p.seq[k]
  /\ ~ Repeats(p.seq) =>
       \A i, j \in DOMAIN x : i # j => IdOf(x[i].id) # IdOf(x[j].id)

\* Sequences of apps, of sources in use, of renderers.
AppsOf(cat, outs) == \A out \in outs : out \in Seq(DOMAIN cat.apps)
UsesIn(cat) ==
  [app : DOMAIN cat.apps, source : SourcesOf(cat),
   product : {""} \union {u.product : u \in UNION {ToSet(cat.apps[a].use) : a \in DOMAIN cat.apps}}]
\* Numbers are told apart by their numerals.
NumeralsDiffer == \A m, n \in Nat : ToString(m) = ToString(n) => m = n

\* An entry that the catalog makes.
MadeEntry(e) ==
  /\ ~ e.disabled /\ e.paths # <<>> /\ ~ BadFilter(e.filter)
  /\ IsSequence(e.id) /\ e.id # <<>> /\ e.id # Default

\* A file that EmitSource is making.
Made(x) ==
  /\ x = [seen |-> x.seen, doc |-> x.doc]
  /\ IsFiniteSet(x.seen)
  /\ x.doc = [EmptyDocument EXCEPT !.dirs = x.doc.dirs, !.files = x.doc.files]
  /\ \A k \in {"dirs", "files"} :
       /\ IsSequence(x.doc[k])
       /\ \A i \in DOMAIN x.doc[k] : MadeEntry(x.doc[k][i]) /\ x.doc[k][i].id \in x.seen
  /\ NumeralsDiffer =>
       \A k, l \in {"dirs", "files"} : \A i \in DOMAIN x.doc[k], j \in DOMAIN x.doc[l] :
         k # l \/ i # j => x.doc[k][i].id # x.doc[l][j].id

\* The old entries, and of the new ones such as nothing before is called.
Extends(p, n, x) ==
  /\ IsSequence(x) /\ Len(p.old) <= Len(x)
  /\ \A i \in 1 .. Len(p.old) : x[i] = p.old[i]
  /\ \A i \in DOMAIN x : i > Len(p.old) => \E k \in 1 .. n : x[i] = p.new[k]
  /\ \A i, j \in DOMAIN x : i < j /\ j > Len(p.old) => x[i][p.key] # x[j][p.key]

\* What is so of a loop once it has done n steps.
Good(loop, p, n, x) ==
  CASE loop = "parse" -> Parsed(x)
    [] loop \in {"fresh", "enabled"} -> Selected(loop, p, n, x)
    [] loop \in {"member", "names"} -> AppsOf(p, x)
    [] loop = "use" -> x \in Seq(UsesIn(p.cat))
    [] loop = "uses" -> x \in Seq(UsesIn(p))
    [] loop \in {"rule", "rules"} -> x \in Seq(DOMAIN p.renderers)
    [] loop = "emit" -> Made(x)
    [] loop = "new" -> Extends(p, n, x)

-----------------------------------------------------------------------------
(* Numbers, and the folds of loops.                                        *)

\* A nonempty set of naturals has a least element.
LEMMA LeastElement ==
  ASSUME NEW T \in SUBSET Nat, T # {}
  PROVE  \E m \in T : \A k \in T : m <= k
<1> DEFINE Less == {p \in Nat \X Nat : p[1] < p[2]}
<1>1. IsWellFoundedOn(Less, Nat)
  BY NatLessThanWellFounded, Zenon DEF OpToRel
<1>2. PICK m \in T : \A k \in T : ~ (<<k, m>> \in Less)
  <2> HIDE DEF Less
  <2> QED BY <1>1, WFMin
<1>3. ASSUME NEW k \in T
      PROVE  m <= k
  <2>1. <<k, m>> \notin Less /\ <<k, m>> \in Nat \X Nat
    BY <1>2
  <2>2. ~ (<<k, m>>[1] < <<k, m>>[2])
    BY <2>1
  <2>3. k \in Nat /\ m \in Nat
    OBVIOUS
  <2>4. QED
    BY <2>2, <2>3
<1>4. QED
  BY <1>3

\* Induction up to n, over a set instead of a predicate.
LEMMA UpTo ==
  ASSUME NEW n \in Nat, NEW T, 0 \in T,
         \A i \in 0 .. n - 1 : i \in T => i + 1 \in T
  PROVE  \A i \in 0 .. n : i \in T
<1> DEFINE Out == {i \in 0 .. n : i \notin T}
<1> SUFFICES ASSUME Out # {} PROVE FALSE
  OBVIOUS
<1>1. PICK m \in Out : \A k \in Out : m <= k
  <2>1. Out \in SUBSET Nat
    OBVIOUS
  <2> HIDE DEF Out
  <2>2. QED
    BY <2>1, LeastElement
<1>2. m \in 0 .. n /\ m \notin T /\ m # 0
  OBVIOUS
<1>3. m - 1 \in 0 .. n - 1 /\ m - 1 \notin Out
  BY <1>1, <1>2
<1>4. m - 1 \in T
  BY <1>3
<1>5. (m - 1) + 1 = m
  BY <1>2
<1>6. QED
  BY <1>2, <1>3, <1>4, <1>5

\* A nonempty set of numbers up to n has a greatest element.
LEMMA MaxIs ==
  ASSUME NEW n \in Nat, NEW S \in SUBSET (0 .. n), S # {}
  PROVE  Max(S) \in S /\ \A x \in S : x <= Max(S)
<1> DEFINE T == {k \in 0 .. n : n - k \in S}
<1>1. T \in SUBSET Nat
  OBVIOUS
<1>2. T # {}
  <2>1. PICK x \in S : TRUE
    OBVIOUS
  <2>2. n - x \in 0 .. n /\ n - (n - x) = x
    OBVIOUS
  <2>3. QED
    BY <2>1, <2>2
<1>3. PICK m \in T : \A k \in T : m <= k
  <2> HIDE DEF T
  <2>1. QED
    BY <1>1, <1>2, LeastElement
<1>4. ASSUME NEW x \in S
      PROVE  x <= n - m
  <2>1. x \in 0 .. n /\ n - x \in 0 .. n /\ n - (n - x) = x
    OBVIOUS
  <2>2. n - x \in T
    BY <2>1
  <2>3. m <= n - x
    BY <1>3, <2>2
  <2>4. QED
    BY <2>1, <2>3
<1>5. n - m \in S /\ \A x \in S : n - m >= x
  BY <1>3, <1>4
<1>6. QED
  BY <1>5 DEF Max

\* A set of numbers up to n that n is in has n as its maximum.
LEMMA MaxOfPrefix ==
  ASSUME NEW n \in Nat \ {0}, NEW S \in SUBSET (1 .. n), n \in S
  PROVE  Max(S) = n
<1>1. S \in SUBSET (0 .. n)
  OBVIOUS
<1>2. Max(S) \in S /\ \A x \in S : x <= Max(S)
  BY <1>1, MaxIs
<1>3. Max(S) \in 1 .. n /\ n <= Max(S)
  BY <1>2
<1> DEFINE m == Max(S)
<1> HIDE DEF m
<1>4. m = n
  BY <1>3 DEF m
<1>5. QED
  BY <1>4 DEF m

\* What the fold of a loop over the first n elements of seq obeys.
IsFoldOf(iter, loop, p, base, seq, n) ==
  iter = [s \in SUBSET (1 .. n) |->
            IF s = {} THEN base
            ELSE Step(loop, p, iter[s \ {Max(s)}], seq[Max(s)])]

\* Such a function up to n makes one up to n + 1.
LEMMA FoldGrows ==
  ASSUME NEW loop, NEW p, NEW base, NEW seq, NEW n \in Nat,
         NEW iter, IsFoldOf(iter, loop, p, base, seq, n)
  PROVE  \E more : IsFoldOf(more, loop, p, base, seq, n + 1)
<1> DEFINE m == n + 1
           On(x, y) == Step(loop, p, x, y)
           more == [s \in SUBSET (1 .. m) |->
                      IF m \in s THEN On(iter[s \ {m}], seq[m]) ELSE iter[s]]
<1> HIDE DEF On
<1>1. m \in Nat \ {0}
  OBVIOUS
<1>2. ASSUME NEW s \in SUBSET (1 .. m)
      PROVE  more[s] = IF s = {} THEN base ELSE On(more[s \ {Max(s)}], seq[Max(s)])
  <2>1. CASE m \in s
    <3>1. Max(s) = m
      <4> HIDE DEF m
      <4> QED BY <1>1, <2>1, MaxOfPrefix
    <3>2. m \notin s \ {m} /\ s \ {m} \in SUBSET (1 .. m)
      OBVIOUS
    <3>3. more[s \ {m}] = iter[s \ {m}]
      BY <3>2
    <3>4. more[s] = On(iter[s \ {m}], seq[m])
      BY <2>1
    <3>5. QED
      BY <2>1, <3>1, <3>3, <3>4
  <2>2. CASE m \notin s
    <3>1. s \in SUBSET (1 .. n)
      BY <2>2
    <3>2. more[s] = iter[s]
      BY <2>2
    <3>3. iter[s] = IF s = {} THEN base ELSE On(iter[s \ {Max(s)}], seq[Max(s)])
      BY <3>1 DEF IsFoldOf, On
    <3>4. more[s \ {Max(s)}] = iter[s \ {Max(s)}]
      BY <2>2
    <3>5. QED
      BY <3>2, <3>3, <3>4
  <2>3. QED
    BY <2>1, <2>2
<1>3. more = [s \in SUBSET (1 .. m) |->
                IF s = {} THEN base ELSE On(more[s \ {Max(s)}], seq[Max(s)])]
  <2> DEFINE F(s) == IF s = {} THEN base ELSE On(more[s \ {Max(s)}], seq[Max(s)])
             G(s) == IF m \in s THEN On(iter[s \ {m}], seq[m]) ELSE iter[s]
  <2>1. more = [s \in SUBSET (1 .. m) |-> G(s)]
    OBVIOUS
  <2>2. \A s \in SUBSET (1 .. m) : F(s) = G(s)
    BY <1>2
  <2> HIDE DEF F, G, more, m
  <2>3. more = [s \in SUBSET (1 .. m) |-> F(s)]
    BY <2>1, <2>2
  <2>4. QED
    BY <2>3 DEF F
<1>4. QED
  BY <1>3 DEF IsFoldOf, On

\* There is such a fold,
LEMMA FoldExists ==
  ASSUME NEW loop, NEW p, NEW base, NEW seq, NEW n \in Nat
  PROVE  \E iter : IsFoldOf(iter, loop, p, base, seq, n)
<1> DEFINE T == {i \in 0 .. n : \E iter : IsFoldOf(iter, loop, p, base, seq, i)}
<1>1. 0 \in T
  <2> DEFINE iter == [s \in SUBSET (1 .. 0) |-> base]
  <2>1. iter = [s \in SUBSET (1 .. 0) |->
            IF s = {} THEN base
            ELSE Step(loop, p, iter[s \ {Max(s)}], seq[Max(s)])]
    OBVIOUS
  <2>2. IsFoldOf(iter, loop, p, base, seq, 0)
    BY <2>1 DEF IsFoldOf
  <2>3. QED
    BY <2>2
<1>2. ASSUME NEW i \in 0 .. n - 1, i \in T
      PROVE  i + 1 \in T
  BY <1>2, FoldGrows
<1> HIDE DEF T
<1>3. n \in T
  BY <1>1, <1>2, UpTo
<1>4. QED
  BY <1>3 DEF T

\* and what every step of it keeps holds of what it makes.
LEMMA FoldKeeps ==
  ASSUME NEW loop, NEW p, NEW base, NEW seq, NEW n \in Nat,
         NEW iter, IsFoldOf(iter, loop, p, base, seq, n),
         Good(loop, p, 0, base),
         \A i \in 1 .. n : \A x :
           Good(loop, p, i - 1, x) => Good(loop, p, i, Step(loop, p, x, seq[i]))
  PROVE  Good(loop, p, n, iter[1 .. n])
<1> DEFINE T == {i \in 0 .. n : Good(loop, p, i, iter[1 .. i])}
<1>1. 0 \in T
  <2>1. 1 .. 0 = {}
    OBVIOUS
  <2>2. iter[{}] = base
    BY DEF IsFoldOf
  <2>3. QED
    BY <2>1, <2>2
<1>2. ASSUME NEW i \in 0 .. n - 1, i \in T
      PROVE  i + 1 \in T
  <2> DEFINE j == i + 1
             s == 1 .. j
  <2>1. j \in 1 .. n /\ j \in Nat \ {0} /\ j - 1 = i
    OBVIOUS
  <2>2. s \in SUBSET (1 .. n) /\ s # {} /\ j \in s /\ s \in SUBSET (1 .. j)
    <3> HIDE DEF j
    <3> QED BY <2>1
  <2>3. Max(s) = j
    <3> HIDE DEF j, s
    <3> QED BY <2>1, <2>2, MaxOfPrefix
  <2>4. s \ {j} = 1 .. i
    OBVIOUS
  <2>5. iter[s] = Step(loop, p, iter[s \ {Max(s)}], seq[Max(s)])
    <3> HIDE DEF j, s
    <3> QED BY <2>2 DEF IsFoldOf
  <2>6. iter[s] = Step(loop, p, iter[1 .. i], seq[j])
    BY <2>3, <2>4, <2>5
  <2>7. Good(loop, p, j - 1, iter[1 .. i])
    BY <1>2, <2>1
  <2>8. Good(loop, p, j, iter[s])
    <3> HIDE DEF j, s
    <3> QED BY <2>1, <2>6, <2>7
  <2>9. QED
    BY <2>1, <2>8
<1> HIDE DEF T
<1>3. n \in T
  BY <1>1, <1>2, UpTo
<1>4. QED
  BY <1>3 DEF T


-----------------------------------------------------------------------------
(* Sequences.                                                              *)

\* A sequence is a function from 1 .. Len(s).
LEMMA SequenceIs ==
  ASSUME NEW s, IsSequence(s)
  PROVE  /\ Len(s) \in Nat
         /\ DOMAIN s = 1 .. Len(s)
         /\ s \in Seq(ToSet(s))
BY LenProperties DEF IsSequence

\* What is a sequence over a set is one over its own elements.
LEMMA InSeqIsSequence ==
  ASSUME NEW S, NEW s \in Seq(S)
  PROVE  IsSequence(s)
<1>1. s \in [1 .. Len(s) -> S] /\ Len(s) \in Nat /\ DOMAIN s = 1 .. Len(s)
  BY LenProperties
<1>2. s \in [1 .. Len(s) -> ToSet(s)]
  BY <1>1 DEF ToSet
<1>3. QED
  BY <1>1, <1>2, SeqDef DEF IsSequence

\* The empty sequence is one.
LEMMA EmptyIs == IsSequence(<<>>) /\ Len(<<>>) = 0 /\ DOMAIN <<>> = {}
<1>1. <<>> \in Seq({}) /\ Len(<<>>) = 0
  BY EmptySeq
<1>2. IsSequence(<<>>)
  BY <1>1, InSeqIsSequence
<1>3. DOMAIN <<>> = {}
  BY <1>1, <1>2, SequenceIs
<1>4. QED
  BY <1>1, <1>2, <1>3

\* What Append makes, element by element.
LEMMA AppendIs ==
  ASSUME NEW s, IsSequence(s), NEW e
  PROVE  /\ IsSequence(Append(s, e))
         /\ Len(Append(s, e)) = Len(s) + 1
         /\ DOMAIN Append(s, e) = 1 .. Len(s) + 1
         /\ \A i \in 1 .. Len(s) : Append(s, e)[i] = s[i]
         /\ Append(s, e)[Len(s) + 1] = e
<1> DEFINE S == ToSet(s) \union {e}
<1>1. s \in Seq(S) /\ e \in S
  BY SequenceIs, SeqMonotonic
<1> HIDE DEF S
<1>2. /\ Append(s, e) \in Seq(S)
      /\ Len(Append(s, e)) = Len(s) + 1
      /\ \A i \in 1 .. Len(s) : Append(s, e)[i] = s[i]
      /\ Append(s, e)[Len(s) + 1] = e
  BY <1>1, AppendProperties
<1>3. IsSequence(Append(s, e))
  BY <1>2, InSeqIsSequence
<1>4. DOMAIN Append(s, e) = 1 .. Len(s) + 1
  BY <1>2, <1>3, SequenceIs
<1>5. QED
  BY <1>2, <1>3, <1>4

\* What concatenation makes, element by element.
LEMMA ConcatIs ==
  ASSUME NEW s, IsSequence(s), NEW t, IsSequence(t)
  PROVE  /\ IsSequence(s \o t)
         /\ Len(s \o t) = Len(s) + Len(t)
         /\ DOMAIN (s \o t) = 1 .. Len(s) + Len(t)
         /\ \A i \in 1 .. Len(s) : (s \o t)[i] = s[i]
         /\ \A i \in 1 .. Len(t) : (s \o t)[Len(s) + i] = t[i]
<1> DEFINE S == ToSet(s) \union ToSet(t)
<1>1. s \in Seq(S) /\ t \in Seq(S)
  BY SequenceIs, SeqMonotonic
<1> HIDE DEF S
<1>2. Len(s) \in Nat /\ Len(t) \in Nat
  BY SequenceIs
<1>3. /\ s \o t \in Seq(S)
      /\ Len(s \o t) = Len(s) + Len(t)
      /\ \A i \in 1 .. Len(s) + Len(t) :
           (s \o t)[i] = IF i <= Len(s) THEN s[i] ELSE t[i - Len(s)]
  BY <1>1, ConcatProperties
<1>4. IsSequence(s \o t)
  BY <1>3, InSeqIsSequence
<1>5. DOMAIN (s \o t) = 1 .. Len(s) + Len(t)
  BY <1>3, <1>4, SequenceIs
<1>6. \A i \in 1 .. Len(s) : (s \o t)[i] = s[i]
  BY <1>2, <1>3
<1>7. ASSUME NEW i \in 1 .. Len(t)
      PROVE  (s \o t)[Len(s) + i] = t[i]
  <2>1. /\ Len(s) + i \in 1 .. Len(s) + Len(t)
        /\ ~ (Len(s) + i <= Len(s))
        /\ (Len(s) + i) - Len(s) = i
    BY <1>2
  <2>2. QED
    BY <1>3, <2>1
<1>8. QED
  BY <1>3, <1>4, <1>5, <1>6, <1>7

\* A function on 1 .. n is a sequence.
LEMMA FunctionIs ==
  ASSUME NEW n \in Nat, NEW f, f = [i \in 1 .. n |-> f[i]]
  PROVE  IsSequence(f) /\ Len(f) = n /\ DOMAIN f = 1 .. n
<1>1. f \in [1 .. n -> ToSet(f)]
  BY DEF ToSet
<1>2. f \in Seq(ToSet(f))
  BY <1>1, SeqDef
<1>3. DOMAIN f = 1 .. n
  OBVIOUS
<1>4. 1 .. Len(f) = 1 .. n /\ Len(f) \in Nat
  BY <1>2, <1>3, LenProperties
<1>5. Len(f) = n
  BY <1>4
<1>6. QED
  BY <1>2, <1>3, <1>5 DEF IsSequence

-----------------------------------------------------------------------------
(* The command line.                                                       *)
\* ParseArgs (cli.go ParseArgs) is the fold of its loop over the flags.
LEMMA ParseIsFold ==
  ASSUME NEW line, NEW n \in Nat, DOMAIN line = 1 .. n
  PROVE  \E iter : /\ IsFoldOf(iter, "parse", <<>>, {NewConfig}, line, n)
                   /\ ParseArgs(line) = iter[1 .. n]
<1> DEFINE On(x, y) == UNION {ParseFlag(c, y) : c \in x}
           Obeys(f) == f = [s \in SUBSET (1 .. n) |->
                              IF s = {} THEN {NewConfig}
                              ELSE On(f[s \ {Max(s)}], line[Max(s)])]
           It == CHOOSE f : Obeys(f)
<1>1. ParseArgs(line) = It[1 .. n]
  BY DEF ParseArgs, FoldLeft, MapThenFoldSet
<1>2. \A x, y : Step("parse", <<>>, x, y) = On(x, y)
  BY DEF Step
<1> HIDE DEF On
<1>3. \A f : IsFoldOf(f, "parse", <<>>, {NewConfig}, line, n) <=> Obeys(f)
  BY <1>2 DEF IsFoldOf
<1>4. \E f : Obeys(f)
  BY <1>3, FoldExists
<1> HIDE DEF Obeys
<1>5. Obeys(It)
  BY <1>4
<1>6. QED
  BY <1>1, <1>3, <1>5

\* A group that is asked for is there once.
LEMMA EnsureIs ==
  ASSUME NEW groups, AreGroups(groups), NEW kind, NEW id
  PROVE  /\ AreGroups(Ensure(groups, kind, id))
         /\ Places(Ensure(groups, kind, id), kind, id) # {}
<1>1. CASE Places(groups, kind, id) # {}
  BY <1>1 DEF Ensure
<1>2. CASE Places(groups, kind, id) = {}
  <2> DEFINE g == [kind |-> kind, id |-> id, paths |-> <<>>,
                   recursive |-> kind = "dir", filter |-> {}, off |-> FALSE]
             n == Len(groups)
             more == Append(groups, g)
  <2>1. g.kind = kind /\ g.id = id /\ {"kind", "id"} \subseteq DOMAIN g
    OBVIOUS
  <2>2. Ensure(groups, kind, id) = more
    BY <1>2 DEF Ensure
  <2> HIDE DEF g
  <2>3. IsSequence(groups) /\ n \in Nat /\ DOMAIN groups = 1 .. n
    BY SequenceIs DEF AreGroups
  <2>4. /\ IsSequence(more) /\ DOMAIN more = 1 .. n + 1
        /\ \A i \in 1 .. n : more[i] = groups[i]
        /\ more[n + 1] = g
    BY <2>3, AppendIs
  <2> HIDE DEF more, n
  <2>5. \A i \in 1 .. n : groups[i].kind # kind \/ groups[i].id # id
    BY <1>2, <2>3 DEF Places
  <2>6. \A i \in DOMAIN more : i \in 1 .. n \/ i = n + 1
    BY <2>3, <2>4
  <2>7. Distinct(more)
    BY <2>1, <2>3, <2>4, <2>5, <2>6 DEF Distinct, AreGroups
  <2>8. \A i \in DOMAIN more : {"kind", "id"} \subseteq DOMAIN more[i]
    BY <2>1, <2>3, <2>4, <2>6 DEF AreGroups
  <2>9. n + 1 \in Places(more, kind, id)
    BY <2>1, <2>3, <2>4 DEF Places
  <2>10. QED
    BY <2>2, <2>4, <2>7, <2>8, <2>9 DEF AreGroups
<1>3. QED
  BY <1>1, <1>2

\* Groups that keep what they are called keep apart.
LEMMA SameNames ==
  ASSUME NEW groups, AreGroups(groups), NEW more, DOMAIN more = DOMAIN groups,
         more = [i \in DOMAIN groups |-> more[i]],
         \A i \in DOMAIN groups : /\ DOMAIN more[i] = DOMAIN groups[i]
                                  /\ more[i].kind = groups[i].kind
                                  /\ more[i].id = groups[i].id
  PROVE  AreGroups(more)
<1>1. IsSequence(more)
  BY SequenceIs, FunctionIs DEF AreGroups
<1>2. QED
  BY <1>1 DEF AreGroups, Distinct

\* ParseFlag makes at most one configuration, with groups of their own names.
LEMMA ParseFlagKeeps ==
  ASSUME NEW c, DOMAIN c = DOMAIN NewConfig, AreGroups(c.groups), NEW a
  PROVE  /\ \A d, e \in ParseFlag(c, a) : d = e
         /\ \A d \in ParseFlag(c, a) : DOMAIN d = DOMAIN NewConfig /\ AreGroups(d.groups)
<1> DEFINE Fine(d) == DOMAIN d = DOMAIN NewConfig /\ AreGroups(d.groups)
           Lone(S) == (\A d, e \in S : d = e) /\ (\A d \in S : Fine(d))
<1>0. DOMAIN NewConfig = {"groups", "filter", "explicit", "preloads", "scalars", "given",
                          "renderers", "matchers", "mutes", "keys"}
  BY DEF NewConfig
<1>1. ASSUME NEW kind
      PROVE  Lone(AddPaths(c, kind, a))
  <2> DEFINE groups == Ensure(c.groups, kind, IdOf(a.id))
             at     == Places(groups, kind, IdOf(a.id))
             more   == [i \in DOMAIN groups |->
                          IF i \in at THEN [groups[i] EXCEPT !.paths = @ \o a.vals]
                          ELSE groups[i]]
             d      == [c EXCEPT !.groups = more]
  <2>1. AreGroups(groups)
    BY EnsureIs
  <2>2. AddPaths(c, kind, a) = IF a.vals = <<>> THEN {} ELSE {d}
    BY DEF AddPaths
  <2>3. AreGroups(more)
    <3> HIDE DEF groups, at
    <3>1. \A i \in DOMAIN groups : {"kind", "id"} \subseteq DOMAIN groups[i]
      BY <2>1 DEF AreGroups
    <3>2. \A i \in DOMAIN groups : /\ DOMAIN more[i] = DOMAIN groups[i]
                                   /\ more[i].kind = groups[i].kind
                                   /\ more[i].id = groups[i].id
      BY <3>1
    <3>3. DOMAIN more = DOMAIN groups /\ more = [i \in DOMAIN groups |-> more[i]]
      OBVIOUS
    <3> HIDE DEF more
    <3>4. QED
      BY <2>1, <3>2, <3>3, SameNames
  <2> HIDE DEF more
  <2>4. Fine(d)
    BY <1>0, <2>3
  <2>5. QED
    BY <2>2, <2>4
<1>2. Lone(AddRules(c, a))
  <2> DEFINE groups == Ensure(c.groups, "dir", IdOf(a.id))
             places == Places(groups, "dir", IdOf(a.id))
             at     == CHOOSE i \in places : TRUE
             D(f)   == [c EXCEPT !.groups = [groups EXCEPT ![at].filter = f]]
  <2>1. AreGroups(groups) /\ places # {}
    BY EnsureIs
  <2>2. at \in DOMAIN groups
    BY <2>1 DEF Places
  <2>3. AddRules(c, a) = {D(f) : f \in ApplyRules(groups[at].filter, a.vals)}
    BY DEF AddRules
  <2> HIDE DEF groups, places, at
  <2>4. \A f, g \in ApplyRules(groups[at].filter, a.vals) : f = g
    BY DEF ApplyRules
  <2>5. ASSUME NEW f
        PROVE  Fine(D(f))
    <3> DEFINE more == [groups EXCEPT ![at].filter = f]
    <3>1. \A i \in DOMAIN groups : {"kind", "id"} \subseteq DOMAIN groups[i]
      BY <2>1 DEF AreGroups
    <3>2. \A i \in DOMAIN groups : /\ DOMAIN more[i] = DOMAIN groups[i]
                                   /\ more[i].kind = groups[i].kind
                                   /\ more[i].id = groups[i].id
      BY <3>1
    <3>3. DOMAIN more = DOMAIN groups /\ more = [i \in DOMAIN groups |-> more[i]]
      OBVIOUS
    <3> HIDE DEF more
    <3>4. AreGroups(more)
      BY <2>1, <3>2, <3>3, SameNames
    <3>5. QED
      BY <1>0, <3>4 DEF more
  <2> HIDE DEF D, Fine
  <2>6. QED
    BY <2>3, <2>4, <2>5
<1>3. Lone({[c EXCEPT !.filter = f] : f \in ApplyRules(c.filter, a.vals)})
  <2>1. \A f, g \in ApplyRules(c.filter, a.vals) : f = g
    BY DEF ApplyRules
  <2>2. QED
    BY <1>0, <2>1
<1>4. Lone({[c EXCEPT !.explicit = TRUE]}) /\ Lone({[c EXCEPT !.preloads = TRUE]})
  BY <1>0
<1>5. Lone({[c EXCEPT !.scalars[a.flag] = a.val, !.given = @ \union {a.flag}]})
  BY <1>0
<1> HIDE DEF Lone
<1>6. Lone(ParseFlag(c, a))
  BY <1>1, <1>2, <1>3, <1>4, <1>5 DEF ParseFlag
<1>7. QED
  BY <1>6 DEF Lone

\* A command line makes at most one configuration, whose groups have names of their own.
LEMMA ParseArgsIs ==
  ASSUME NEW line, IsSequence(line)
  PROVE  Parsed(ParseArgs(line))
<1> DEFINE n == Len(line)
<1>1. n \in Nat /\ DOMAIN line = 1 .. n
  BY SequenceIs
<1>2. PICK iter : /\ IsFoldOf(iter, "parse", <<>>, {NewConfig}, line, n)
                  /\ ParseArgs(line) = iter[1 .. n]
  BY <1>1, ParseIsFold
<1>3. Parsed({NewConfig})
  <2>1. NewConfig.groups = <<>>
    BY DEF NewConfig
  <2>2. AreGroups(NewConfig.groups)
    BY <2>1, EmptyIs DEF AreGroups, Distinct
  <2>3. QED
    BY <2>2 DEF Parsed
<1>4. ASSUME NEW a, NEW cfgs, Parsed(cfgs)
      PROVE  Parsed(Step("parse", <<>>, cfgs, a))
  <2>1. Step("parse", <<>>, cfgs, a) = UNION {ParseFlag(c, a) : c \in cfgs}
    BY DEF Step
  <2>2. \A c \in cfgs : DOMAIN c = DOMAIN NewConfig /\ AreGroups(c.groups)
    BY <1>4 DEF Parsed
  <2>3. \A c \in cfgs : /\ \A d, e \in ParseFlag(c, a) : d = e
                        /\ \A d \in ParseFlag(c, a) :
                             DOMAIN d = DOMAIN NewConfig /\ AreGroups(d.groups)
    BY <2>2, ParseFlagKeeps
  <2>4. \A c, d \in cfgs : c = d
    BY <1>4 DEF Parsed
  <2>5. QED
    BY <2>1, <2>3, <2>4 DEF Parsed
<1>5. Good("parse", <<>>, 0, {NewConfig})
  BY <1>3 DEF Good
<1>6. \A i \in 1 .. n : \A x : Good("parse", <<>>, i - 1, x) =>
                                Good("parse", <<>>, i, Step("parse", <<>>, x, line[i]))
  BY <1>4 DEF Good
<1>7. Good("parse", <<>>, n, iter[1 .. n])
  <2> HIDE DEF n
  <2>1. QED
    BY <1>1, <1>2, <1>5, <1>6, FoldKeeps
<1>8. QED
  BY <1>2, <1>7 DEF Good

-----------------------------------------------------------------------------
(* What a file adds.                                                       *)

\* One more entry, taken or passed over (yaml.go mergeYAMLInto).
LEMMA SelectStep ==
  ASSUME NEW loop \in {"fresh", "enabled"}, NEW p, NEW i \in Nat \ {0},
         i \in DOMAIN p.seq, DOMAIN p.seq \subseteq Nat, 1 .. i \subseteq DOMAIN p.seq,
         NEW x, Selected(loop, p, i - 1, x)
  PROVE  Selected(loop, p, i, Step(loop, p, x, p.seq[i]))
<1> DEFINE e == p.seq[i]
           n == Len(x)
           y == Step(loop, p, x, e)
<1>1. IsSequence(x) /\ n \in Nat /\ DOMAIN x = 1 .. n
  BY SequenceIs DEF Selected
<1>2. y = IF Passes(loop, p, e) THEN Append(x, e) ELSE x
  BY DEF Step
<1>3. \A k \in 1 .. i : k \in 1 .. i - 1 \/ k = i
  OBVIOUS
<1>4. 1 .. i - 1 \subseteq 1 .. i /\ i \in 1 .. i
  OBVIOUS
<1>5. CASE ~ Passes(loop, p, e)
  <2>1. y = x
    BY <1>2, <1>5
  <2>2. \A j \in DOMAIN x : \E k \in 1 .. i : x[j] = p.seq[k] /\ Passes(loop, p, p.seq[k])
    BY <1>4 DEF Selected
  <2>3. \A k \in 1 .. i : Passes(loop, p, p.seq[k]) => \E j \in DOMAIN x : x[j] = p.seq[k]
    BY <1>3, <1>5 DEF Selected
  <2> HIDE DEF y
  <2>4. Selected(loop, p, i, y)
    BY <2>1, <2>2, <2>3 DEF Selected
  <2>5. QED
    BY <2>4 DEF y
<1>6. CASE Passes(loop, p, e)
  <2>1. y = Append(x, e)
    BY <1>2, <1>6
  <2>2. /\ IsSequence(y) /\ DOMAIN y = 1 .. n + 1
        /\ \A j \in 1 .. n : y[j] = x[j]
        /\ y[n + 1] = e
    BY <1>1, <2>1, AppendIs
  <2> HIDE DEF y, n
  <2>3. \A j \in DOMAIN y : j \in 1 .. n \/ j = n + 1
    BY <1>1, <2>2
  <2>4. n + 1 \in DOMAIN y /\ 1 .. n \subseteq DOMAIN y
    BY <1>1, <2>2
  <2>5. \A j \in DOMAIN x : \E k \in 1 .. i - 1 : x[j] = p.seq[k] /\ Passes(loop, p, p.seq[k])
    BY DEF Selected
  <2>6. ASSUME NEW j \in DOMAIN y
        PROVE  \E k \in 1 .. i : y[j] = p.seq[k] /\ Passes(loop, p, p.seq[k])
    <3>1. CASE j \in 1 .. n
      BY <1>1, <1>4, <2>2, <2>5, <3>1
    <3>2. CASE j = n + 1
      BY <1>4, <1>6, <2>2, <3>2
    <3>3. QED
      BY <2>3, <3>1, <3>2
  <2>7. ASSUME NEW k \in 1 .. i, Passes(loop, p, p.seq[k])
        PROVE  \E j \in DOMAIN y : y[j] = p.seq[k]
    <3>1. CASE k = i
      BY <2>2, <2>4, <3>1
    <3>2. CASE k \in 1 .. i - 1
      <4>1. PICK j \in DOMAIN x : x[j] = p.seq[k]
        BY <2>7, <3>2 DEF Selected
      <4>2. QED
        BY <1>1, <2>2, <2>4, <4>1
    <3>3. QED
      BY <1>3, <3>1, <3>2
  <2>8. ASSUME ~ Repeats(p.seq), NEW j \in DOMAIN y, NEW l \in DOMAIN y, j # l
        PROVE  IdOf(y[j].id) # IdOf(y[l].id)
    <3>1. \A a, b \in DOMAIN p.seq : a # b => IdOf(p.seq[a].id) # IdOf(p.seq[b].id)
      BY <2>8 DEF Repeats
    <3>2. \A k \in 1 .. i - 1 : k \in DOMAIN p.seq /\ k # i
      OBVIOUS
    <3>3. \A a \in 1 .. n : IdOf(x[a].id) # IdOf(e.id)
      BY <1>1, <2>5, <3>1, <3>2
    <3>4. \A a, b \in 1 .. n : a # b => IdOf(x[a].id) # IdOf(x[b].id)
      BY <1>1, <2>8 DEF Selected
    <3>5. QED
      BY <2>2, <2>3, <2>8, <3>3, <3>4
  <2>9. Selected(loop, p, i, y)
    BY <2>2, <2>6, <2>7, <2>8 DEF Selected
  <2>10. QED
    BY <2>9 DEF y
<1>7. QED
  BY <1>5, <1>6

\* Of no entries none is taken.
LEMMA NothingSelected ==
  ASSUME NEW loop, NEW p
  PROVE  Selected(loop, p, 0, <<>>)
BY EmptyIs DEF Selected

\* The entries of a file that become groups are those that are not disabled, nor on
\* the command line.
LEMMA FreshIs ==
  ASSUME NEW cfg, NEW kind, NEW entries, IsSequence(entries)
  PROVE  Selected("fresh", [cfg |-> cfg, kind |-> kind, seq |-> entries], Len(entries),
                  Fresh(cfg, kind, entries))
<1> DEFINE n == Len(entries)
           p == [cfg |-> cfg, kind |-> kind, seq |-> entries]
           On(x, e) == IF ~ e.disabled /\ Places(cfg.groups, kind, IdOf(e.id)) = {}
                       THEN Append(x, e) ELSE x
           Obeys(f) == f = [s \in SUBSET (1 .. n) |->
                              IF s = {} THEN <<>>
                              ELSE On(f[s \ {Max(s)}], entries[Max(s)])]
           It == CHOOSE f : Obeys(f)
<1>1. n \in Nat /\ DOMAIN entries = 1 .. n
  BY SequenceIs
<1>2. Fresh(cfg, kind, entries) = It[1 .. n]
  BY <1>1 DEF Fresh, Select, FoldLeft, MapThenFoldSet
<1>3. \A x, e : Step("fresh", p, x, e) = On(x, e)
  BY DEF Step, Passes
<1>4. p.seq = entries
  OBVIOUS
<1> HIDE DEF On, p, n
<1>5. \A f : IsFoldOf(f, "fresh", p, <<>>, entries, n) <=> Obeys(f)
  BY <1>3 DEF IsFoldOf
<1>6. \E f : Obeys(f)
  BY <1>1, <1>5, FoldExists
<1> HIDE DEF Obeys
<1>7. Obeys(It)
  BY <1>6
<1>8. IsFoldOf(It, "fresh", p, <<>>, entries, n)
  BY <1>5, <1>7
<1> HIDE DEF It
<1>9. Good("fresh", p, 0, <<>>)
  BY NothingSelected DEF Good
<1>10. ASSUME NEW i \in 1 .. n, NEW x, Good("fresh", p, i - 1, x)
       PROVE  Good("fresh", p, i, Step("fresh", p, x, entries[i]))
  <2>1. /\ i \in Nat \ {0} /\ i \in DOMAIN p.seq /\ DOMAIN p.seq \subseteq Nat
        /\ 1 .. i \subseteq DOMAIN p.seq
    BY <1>1, <1>4
  <2>2. Selected("fresh", p, i - 1, x)
    BY <1>10 DEF Good
  <2>3. Selected("fresh", p, i, Step("fresh", p, x, p.seq[i]))
    BY <2>1, <2>2, SelectStep
  <2>4. QED
    BY <1>4, <2>3 DEF Good
<1>11. Good("fresh", p, n, It[1 .. n])
  BY <1>1, <1>8, <1>9, <1>10, FoldKeeps
<1>12. QED
  BY <1>2, <1>11 DEF Good, p, n

\* The groups of a file, as they are added, are apart from each other and from
\* those of the command line.
LEMMA AsGroupsIs ==
  ASSUME NEW kind, NEW entries, IsSequence(entries)
  PROVE  /\ IsSequence(AsGroups(kind, entries)) /\ Len(AsGroups(kind, entries)) = Len(entries)
         /\ DOMAIN AsGroups(kind, entries) = 1 .. Len(entries)
         /\ \A i \in 1 .. Len(entries) :
              /\ AsGroups(kind, entries)[i].kind = kind
              /\ AsGroups(kind, entries)[i].id = IdOf(entries[i].id)
              /\ {"kind", "id"} \subseteq DOMAIN AsGroups(kind, entries)[i]
<1> DEFINE gs == AsGroups(kind, entries)
           n == Len(entries)
<1>1. n \in Nat /\ DOMAIN entries = 1 .. n
  BY SequenceIs
<1>2. gs = [i \in 1 .. n |-> gs[i]]
  BY <1>1 DEF AsGroups
<1>3. \A i \in 1 .. n : /\ gs[i].kind = kind /\ gs[i].id = IdOf(entries[i].id)
                        /\ {"kind", "id"} \subseteq DOMAIN gs[i]
  BY <1>1 DEF AsGroups
<1> HIDE DEF gs, n
<1>4. IsSequence(gs) /\ Len(gs) = n /\ DOMAIN gs = 1 .. n
  BY <1>1, <1>2, FunctionIs
<1>5. QED
  BY <1>3, <1>4 DEF gs, n

\* Groups of one kind with names of their own, added to others.
LEMMA Added ==
  ASSUME NEW groups, AreGroups(groups), NEW kind, NEW entries, IsSequence(entries),
         \A i, j \in DOMAIN entries : i # j => IdOf(entries[i].id) # IdOf(entries[j].id),
         \A i \in DOMAIN entries : Places(groups, kind, IdOf(entries[i].id)) = {}
  PROVE  AreGroups(groups \o AsGroups(kind, entries))
<1> DEFINE gs == AsGroups(kind, entries)
           more == groups \o gs
           n == Len(groups)
           m == Len(entries)
<1>1. n \in Nat /\ m \in Nat /\ DOMAIN groups = 1 .. n /\ DOMAIN entries = 1 .. m
  BY SequenceIs DEF AreGroups
<1>2. /\ IsSequence(gs) /\ Len(gs) = m
      /\ \A i \in 1 .. m : /\ gs[i].kind = kind /\ gs[i].id = IdOf(entries[i].id)
                           /\ {"kind", "id"} \subseteq DOMAIN gs[i]
  BY AsGroupsIs
<1> HIDE DEF gs
<1>3. /\ IsSequence(more) /\ DOMAIN more = 1 .. n + m
      /\ \A i \in 1 .. n : more[i] = groups[i]
      /\ \A i \in 1 .. m : more[n + i] = gs[i]
  <2>1. IsSequence(groups) /\ IsSequence(gs)
    BY <1>2 DEF AreGroups
  <2>2. /\ IsSequence(more) /\ DOMAIN more = 1 .. n + Len(gs)
        /\ \A i \in 1 .. n : more[i] = groups[i]
        /\ \A i \in 1 .. Len(gs) : more[n + i] = gs[i]
    BY <2>1, ConcatIs
  <2> HIDE DEF more, n, m
  <2>3. QED
    BY <1>2, <2>2
<1> HIDE DEF more, n, m
<1>4. ASSUME NEW i \in DOMAIN more
      PROVE  i \in 1 .. n \/ (\E k \in 1 .. m : i = n + k)
  <2>1. i \in Nat /\ 1 <= i /\ i <= n + m
    BY <1>1, <1>3
  <2>2. CASE i <= n
    BY <1>1, <2>1, <2>2
  <2>3. CASE ~ (i <= n)
    <3>1. i - n \in 1 .. m /\ i = n + (i - n)
      BY <1>1, <2>1, <2>3
    <3>2. QED
      BY <3>1
  <2>4. QED
    BY <2>2, <2>3
<1>5. \A i \in 1 .. n : {"kind", "id"} \subseteq DOMAIN groups[i]
  BY <1>1 DEF AreGroups
<1>6. \A i \in 1 .. n, k \in 1 .. m :
        groups[i].kind # kind \/ groups[i].id # IdOf(entries[k].id)
  BY <1>1 DEF Places
<1>7. \A i \in DOMAIN more : {"kind", "id"} \subseteq DOMAIN more[i]
  BY <1>2, <1>3, <1>4, <1>5
<1>8. ASSUME NEW i \in DOMAIN more, NEW j \in DOMAIN more, i # j
      PROVE  more[i].kind # more[j].kind \/ more[i].id # more[j].id
  <2>1. CASE i \in 1 .. n /\ j \in 1 .. n
    BY <1>1, <1>3, <1>8, <2>1 DEF AreGroups, Distinct
  <2>2. ASSUME NEW k \in 1 .. m, j = n + k, i \in 1 .. n
        PROVE  more[i].kind # more[j].kind \/ more[i].id # more[j].id
    BY <1>2, <1>3, <1>6, <2>2
  <2>3. ASSUME NEW k \in 1 .. m, i = n + k, j \in 1 .. n
        PROVE  more[i].kind # more[j].kind \/ more[i].id # more[j].id
    BY <1>2, <1>3, <1>6, <2>3
  <2>4. ASSUME NEW k \in 1 .. m, NEW l \in 1 .. m, i = n + k, j = n + l
        PROVE  more[i].id # more[j].id
    <3>1. k # l
      BY <1>8, <2>4
    <3>2. IdOf(entries[k].id) # IdOf(entries[l].id)
      BY <1>1, <3>1
    <3>3. more[i] = gs[k] /\ more[j] = gs[l]
      BY <1>3, <2>4
    <3>4. QED
      BY <1>2, <3>2, <3>3
  <2>5. QED
    BY <1>4, <2>1, <2>2, <2>3, <2>4
<1>9. QED
  BY <1>3, <1>7, <1>8 DEF AreGroups, Distinct, more, gs

\* A sequence that begins as another one has it as a prefix.
LEMMA PrefixIs ==
  ASSUME NEW s, IsSequence(s), NEW t, IsSequence(t), Len(s) <= Len(t),
         \A i \in 1 .. Len(s) : t[i] = s[i]
  PROVE  IsPrefix(s, t)
<1>1. Len(s) \in Nat /\ Len(t) \in Nat
  BY SequenceIs
<1>2. SubSeq(s, 1, Len(s)) = [i \in 1 .. Len(s) |-> s[i]]
  BY <1>1
<1>3. SubSeq(t, 1, Len(s)) = [i \in 1 .. Len(s) |-> t[i]]
  BY <1>1
<1>4. QED
  BY <1>2, <1>3 DEF IsPrefix

\* What CliGroupsLead says of the groups of one runtime.
Leads(line, groups) ==
  /\ \A c \in ParseArgs(line) : IsPrefix(c.groups, groups)
  /\ Distinct(groups)

\* Groups that begin with those of the command line, each with a name of its own.
LEMMA GroupsLead ==
  ASSUME NEW line, IsSequence(line), NEW c \in ParseArgs(line),
         NEW groups, AreGroups(groups), Len(c.groups) <= Len(groups),
         \A i \in 1 .. Len(c.groups) : groups[i] = c.groups[i]
  PROVE  Leads(line, groups)
<1>1. /\ \A d \in ParseArgs(line) : d = c
      /\ IsSequence(c.groups)
  BY ParseArgsIs DEF Parsed, AreGroups
<1>2. IsPrefix(c.groups, groups)
  BY <1>1, PrefixIs DEF AreGroups
<1>3. QED
  BY <1>1, <1>2 DEF Leads, AreGroups

\* Whatever a file adds comes after the command line's groups.
LEMMA MergeLeads ==
  ASSUME NEW line, IsSequence(line), NEW c \in ParseArgs(line),
         NEW doc, IsDocument(doc), NEW m \in Merge(c, doc)
  PROVE  Leads(line, m.groups)
<1> DEFINE dirs == Fresh(c, "dir", doc.dirs)
           files == Fresh(c, "file", doc.files)
           more == c.groups \o AsGroups("dir", dirs)
           all == more \o AsGroups("file", files)
<1>1. DOMAIN c = DOMAIN NewConfig /\ AreGroups(c.groups)
  BY ParseArgsIs DEF Parsed
<1>2. "groups" \in DOMAIN c
  BY <1>1 DEF NewConfig
<1>3. ~ Repeats(doc.dirs) /\ ~ Repeats(doc.files) /\ m.groups = all
  BY <1>2 DEF Merge
<1>4. IsSequence(doc.dirs) /\ IsSequence(doc.files)
  BY DEF IsDocument
<1>5. ASSUME NEW kind, NEW entries, IsSequence(entries), ~ Repeats(entries)
      PROVE  LET fresh == Fresh(c, kind, entries)
             IN  /\ IsSequence(fresh)
                 /\ \A i, j \in DOMAIN fresh : i # j => IdOf(fresh[i].id) # IdOf(fresh[j].id)
                 /\ \A i \in DOMAIN fresh : Places(c.groups, kind, IdOf(fresh[i].id)) = {}
  <2> DEFINE fresh == Fresh(c, kind, entries)
             p == [cfg |-> c, kind |-> kind, seq |-> entries]
  <2>1. Selected("fresh", p, Len(entries), fresh)
    BY <1>5, FreshIs
  <2> HIDE DEF fresh
  <2>2. p.cfg = c /\ p.kind = kind /\ p.seq = entries
    OBVIOUS
  <2> HIDE DEF p
  <2>3. IsSequence(fresh)
    BY <2>1 DEF Selected
  <2>4. \A i, j \in DOMAIN fresh : i # j => IdOf(fresh[i].id) # IdOf(fresh[j].id)
    BY <1>5, <2>1, <2>2 DEF Selected
  <2>5. \A i \in DOMAIN fresh : Places(c.groups, kind, IdOf(fresh[i].id)) = {}
    BY <2>1, <2>2 DEF Selected, Passes
  <2>6. QED
    BY <2>3, <2>4, <2>5 DEF fresh
<1>6. /\ IsSequence(dirs)
      /\ \A i, j \in DOMAIN dirs : i # j => IdOf(dirs[i].id) # IdOf(dirs[j].id)
      /\ \A i \in DOMAIN dirs : Places(c.groups, "dir", IdOf(dirs[i].id)) = {}
  BY <1>3, <1>4, <1>5
<1>7. /\ IsSequence(files)
      /\ \A i, j \in DOMAIN files : i # j => IdOf(files[i].id) # IdOf(files[j].id)
      /\ \A i \in DOMAIN files : Places(c.groups, "file", IdOf(files[i].id)) = {}
  BY <1>3, <1>4, <1>5
<1> HIDE DEF dirs, files
<1>8. AreGroups(more)
  BY <1>1, <1>6, Added
<1>9. /\ IsSequence(c.groups) /\ IsSequence(AsGroups("dir", dirs))
      /\ IsSequence(AsGroups("file", files))
  BY <1>1, <1>6, <1>7, AsGroupsIs DEF AreGroups
<1> DEFINE n == Len(c.groups)
           k == Len(AsGroups("dir", dirs))
           l == Len(AsGroups("file", files))
<1>10. n \in Nat /\ k \in Nat /\ l \in Nat
  BY <1>9, SequenceIs
<1>11. /\ IsSequence(more) /\ Len(more) = n + k /\ DOMAIN more = 1 .. n + k
       /\ \A i \in 1 .. n : more[i] = c.groups[i]
       /\ \A i \in 1 .. k : more[n + i] = AsGroups("dir", dirs)[i]
  BY <1>9, ConcatIs
<1>12. \A i \in 1 .. k : more[n + i].kind = "dir"
  BY <1>6, <1>11, AsGroupsIs
<1> HIDE DEF more
<1>13. ASSUME NEW i \in DOMAIN files
       PROVE  Places(more, "file", IdOf(files[i].id)) = {}
  <2>1. \A j \in 1 .. n : c.groups[j].kind # "file" \/ c.groups[j].id # IdOf(files[i].id)
    BY <1>7, <1>9, SequenceIs DEF Places
  <2>2. ASSUME NEW j \in DOMAIN more
        PROVE  more[j].kind # "file" \/ more[j].id # IdOf(files[i].id)
    <3>1. j \in 1 .. n \/ (j - n \in 1 .. k /\ j = n + (j - n))
      BY <1>10, <1>11
    <3>2. QED
      BY <1>11, <1>12, <2>1, <3>1
  <2>3. QED
    BY <2>2 DEF Places
<1>14. AreGroups(all)
  BY <1>7, <1>8, <1>13, Added
<1>15. /\ Len(all) = (n + k) + l
       /\ \A i \in 1 .. n + k : all[i] = more[i]
  <2> DEFINE added == AsGroups("file", files)
  <2>1. IsSequence(more) /\ IsSequence(added)
    BY <1>9, <1>11
  <2> HIDE DEF added, n, k
  <2>2. /\ Len(more \o added) = Len(more) + Len(added)
        /\ \A i \in 1 .. Len(more) : (more \o added)[i] = more[i]
    BY <2>1, ConcatIs
  <2>3. QED
    BY <1>11, <2>2 DEF added
<1> HIDE DEF all
<1>16. n <= Len(all) /\ \A i \in 1 .. n : all[i] = c.groups[i]
  BY <1>10, <1>11, <1>15
<1>17. QED
  BY <1>3, <1>14, <1>16, GroupsLead

\* Whatever is loaded has the groups of the command line first (config.Load).
LEMMA LoadLeads ==
  ASSUME NEW line, IsSequence(line), NEW p, NEW content,
         p # None => content \in {Absent, Broken} \/ IsDocument(content),
         NEW c \in LoadFrom(line, p, content)
  PROVE  Leads(line, c.groups)
<1>1. PICK d \in ParseArgs(line) :
        c \in IF p = None THEN {d}
              ELSE IF content \in {Absent, Broken} THEN {} ELSE Merge(d, content)
  BY DEF LoadFrom
<1>2. CASE p = None
  <2>1. c = d
    BY <1>1, <1>2
  <2>2. AreGroups(d.groups)
    BY ParseArgsIs DEF Parsed
  <2>3. Len(d.groups) \in Nat
    BY <2>2, SequenceIs DEF AreGroups
  <2>4. QED
    BY <2>1, <2>2, <2>3, GroupsLead
<1>3. CASE p # None
  BY <1>1, <1>3, MergeLeads
<1>4. QED
  BY <1>2, <1>3

-----------------------------------------------------------------------------
(* The catalog.                                                            *)

\* What the proofs need of a catalog is what is assumed of Templates.
IsCatalog(cat) ==
  /\ \A app \in DOMAIN cat.apps :
       /\ IsSequence(cat.apps[app].use)
       /\ IsSequence(cat.apps[app].sources)
       /\ IsSequence(cat.apps[app].renderers)
  /\ \A b \in DOMAIN cat.bundles : IsSequence(cat.bundles[b])
  /\ \A f \in DOMAIN cat.fragments : IsSequence(cat.fragments[f])

\* A name stands for a bundle or an app that there is.
LEMMA NamesAreKnown ==
  ASSUME NEW cat, NEW name, NEW r \in ResolveName(cat, name)
  PROVE  IF r.bundle THEN r.name \in DOMAIN cat.bundles ELSE r.name \in DOMAIN cat.apps
BY DEF ResolveName

\* A name is added to names of the same kind.
LEMMA AddNameKeeps ==
  ASSUME NEW S, NEW out \in Seq(S), NEW n \in S
  PROVE  AddName(out, n) \in Seq(S)
BY AppendProperties DEF AddName

\* A member of a bundle adds apps of the catalog only.
LEMMA MemberKeeps ==
  ASSUME NEW cat, NEW n, NEW outs, AppsOf(cat, outs)
  PROVE  AppsOf(cat, UNION {Member(cat, o, n) : o \in outs})
<1>1. ASSUME NEW o \in outs, NEW r \in ResolveName(cat, n), ~ r.bundle
      PROVE  AddName(o, r.name) \in Seq(DOMAIN cat.apps)
  <2>1. r.name \in DOMAIN cat.apps
    BY <1>1, NamesAreKnown
  <2>2. o \in Seq(DOMAIN cat.apps)
    BY DEF AppsOf
  <2>3. QED
    BY <2>1, <2>2, AddNameKeeps
<1>2. QED
  BY <1>1 DEF AppsOf, Member

\* A bundle that is opened adds apps of the catalog only.
LEMMA OpenedIs ==
  ASSUME NEW cat, IsCatalog(cat), NEW out \in Seq(DOMAIN cat.apps),
         NEW name, NEW r \in ResolveName(cat, name)
  PROVE  AppsOf(cat, Opened(cat, out, r))
<1>1. CASE ~ r.bundle
  BY <1>1, NamesAreKnown, AddNameKeeps DEF Opened, AppsOf
<1>2. CASE r.bundle
  <2> DEFINE seq == cat.bundles[r.name]
             n == Len(seq)
             base == {out}
             On(x, y) == UNION {Member(cat, o, y) : o \in x}
             Obeys(f) == f = [s \in SUBSET (1 .. n) |->
                                IF s = {} THEN base ELSE On(f[s \ {Max(s)}], seq[Max(s)])]
             It == CHOOSE f : Obeys(f)
  <2>1. IsSequence(seq)
    BY <1>2, NamesAreKnown DEF IsCatalog
  <2>2. n \in Nat /\ DOMAIN seq = 1 .. n
    BY <2>1, SequenceIs
  <2>3. Opened(cat, out, r) = It[1 .. n]
    BY <1>2, <2>2 DEF Opened, FoldLeft, MapThenFoldSet
  <2>4. \A x, y : Step("member", cat, x, y) = On(x, y)
    BY DEF Step
  <2>5. \A x, y : AppsOf(cat, x) => AppsOf(cat, On(x, y))
    BY MemberKeeps
  <2> HIDE DEF On, seq, n, base
  <2>6. \A f : IsFoldOf(f, "member", cat, base, seq, n) <=> Obeys(f)
    BY <2>4 DEF IsFoldOf
  <2>7. \E f : Obeys(f)
    BY <2>2, <2>6, FoldExists
  <2> HIDE DEF Obeys
  <2>8. IsFoldOf(It, "member", cat, base, seq, n)
    BY <2>6, <2>7
  <2> HIDE DEF It
  <2>9. Good("member", cat, 0, base)
    BY DEF Good, AppsOf, base
  <2>10. \A i \in 1 .. n : \A x : Good("member", cat, i - 1, x) =>
                                 Good("member", cat, i, Step("member", cat, x, seq[i]))
    BY <2>4, <2>5 DEF Good
  <2>11. Good("member", cat, n, It[1 .. n])
    BY <2>2, <2>8, <2>9, <2>10, FoldKeeps
  <2>12. QED
    BY <2>3, <2>11 DEF Good
<1>3. QED
  BY <1>1, <1>2

\* What names stand for are apps of the catalog.
LEMMA ExpandNamesIs ==
  ASSUME NEW cat, IsCatalog(cat), NEW names, IsSequence(names)
  PROVE  AppsOf(cat, ExpandNames(cat, names))
<1> DEFINE n == Len(names)
           On(x, y) == UNION {Expanded(cat, o, y) : o \in x}
           Obeys(f) == f = [s \in SUBSET (1 .. n) |->
                              IF s = {} THEN {<<>>} ELSE On(f[s \ {Max(s)}], names[Max(s)])]
           It == CHOOSE f : Obeys(f)
<1>1. n \in Nat /\ DOMAIN names = 1 .. n
  BY SequenceIs
<1>2. ExpandNames(cat, names) = It[1 .. n]
  BY <1>1 DEF ExpandNames, Expanded, Opened, Member, AddName, FoldLeft, MapThenFoldSet
<1>3. \A x, y : Step("names", cat, x, y) = On(x, y)
  BY DEF Step
<1>4. ASSUME NEW x, NEW y, AppsOf(cat, x)
      PROVE  AppsOf(cat, On(x, y))
  <2>1. \A o \in x : o \in Seq(DOMAIN cat.apps)
    BY <1>4 DEF AppsOf
  <2>2. \A o \in x : \A r \in ResolveName(cat, y) : AppsOf(cat, Opened(cat, o, r))
    BY <2>1, OpenedIs
  <2>3. QED
    BY <2>2 DEF AppsOf, Expanded
<1> HIDE DEF On, n
<1>5. \A f : IsFoldOf(f, "names", cat, {<<>>}, names, n) <=> Obeys(f)
  BY <1>3 DEF IsFoldOf
<1>6. \E f : Obeys(f)
  BY <1>1, <1>5, FoldExists
<1> HIDE DEF Obeys
<1>7. IsFoldOf(It, "names", cat, {<<>>}, names, n)
  BY <1>5, <1>6
<1> HIDE DEF It
<1>8. Good("names", cat, 0, {<<>>})
  BY EmptySeq DEF Good, AppsOf
<1>9. \A i \in 1 .. n : \A x : Good("names", cat, i - 1, x) =>
                              Good("names", cat, i, Step("names", cat, x, names[i]))
  BY <1>3, <1>4 DEF Good
<1>10. Good("names", cat, n, It[1 .. n])
  BY <1>1, <1>7, <1>8, <1>9, FoldKeeps
<1>11. QED
  BY <1>2, <1>10 DEF Good

\* The fragments and renderers that an app names are there.
KnownApp(cat, app) ==
  /\ \A u \in ToSet(cat.apps[app].use) : Has(cat.fragments, u.frag)
  /\ ToSet(cat.apps[app].renderers) \subseteq DOMAIN cat.renderers

\* Sources of the catalog in use by one of its apps.
LEMMA AsUsedIs ==
  ASSUME NEW cat, NEW app \in DOMAIN cat.apps, NEW sources, IsSequence(sources),
         ToSet(sources) \subseteq SourcesOf(cat),
         NEW product,
         product = "" \/ (\E a \in DOMAIN cat.apps : \E u \in ToSet(cat.apps[a].use) :
                            product = u.product)
  PROVE  AsUsed(app, product, sources) \in Seq(UsesIn(cat))
<1> DEFINE n == Len(sources)
           us == AsUsed(app, product, sources)
<1>1. n \in Nat /\ DOMAIN sources = 1 .. n
  BY SequenceIs
<1>2. \A i \in 1 .. n : sources[i] \in SourcesOf(cat)
  BY <1>1 DEF ToSet
<1>3. us \in [1 .. n -> UsesIn(cat)]
  BY <1>1, <1>2 DEF AsUsed, UsesIn
<1>4. QED
  BY <1>1, <1>3, SeqDef

\* What an app uses is in the catalog.
LEMMA UsesOfIs ==
  ASSUME NEW cat, IsCatalog(cat), NEW app \in DOMAIN cat.apps, KnownApp(cat, app)
  PROVE  UsesOf(cat, app) \in Seq(UsesIn(cat))
<1> DEFINE seq == cat.apps[app].use
           p == [cat |-> cat, app |-> app]
           n == Len(seq)
           own == AsUsed(app, "", cat.apps[app].sources)
           On(x, u) == x \o AsUsed(app, u.product, cat.fragments[u.frag])
           Obeys(f) == f = [s \in SUBSET (1 .. n) |->
                              IF s = {} THEN <<>> ELSE On(f[s \ {Max(s)}], seq[Max(s)])]
           It == CHOOSE f : Obeys(f)
<1>1. IsSequence(seq) /\ n \in Nat /\ DOMAIN seq = 1 .. n
  BY SequenceIs DEF IsCatalog
<1>2. UsesOf(cat, app) = It[1 .. n] \o own
  BY <1>1 DEF UsesOf, AsUsed, FoldLeft, MapThenFoldSet
<1>3. own \in Seq(UsesIn(cat))
  <2>1. IsSequence(cat.apps[app].sources)
    BY DEF IsCatalog
  <2>2. ToSet(cat.apps[app].sources) \subseteq SourcesOf(cat)
    BY DEF SourcesOf
  <2>3. QED
    BY <2>1, <2>2, AsUsedIs
<1>4. \A x, y : Step("use", p, x, y) = On(x, y)
  BY DEF Step
<1>5. ASSUME NEW x \in Seq(UsesIn(cat)), NEW i \in 1 .. n
      PROVE  On(x, seq[i]) \in Seq(UsesIn(cat))
  <2> DEFINE u == seq[i]
  <2>1. u \in ToSet(seq)
    BY <1>1 DEF ToSet
  <2>2. u.frag \in DOMAIN cat.fragments
    BY <2>1 DEF KnownApp, Has
  <2>3. IsSequence(cat.fragments[u.frag])
    BY <2>2 DEF IsCatalog
  <2>4. ToSet(cat.fragments[u.frag]) \subseteq SourcesOf(cat)
    BY <2>2 DEF SourcesOf
  <2>5. \E a \in DOMAIN cat.apps : \E v \in ToSet(cat.apps[a].use) : u.product = v.product
    BY <2>1
  <2> HIDE DEF u
  <2>6. AsUsed(app, u.product, cat.fragments[u.frag]) \in Seq(UsesIn(cat))
    BY <2>3, <2>4, <2>5, AsUsedIs
  <2>7. QED
    BY <2>6, ConcatProperties DEF u
<1>6. p.cat = cat
  OBVIOUS
<1> HIDE DEF On, n, seq, p, own
<1>7. \A f : IsFoldOf(f, "use", p, <<>>, seq, n) <=> Obeys(f)
  BY <1>4 DEF IsFoldOf
<1>8. \E f : Obeys(f)
  BY <1>1, <1>7, FoldExists
<1> HIDE DEF Obeys
<1>9. IsFoldOf(It, "use", p, <<>>, seq, n)
  BY <1>7, <1>8
<1> HIDE DEF It
<1>10. Good("use", p, 0, <<>>)
  BY EmptySeq DEF Good
<1>11. \A i \in 1 .. n : \A x : Good("use", p, i - 1, x) =>
                               Good("use", p, i, Step("use", p, x, seq[i]))
  BY <1>4, <1>5, <1>6 DEF Good
<1>12. Good("use", p, n, It[1 .. n])
  BY <1>1, <1>9, <1>10, <1>11, FoldKeeps
<1>13. It[1 .. n] \in Seq(UsesIn(cat))
  BY <1>6, <1>12 DEF Good
<1>14. QED
  BY <1>2, <1>3, <1>13, ConcatProperties

\* What all of the apps use.
AllUses(cat, apps) == FoldLeft(LAMBDA us, a : us \o UsesOf(cat, a), <<>>, apps)

\* What the apps asked for use is in the catalog.
LEMMA AllUsesIs ==
  ASSUME NEW cat, IsCatalog(cat), NEW apps \in Seq(DOMAIN cat.apps),
         \A i \in DOMAIN apps : KnownApp(cat, apps[i])
  PROVE  AllUses(cat, apps) \in Seq(UsesIn(cat))
<1> DEFINE n == Len(apps)
           On(x, a) == x \o UsesOf(cat, a)
           Obeys(f) == f = [s \in SUBSET (1 .. n) |->
                              IF s = {} THEN <<>> ELSE On(f[s \ {Max(s)}], apps[Max(s)])]
           It == CHOOSE f : Obeys(f)
<1>1. n \in Nat /\ DOMAIN apps = 1 .. n /\ \A i \in 1 .. n : apps[i] \in DOMAIN cat.apps
  BY LenProperties
<1>2. AllUses(cat, apps) = It[1 .. n]
  BY <1>1 DEF AllUses, FoldLeft, MapThenFoldSet
<1>3. \A x, y : Step("uses", cat, x, y) = On(x, y)
  BY DEF Step
<1>4. ASSUME NEW x \in Seq(UsesIn(cat)), NEW i \in 1 .. n
      PROVE  On(x, apps[i]) \in Seq(UsesIn(cat))
  BY <1>1, UsesOfIs, ConcatProperties
<1> HIDE DEF On, n
<1>5. \A f : IsFoldOf(f, "uses", cat, <<>>, apps, n) <=> Obeys(f)
  BY <1>3 DEF IsFoldOf
<1>6. \E f : Obeys(f)
  BY <1>1, <1>5, FoldExists
<1> HIDE DEF Obeys
<1>7. IsFoldOf(It, "uses", cat, <<>>, apps, n)
  BY <1>5, <1>6
<1> HIDE DEF It
<1>8. Good("uses", cat, 0, <<>>)
  BY EmptySeq DEF Good
<1>9. \A i \in 1 .. n : \A x : Good("uses", cat, i - 1, x) =>
                              Good("uses", cat, i, Step("uses", cat, x, apps[i]))
  BY <1>3, <1>4 DEF Good
<1>10. Good("uses", cat, n, It[1 .. n])
  BY <1>1, <1>7, <1>8, <1>9, FoldKeeps
<1>11. QED
  BY <1>2, <1>10 DEF Good

\* The renderers of an app are added to those of others, each once.
LEMMA RulesOfIs ==
  ASSUME NEW cat, IsCatalog(cat), NEW app \in DOMAIN cat.apps, KnownApp(cat, app),
         NEW rules \in Seq(DOMAIN cat.renderers)
  PROVE  FoldLeft(AddName, rules, cat.apps[app].renderers) \in Seq(DOMAIN cat.renderers)
<1> DEFINE seq == cat.apps[app].renderers
           n == Len(seq)
           Obeys(f) == f = [s \in SUBSET (1 .. n) |->
                              IF s = {} THEN rules ELSE AddName(f[s \ {Max(s)}], seq[Max(s)])]
           It == CHOOSE f : Obeys(f)
<1>1. IsSequence(seq) /\ n \in Nat /\ DOMAIN seq = 1 .. n
  BY SequenceIs DEF IsCatalog
<1>2. FoldLeft(AddName, rules, seq) = It[1 .. n]
  BY <1>1 DEF FoldLeft, MapThenFoldSet
<1>3. \A x, y : Step("rule", cat, x, y) = AddName(x, y)
  BY DEF Step
<1>4. \A i \in 1 .. n : seq[i] \in DOMAIN cat.renderers
  BY <1>1 DEF KnownApp, ToSet
<1> HIDE DEF n, seq
<1>5. \A f : IsFoldOf(f, "rule", cat, rules, seq, n) <=> Obeys(f)
  BY <1>3 DEF IsFoldOf
<1>6. \E f : Obeys(f)
  BY <1>1, <1>5, FoldExists
<1> HIDE DEF Obeys
<1>7. IsFoldOf(It, "rule", cat, rules, seq, n)
  BY <1>5, <1>6
<1> HIDE DEF It
<1>8. Good("rule", cat, 0, rules)
  BY DEF Good
<1>9. \A i \in 1 .. n : \A x : Good("rule", cat, i - 1, x) =>
                              Good("rule", cat, i, Step("rule", cat, x, seq[i]))
  BY <1>3, <1>4, AddNameKeeps DEF Good
<1>10. Good("rule", cat, n, It[1 .. n])
  BY <1>1, <1>7, <1>8, <1>9, FoldKeeps
<1>11. QED
  BY <1>2, <1>10 DEF Good, seq

\* The renderers of all of the apps.
Wanted(cat, apps) ==
  FoldLeft(LAMBDA rs, a : FoldLeft(AddName, rs, cat.apps[a].renderers), <<>>, apps)

\* The renderers that the apps asked for name are in the catalog.
LEMMA WantedIs ==
  ASSUME NEW cat, IsCatalog(cat), NEW apps \in Seq(DOMAIN cat.apps),
         \A i \in DOMAIN apps : KnownApp(cat, apps[i])
  PROVE  Wanted(cat, apps) \in Seq(DOMAIN cat.renderers)
<1> DEFINE n == Len(apps)
           On(x, a) == FoldLeft(AddName, x, cat.apps[a].renderers)
           Obeys(f) == f = [s \in SUBSET (1 .. n) |->
                              IF s = {} THEN <<>> ELSE On(f[s \ {Max(s)}], apps[Max(s)])]
           It == CHOOSE f : Obeys(f)
<1>1. n \in Nat /\ DOMAIN apps = 1 .. n /\ \A i \in 1 .. n : apps[i] \in DOMAIN cat.apps
  BY LenProperties
<1>2. Wanted(cat, apps) = It[1 .. n]
  BY <1>1 DEF Wanted, FoldLeft, MapThenFoldSet
<1>3. \A x, y : Step("rules", cat, x, y) = On(x, y)
  BY DEF Step
<1>4. ASSUME NEW x \in Seq(DOMAIN cat.renderers), NEW i \in 1 .. n
      PROVE  On(x, apps[i]) \in Seq(DOMAIN cat.renderers)
  BY <1>1, RulesOfIs
<1> HIDE DEF On, n
<1>5. \A f : IsFoldOf(f, "rules", cat, <<>>, apps, n) <=> Obeys(f)
  BY <1>3 DEF IsFoldOf
<1>6. \E f : Obeys(f)
  BY <1>1, <1>5, FoldExists
<1> HIDE DEF Obeys
<1>7. IsFoldOf(It, "rules", cat, <<>>, apps, n)
  BY <1>5, <1>6
<1> HIDE DEF It
<1>8. Good("rules", cat, 0, <<>>)
  BY EmptySeq DEF Good
<1>9. \A i \in 1 .. n : \A x : Good("rules", cat, i - 1, x) =>
                              Good("rules", cat, i, Step("rules", cat, x, apps[i]))
  BY <1>3, <1>4 DEF Good
<1>10. Good("rules", cat, n, It[1 .. n])
  BY <1>1, <1>7, <1>8, <1>9, FoldKeeps
<1>11. QED
  BY <1>2, <1>10 DEF Good

-----------------------------------------------------------------------------
(* Identifiers.                                                            *)

\* An identifier that is written, and is not the one of what is not.
IsId(id) == IsSequence(id) /\ id # <<>> /\ id # Default

\* A sequence of several words is an identifier, and not the default one.
LEMMA LongIsId ==
  ASSUME NEW id, IsSequence(id), Len(id) > 1
  PROVE  IsId(id)
<1>1. Len(<<>>) = 0
  BY EmptyIs
<1>2. Len(<<"default">>) = 1
  OBVIOUS
<1>3. Len(Default) = 1
  BY <1>2 DEF Default
<1>4. Len(id) \in Nat
  BY SequenceIs
<1>5. id # <<>>
  BY <1>1, <1>4, SMT
<1>6. id # Default
  BY <1>3, <1>4, SMT
<1>7. QED
  BY <1>5, <1>6 DEF IsId

\* An identifier has a word at least.
LEMMA IdIs ==
  ASSUME NEW id, IsId(id)
  PROVE  IsSequence(id) /\ Len(id) \in Nat \ {0}
<1>1. IsSequence(id) /\ id # <<>>
  BY DEF IsId
<1>2. id \in Seq(ToSet(id))
  BY <1>1 DEF IsSequence
<1>3. QED
  BY <1>1, <1>2, EmptySeq

\* An identifier is an app's name and perhaps more words.
LEMMA BaseIs ==
  ASSUME NEW app, IsId(app), NEW product, IsSequence(product),
         NEW source, IsSequence(source)
  PROVE  IsId(BaseID(app, product, source))
<1> DEFINE named == IF product = <<>> \/ Fold(product) = Fold(app) THEN <<>> ELSE Fold(product)
           from == IF source \in {<<>>, <<"main">>} THEN <<>> ELSE source
           two == app \o named
           id == two \o from
<1>1. BaseID(app, product, source) = id
  BY DEF BaseID
<1>2. IsSequence(app) /\ Len(app) \in Nat /\ DOMAIN app = 1 .. Len(app)
  BY SequenceIs DEF IsId
<1>3. IsSequence(Fold(product))
  <2> DEFINE n == Len(product)
             low == [i \in 1 .. n |-> Lower[product[i]]]
  <2>1. n \in Nat /\ DOMAIN product = 1 .. n
    BY SequenceIs
  <2>2. Fold(product) = low
    BY <2>1 DEF Fold
  <2>3. low = [i \in 1 .. n |-> low[i]]
    OBVIOUS
  <2> HIDE DEF low, n
  <2>4. QED
    BY <2>1, <2>2, <2>3, FunctionIs
<1>4. IsSequence(named) /\ IsSequence(from)
  BY <1>3, EmptyIs
<1> HIDE DEF named, from
<1>5. /\ IsSequence(two) /\ Len(two) = Len(app) + Len(named)
      /\ \A i \in 1 .. Len(app) : two[i] = app[i]
  BY <1>2, <1>4, ConcatIs
<1> HIDE DEF two
<1>6. /\ IsSequence(id) /\ Len(id) = Len(two) + Len(from)
      /\ \A i \in 1 .. Len(two) : id[i] = two[i]
  BY <1>4, <1>5, ConcatIs
<1>7. Len(named) \in Nat /\ Len(from) \in Nat /\ Len(two) \in Nat
  BY <1>4, <1>5, SequenceIs
<1> HIDE DEF id
<1>8. Len(app) # 0
  BY IdIs
<1>9. CASE Len(id) > 1
  BY <1>1, <1>6, <1>9, LongIsId
<1>10. CASE ~ (Len(id) > 1)
  <2>1. Len(id) = 1 /\ Len(app) = 1 /\ Len(two) = 1
    BY <1>2, <1>5, <1>6, <1>7, <1>8, <1>10
  <2>2. id[1] = app[1]
    BY <1>5, <1>6, <2>1
  <2>3. id = app
    BY <1>2, <1>6, <2>1, <2>2, SequenceIs, SeqEqual
  <2>4. QED
    BY <1>1, <2>3
<1>11. QED
  BY <1>9, <1>10

\* The n-th identifier that GroupID tries.
Nth(id, n) == IF n = 1 THEN id ELSE Append(id, ToString(n))

\* An identifier with a number after it is one.
LEMMA NthIs ==
  ASSUME NEW id, IsId(id), NEW n
  PROVE  IsId(Nth(id, n))
<1>1. CASE n = 1
  BY <1>1 DEF Nth
<1>2. CASE n # 1
  <2>1. Len(id) \in Nat /\ Len(id) # 0
    BY IdIs
  <2>2. /\ IsSequence(Append(id, ToString(n)))
        /\ Len(Append(id, ToString(n))) = Len(id) + 1
    BY AppendIs DEF IsId
  <2>3. Len(Append(id, ToString(n))) > 1
    BY <2>1, <2>2
  <2>4. IsId(Append(id, ToString(n)))
    BY <2>2, <2>3, LongIsId
  <2>5. QED
    BY <1>2, <2>4 DEF Nth
<1>3. QED
  BY <1>1, <1>2

\* Another number makes another identifier.
LEMMA NthDiffer ==
  ASSUME NumeralsDiffer, NEW id, IsId(id), NEW m \in Nat, NEW n \in Nat, m # n
  PROVE  Nth(id, m) # Nth(id, n)
<1>1. Len(id) \in Nat
  BY SequenceIs DEF IsId
<1>2. \A w : Len(Append(id, w)) = Len(id) + 1 /\ Append(id, w)[Len(id) + 1] = w
  BY AppendIs DEF IsId
<1>3. CASE m = 1
  BY <1>1, <1>2, <1>3 DEF Nth
<1>4. CASE n = 1
  BY <1>1, <1>2, <1>4 DEF Nth
<1>5. CASE m # 1 /\ n # 1
  <2>1. ToString(m) # ToString(n)
    BY DEF NumeralsDiffer
  <2>2. QED
    BY <1>2, <1>5, <2>1 DEF Nth
<1>6. QED
  BY <1>3, <1>4, <1>5

\* Of one more identifier than there are, one is free.
LEMMA OneIsFree ==
  ASSUME NumeralsDiffer, NEW id, IsId(id), NEW seen, IsFiniteSet(seen)
  PROVE  \E n \in 1 .. Cardinality(seen) + 1 :
           Nth(id, n) \notin seen /\ \A k \in 1 .. n - 1 : ~ (Nth(id, k) \notin seen)
<1> DEFINE c == Cardinality(seen)
           S == 1 .. c + 1
           T == {n \in S : Nth(id, n) \notin seen}
           f == [n \in S |-> Nth(id, n)]
<1>1. c \in Nat
  BY FS_CardinalityType
<1>2. IsFiniteSet(S) /\ Cardinality(S) = c + 1
  BY <1>1, FS_Interval
<1>3. T # {}
  <2> SUFFICES ASSUME T = {} PROVE FALSE
    OBVIOUS
  <2>1. f \in [S -> seen]
    OBVIOUS
  <2>2. Cardinality(seen) < Cardinality(S)
    BY <1>1, <1>2
  <2>3. S \subseteq Nat
    OBVIOUS
  <2> HIDE DEF S, f, T
  <2>4. PICK m, n \in S : m # n /\ f[m] = f[n]
    BY <1>2, <2>1, <2>2, FS_PigeonHole
  <2>5. Nth(id, m) = Nth(id, n)
    BY <2>4 DEF f
  <2>6. QED
    BY <2>3, <2>4, <2>5, NthDiffer
<1>4. T \in SUBSET Nat /\ T \subseteq S
  OBVIOUS
<1>5. \A k : k \in S /\ k \notin T => ~ (Nth(id, k) \notin seen)
  OBVIOUS
<1>6. \A n \in T : Nth(id, n) \notin seen
  OBVIOUS
<1> HIDE DEF T
<1>7. PICK n \in T : \A k \in T : n <= k
  BY <1>3, <1>4, LeastElement
<1>8. ASSUME NEW k \in 1 .. n - 1
      PROVE  k \in S /\ k \notin T
  BY <1>1, <1>4, <1>7
<1>9. QED
  BY <1>4, <1>5, <1>6, <1>7, <1>8

\* An identifier is no other's.
LEMMA GroupIDIs ==
  ASSUME NEW app, IsId(app), NEW product, IsSequence(product),
         NEW source, IsSequence(source), NEW seen, IsFiniteSet(seen)
  PROVE  /\ IsId(GroupID(app, product, source, seen))
         /\ NumeralsDiffer => GroupID(app, product, source, seen) \notin seen
<1> DEFINE id == BaseID(app, product, source)
           Free(n) == Nth(id, n) \notin seen
           P(n) == Free(n) /\ \A k \in 1 .. n - 1 : ~ Free(k)
           N == 1 .. Cardinality(seen) + 1
           n0 == CHOOSE n \in N : P(n)
<1>1. GroupID(app, product, source, seen) = Nth(id, n0)
  BY DEF GroupID, Nth
<1>2. IsId(id)
  BY BaseIs
<1>3. NumeralsDiffer => \E n \in N : P(n)
  <2> HIDE DEF id
  <2>1. QED
    BY <1>2, OneIsFree
<1> HIDE DEF id, P, N
<1>4. NumeralsDiffer => P(n0)
  BY <1>3
<1>5. NumeralsDiffer => Nth(id, n0) \notin seen
  BY <1>4 DEF P
<1>6. QED
  BY <1>1, <1>2, <1>5, NthIs

\* No filter is not a bad one.
LEMMA NoBadFilter == ~ BadFilter({})
BY DEF BadFilter

\* One more source, with an identifier of its own.
LEMMA EmitKeeps ==
  ASSUME NEW made, Made(made), NEW s \in UsesIn(Templates)
  PROVE  Made(EmitSource(made, s))
<1> DEFINE paths == Picked(s.source, s.product)
           product == IF s.product = "" THEN <<>> ELSE <<s.product>>
           id == GroupID(s.app, product, s.source.id, made.seen)
           entry == [id |-> id, paths |-> paths, recursive |-> FALSE,
                     filter |-> IF s.source.file THEN {} ELSE s.source.filter,
                     disabled |-> FALSE, off |-> FALSE]
           kind == IF s.source.file THEN "files" ELSE "dirs"
           other == IF s.source.file THEN "dirs" ELSE "files"
           doc == [made.doc EXCEPT ![kind] = Append(made.doc[kind], entry)]
           more == [seen |-> made.seen \union {id}, doc |-> doc]
<1>1. EmitSource(made, s) = IF paths = <<>> THEN made ELSE more
  BY DEF EmitSource
<1>2. s.app \in DOMAIN Templates.apps /\ s.source \in SourcesOf(Templates)
  BY DEF UsesIn
<1>3. IsId(s.app) /\ IsSequence(s.source.id) /\ ~ BadFilter(s.source.filter)
  BY <1>2, TemplatesLoad DEF IsId
<1>4. IsSequence(product)
  <2>1. \A w : <<w>> \in Seq({w})
    OBVIOUS
  <2>2. \A w : IsSequence(<<w>>)
    BY <2>1, InSeqIsSequence
  <2>3. QED
    BY <2>2, EmptyIs
<1>5. IsFiniteSet(made.seen)
  BY DEF Made
<1> HIDE DEF paths, product
<1>6. IsId(id) /\ (NumeralsDiffer => id \notin made.seen)
  BY <1>3, <1>4, <1>5, GroupIDIs
<1> HIDE DEF id
<1>7. CASE paths = <<>>
  BY <1>1, <1>7
<1>8. CASE paths # <<>>
  <2>1. EmitSource(made, s) = more
    BY <1>1, <1>8
  <2>2. entry.id = id /\ MadeEntry(entry)
    BY <1>3, <1>6, <1>8, NoBadFilter DEF MadeEntry, IsId
  <2> HIDE DEF entry
  <2>3. made.doc = [EmptyDocument EXCEPT !.dirs = made.doc.dirs, !.files = made.doc.files]
    BY DEF Made
  <2>4. /\ {kind, other} = {"dirs", "files"} /\ kind # other
        /\ {"dirs", "files"} \subseteq DOMAIN made.doc
    BY <2>3 DEF EmptyDocument
  <2>5. doc[kind] = Append(made.doc[kind], entry) /\ doc[other] = made.doc[other]
    BY <2>4
  <2>6. doc = [EmptyDocument EXCEPT !.dirs = doc.dirs, !.files = doc.files]
    BY <2>3 DEF EmptyDocument
  <2> HIDE DEF kind, other
  <2>7. IsSequence(made.doc[kind]) /\ IsSequence(made.doc[other])
    BY <2>4 DEF Made
  <2> DEFINE n == Len(made.doc[kind])
  <2>8. /\ n \in Nat /\ DOMAIN made.doc[kind] = 1 .. n
        /\ IsSequence(doc[kind]) /\ DOMAIN doc[kind] = 1 .. n + 1
        /\ \A i \in 1 .. n : doc[kind][i] = made.doc[kind][i]
        /\ doc[kind][n + 1] = entry
    BY <2>5, <2>7, SequenceIs, AppendIs
  <2> HIDE DEF doc, n
  <2>9. /\ more.seen = made.seen \union {id} /\ more.doc = doc
        /\ more = [seen |-> more.seen, doc |-> more.doc]
    OBVIOUS
  <2> HIDE DEF more
  <2>10. IsFiniteSet(more.seen)
    BY <1>5, <2>9, FS_AddElement
  <2>11. \A k \in {"dirs", "files"} : k = kind \/ k = other
    BY <2>4
  <2>12. \A k \in {"dirs", "files"} : \A i \in DOMAIN made.doc[k] :
           MadeEntry(made.doc[k][i]) /\ made.doc[k][i].id \in made.seen
    BY DEF Made
  <2>13. \A i \in DOMAIN doc[kind] : i \in 1 .. n \/ i = n + 1
    BY <2>8
  <2>14. ASSUME NEW k \in {"dirs", "files"}
         PROVE  /\ IsSequence(doc[k])
                /\ \A i \in DOMAIN doc[k] : MadeEntry(doc[k][i]) /\ doc[k][i].id \in more.seen
    <3>1. CASE k = other
      BY <2>5, <2>7, <2>9, <2>12, <3>1
    <3>2. CASE k = kind
      BY <2>2, <2>8, <2>9, <2>12, <2>13, <3>2
    <3>3. QED
      BY <2>11, <3>1, <3>2
  <2>15. ASSUME NumeralsDiffer, NEW k \in {"dirs", "files"}, NEW l \in {"dirs", "files"},
                NEW i \in DOMAIN doc[k], NEW j \in DOMAIN doc[l], k # l \/ i # j
         PROVE  doc[k][i].id # doc[l][j].id
    <3> DEFINE Old(a, b) == b \in DOMAIN made.doc[a] /\ doc[a][b] = made.doc[a][b]
               New(a, b) == a = kind /\ b = n + 1 /\ doc[a][b].id = id
    <3>1. \A a \in {"dirs", "files"} : \A b \in DOMAIN doc[a] : Old(a, b) \/ New(a, b)
      BY <2>2, <2>5, <2>8, <2>11, <2>13
    <3>2. \A a \in {"dirs", "files"} : \A b \in DOMAIN made.doc[a] : made.doc[a][b].id # id
      BY <1>6, <2>12, <2>15
    <3>3. \A a, b \in {"dirs", "files"} : \A c \in DOMAIN made.doc[a], d \in DOMAIN made.doc[b] :
            a # b \/ c # d => made.doc[a][c].id # made.doc[b][d].id
      BY <2>15 DEF Made
    <3>4. CASE Old(k, i) /\ Old(l, j)
      BY <2>15, <3>3, <3>4
    <3>5. CASE Old(k, i) /\ New(l, j)
      BY <3>2, <3>5
    <3>6. CASE New(k, i) /\ Old(l, j)
      BY <3>2, <3>6
    <3>7. CASE New(k, i) /\ New(l, j)
      BY <2>15, <3>7
    <3>8. QED
      BY <3>1, <3>4, <3>5, <3>6, <3>7
  <2>16. Made(more)
    BY <2>6, <2>9, <2>10, <2>14, <2>15 DEF Made
  <2>17. QED
    BY <2>1, <2>16
<1>9. QED
  BY <1>7, <1>8

\* The groups of what is in use.
Grouped(uses) == FoldLeft(EmitSource, [seen |-> {}, doc |-> EmptyDocument], uses)

\* Every group that the catalog makes of sources in use is whole, and has an identifier
\* of its own (resolve.go emitSource).
LEMMA GroupedIs ==
  ASSUME NEW uses \in Seq(UsesIn(Templates))
  PROVE  Made(Grouped(uses))
<1> DEFINE n == Len(uses)
           base == [seen |-> {}, doc |-> EmptyDocument]
           Obeys(f) == f = [s \in SUBSET (1 .. n) |->
                              IF s = {} THEN base ELSE EmitSource(f[s \ {Max(s)}], uses[Max(s)])]
           It == CHOOSE f : Obeys(f)
<1>1. n \in Nat /\ DOMAIN uses = 1 .. n /\ \A i \in 1 .. n : uses[i] \in UsesIn(Templates)
  BY LenProperties
<1>2. Grouped(uses) = It[1 .. n]
  BY <1>1 DEF Grouped, FoldLeft, MapThenFoldSet
<1>3. \A x, y : Step("emit", Templates, x, y) = EmitSource(x, y)
  BY DEF Step
<1>4. Made(base)
  <2>1. /\ base.seen = {} /\ base.doc.dirs = <<>> /\ base.doc.files = <<>>
        /\ base.doc = [EmptyDocument EXCEPT !.dirs = base.doc.dirs, !.files = base.doc.files]
    BY DEF EmptyDocument
  <2>2. \A k \in {"dirs", "files"} : base.doc[k] = <<>>
    BY <2>1
  <2> DEFINE b == base
  <2>3. b = [seen |-> b.seen, doc |-> b.doc]
    OBVIOUS
  <2> HIDE DEF b
  <2>4. QED
    BY <2>1, <2>2, <2>3, EmptyIs, FS_EmptySet DEF Made, b
<1> HIDE DEF n, base
<1>5. \A f : IsFoldOf(f, "emit", Templates, base, uses, n) <=> Obeys(f)
  BY <1>3 DEF IsFoldOf
<1>6. \E f : Obeys(f)
  BY <1>1, <1>5, FoldExists
<1> HIDE DEF Obeys
<1>7. IsFoldOf(It, "emit", Templates, base, uses, n)
  BY <1>5, <1>6
<1> HIDE DEF It
<1>8. Good("emit", Templates, 0, base)
  BY <1>4 DEF Good
<1>9. \A i \in 1 .. n : \A x : Good("emit", Templates, i - 1, x) =>
                              Good("emit", Templates, i, Step("emit", Templates, x, uses[i]))
  BY <1>1, <1>3, EmitKeeps DEF Good
<1>10. Good("emit", Templates, n, It[1 .. n])
  BY <1>1, <1>7, <1>8, <1>9, FoldKeeps
<1>11. QED
  BY <1>2, <1>10 DEF Good

\* A file as the catalog makes them.
IsGenerated(gen) ==
  /\ IsDocument(gen)
  /\ gen.filter = {} /\ gen.mutes = <<>> /\ ~ gen.unknown
  /\ \A k \in {"dirs", "files"} : \A i \in DOMAIN gen[k] : MadeEntry(gen[k][i])
  /\ NumeralsDiffer =>
       \A k, l \in {"dirs", "files"} : \A i \in DOMAIN gen[k], j \in DOMAIN gen[l] :
         k # l \/ i # j => gen[k][i].id # gen[l][j].id
  /\ \A i \in DOMAIN gen.renderers :
       gen.renderers[i].matcher = "" /\ CompileRenderer(gen.renderers[i], <<>>)

\* Whatever is asked of the catalog, it makes a file with groups of their own names and
\* renderers that compile (resolve.go Resolve).
LEMMA ResolveIs ==
  ASSUME NEW names, IsSequence(names), NEW gen \in Resolve(Templates, names)
  PROVE  IsGenerated(gen)
<1> DEFINE known(apps) == \A i \in DOMAIN apps : KnownApp(Templates, apps[i])
           doc(apps) == Grouped(AllUses(Templates, apps)).doc
           wanted(apps) == Wanted(Templates, apps)
           rules(apps) == [i \in DOMAIN wanted(apps) |-> Templates.renderers[wanted(apps)[i]]]
           made(apps) == [doc(apps) EXCEPT !.renderers = rules(apps), !.set = Templates.defaults]
<1>1. Resolve(Templates, names)
        = {made(apps) : apps \in {a \in ExpandNames(Templates, names) : known(a)}}
  BY DEF Resolve, KnownApp, Grouped, AllUses, Wanted, AddName
<1>2. PICK apps \in ExpandNames(Templates, names) : known(apps) /\ gen = made(apps)
  <2> HIDE DEF known, made
  <2>1. QED
    BY <1>1
<1>3. IsCatalog(Templates)
  BY TemplatesAreWhole DEF IsCatalog
<1>4. apps \in Seq(DOMAIN Templates.apps)
  BY <1>3, ExpandNamesIs DEF AppsOf
<1>5. Made(Grouped(AllUses(Templates, apps)))
  BY <1>2, <1>3, <1>4, AllUsesIs, GroupedIs
<1>6. wanted(apps) \in Seq(DOMAIN Templates.renderers)
  BY <1>2, <1>3, <1>4, WantedIs
<1> DEFINE d == doc(apps)
           w == wanted(apps)
           rs == rules(apps)
           m == Grouped(AllUses(Templates, apps))
<1>7. gen = [d EXCEPT !.renderers = rs, !.set = Templates.defaults] /\ d = m.doc
  BY <1>2
<1>8. Len(w) \in Nat /\ DOMAIN w = 1 .. Len(w)
      /\ \A i \in DOMAIN w : w[i] \in DOMAIN Templates.renderers
  BY <1>6, LenProperties
<1>9. rs = [i \in 1 .. Len(w) |-> rs[i]] /\ \A i \in 1 .. Len(w) : rs[i] = Templates.renderers[w[i]]
  BY <1>8
<1> HIDE DEF w, rs, d, m
<1>10. IsSequence(rs) /\ DOMAIN rs = 1 .. Len(w)
  BY <1>8, <1>9, FunctionIs
<1>11. \A i \in DOMAIN rs : rs[i].matcher = "" /\ CompileRenderer(rs[i], <<>>)
  <2>1. \A r \in DOMAIN Templates.renderers :
          /\ Templates.renderers[r].matcher = ""
          /\ CompileRenderer(Templates.renderers[r], <<>>)
    BY TemplatesLoad
  <2>2. ASSUME NEW i \in DOMAIN rs
        PROVE  rs[i].matcher = "" /\ CompileRenderer(rs[i], <<>>)
    <3>1. w[i] \in DOMAIN Templates.renderers /\ rs[i] = Templates.renderers[w[i]]
      BY <1>8, <1>9, <1>10
    <3>2. QED
      BY <2>1, <3>1
  <2>3. QED
    BY <2>2
<1>12. Made(m)
  BY <1>5 DEF m
<1>13. d = [EmptyDocument EXCEPT !.dirs = d.dirs, !.files = d.files]
  BY <1>7, <1>12 DEF Made
<1>14. /\ DOMAIN gen = DOMAIN EmptyDocument
       /\ gen.dirs = d.dirs /\ gen.files = d.files /\ gen.renderers = rs
       /\ gen.filter = {} /\ gen.mutes = <<>> /\ ~ gen.unknown
  BY <1>7, <1>13 DEF EmptyDocument
<1>15. \A k \in {"dirs", "files"} : gen[k] = d[k]
  BY <1>14
<1>16. \A k \in {"dirs", "files"} :
         /\ IsSequence(d[k])
         /\ \A i \in DOMAIN d[k] : MadeEntry(d[k][i])
  BY <1>7, <1>12 DEF Made
<1>17. NumeralsDiffer =>
         \A k, l \in {"dirs", "files"} : \A i \in DOMAIN d[k], j \in DOMAIN d[l] :
           k # l \/ i # j => d[k][i].id # d[l][j].id
  BY <1>7, <1>12 DEF Made
<1>18. IsDocument(gen)
  BY <1>10, <1>14, <1>16 DEF IsDocument
<1>19. \A k \in {"dirs", "files"} : \A i \in DOMAIN gen[k] : MadeEntry(gen[k][i])
  BY <1>15, <1>16
<1>20. NumeralsDiffer =>
         \A k, l \in {"dirs", "files"} : \A i \in DOMAIN gen[k], j \in DOMAIN gen[l] :
           k # l \/ i # j => gen[k][i].id # gen[l][j].id
  BY <1>15, <1>17
<1>21. \A i \in DOMAIN gen.renderers :
         gen.renderers[i].matcher = "" /\ CompileRenderer(gen.renderers[i], <<>>)
  BY <1>11, <1>14
<1>22. QED
  BY <1>14, <1>18, <1>19, <1>20, <1>21 DEF IsGenerated

-----------------------------------------------------------------------------
(* Merging into a file.                                                    *)

\* One more new entry, taken or passed over (emit.go MergeFiles).
LEMMA NewOnlyStep ==
  ASSUME NEW p, NEW i \in Nat \ {0}, IsSequence(p.old), NEW x, Extends(p, i - 1, x)
  PROVE  Extends(p, i, Step("new", p, x, p.new[i]))
<1> DEFINE e == p.new[i]
           n == Len(x)
           o == Len(p.old)
           y == Step("new", p, x, e)
<1>1. /\ IsSequence(x) /\ n \in Nat /\ DOMAIN x = 1 .. n
      /\ o \in Nat /\ o <= n
  BY SequenceIs DEF Extends
<1>2. y = IF \E j \in DOMAIN x : x[j][p.key] = e[p.key] THEN x ELSE Append(x, e)
  BY DEF Step
<1>3. 1 .. i - 1 \subseteq 1 .. i /\ i \in 1 .. i
  OBVIOUS
<1>4. \A j \in DOMAIN x : j > o => \E k \in 1 .. i : x[j] = p.new[k]
  BY <1>3 DEF Extends
<1>5. CASE \E j \in DOMAIN x : x[j][p.key] = e[p.key]
  <2>1. y = x
    BY <1>2, <1>5
  <2> HIDE DEF y
  <2>2. Extends(p, i, y)
    BY <1>4, <2>1 DEF Extends
  <2>3. QED
    BY <2>2 DEF y
<1>6. CASE ~ \E j \in DOMAIN x : x[j][p.key] = e[p.key]
  <2>1. y = Append(x, e)
    BY <1>2, <1>6
  <2>2. /\ IsSequence(y) /\ Len(y) = n + 1 /\ DOMAIN y = 1 .. n + 1
        /\ \A j \in 1 .. n : y[j] = x[j]
        /\ y[n + 1] = e
    <3> DEFINE z == Append(x, e)
    <3>1. /\ IsSequence(z) /\ Len(z) = n + 1 /\ DOMAIN z = 1 .. n + 1
          /\ \A j \in 1 .. n : z[j] = x[j]
          /\ z[n + 1] = e
      BY <1>1, AppendIs
    <3> HIDE DEF y, z
    <3>2. y = z
      BY <2>1 DEF z
    <3>3. QED
      BY <3>1, <3>2
  <2> HIDE DEF y, n, o
  <2>3. \A j \in DOMAIN y : j \in 1 .. n \/ j = n + 1
    BY <1>1, <2>2
  <2>4. o <= Len(y) /\ \A j \in 1 .. o : y[j] = p.old[j]
    <3>1. \A j \in 1 .. o : j \in 1 .. n /\ x[j] = p.old[j]
      BY <1>1 DEF Extends, o
    <3>2. QED
      BY <1>1, <2>2, <3>1
  <2>5. ASSUME NEW j \in DOMAIN y, j > o
        PROVE  \E k \in 1 .. i : y[j] = p.new[k]
    BY <1>1, <1>3, <1>4, <2>2, <2>3, <2>5
  <2>6. ASSUME NEW j \in DOMAIN y, NEW k \in DOMAIN y, j < k, k > o
        PROVE  y[j][p.key] # y[k][p.key]
    <3>1. CASE k \in 1 .. n
      <4>1. j \in 1 .. n
        BY <1>1, <2>2, <2>6, <3>1
      <4>2. x[j][p.key] # x[k][p.key]
        BY <1>1, <2>6, <3>1, <4>1 DEF Extends, o
      <4>3. QED
        BY <2>2, <3>1, <4>1, <4>2
    <3>2. CASE k = n + 1
      <4>1. j \in 1 .. n
        BY <1>1, <2>2, <2>6, <3>2
      <4>2. QED
        BY <1>1, <1>6, <2>2, <3>2, <4>1
    <3>3. QED
      BY <2>3, <3>1, <3>2
  <2>7. Extends(p, i, y)
    BY <2>2, <2>4, <2>5, <2>6 DEF Extends, o
  <2>8. QED
    BY <2>7 DEF y
<1>7. QED
  BY <1>5, <1>6

\* A merged section has the old entries, and new ones such as none before is called.
LEMMA NewOnlyIs ==
  ASSUME NEW old, IsSequence(old), NEW new, IsSequence(new), NEW key
  PROVE  Extends([old |-> old, new |-> new, key |-> key], Len(new), NewOnly(old, new, key))
<1> DEFINE n == Len(new)
           p == [old |-> old, new |-> new, key |-> key]
           On(x, e) == IF \E i \in DOMAIN x : x[i][key] = e[key] THEN x ELSE Append(x, e)
           Obeys(f) == f = [s \in SUBSET (1 .. n) |->
                              IF s = {} THEN old ELSE On(f[s \ {Max(s)}], new[Max(s)])]
           It == CHOOSE f : Obeys(f)
<1>1. n \in Nat /\ DOMAIN new = 1 .. n
  BY SequenceIs
<1>2. NewOnly(old, new, key) = It[1 .. n]
  BY <1>1 DEF NewOnly, FoldLeft, MapThenFoldSet
<1>3. p.old = old /\ p.new = new /\ p.key = key
  OBVIOUS
<1>4. \A x, y : Step("new", p, x, y) = On(x, y)
  BY <1>3 DEF Step
<1> HIDE DEF On, n, p
<1>5. \A f : IsFoldOf(f, "new", p, old, new, n) <=> Obeys(f)
  BY <1>4 DEF IsFoldOf
<1>6. \E f : Obeys(f)
  BY <1>1, <1>5, FoldExists
<1> HIDE DEF Obeys
<1>7. IsFoldOf(It, "new", p, old, new, n)
  BY <1>5, <1>6
<1> HIDE DEF It
<1>8. Extends(p, 0, old)
  <2>1. Len(old) \in Nat /\ DOMAIN old = 1 .. Len(old)
    BY SequenceIs
  <2>2. QED
    BY <1>3, <2>1 DEF Extends
<1>9. Good("new", p, 0, old)
  BY <1>8 DEF Good
<1>10. \A i \in 1 .. n : \A x : Good("new", p, i - 1, x) =>
                               Good("new", p, i, Step("new", p, x, new[i]))
  BY <1>1, <1>3, NewOnlyStep DEF Good
<1>11. Good("new", p, n, It[1 .. n])
  BY <1>1, <1>7, <1>9, <1>10, FoldKeeps
<1>12. QED
  BY <1>2, <1>11 DEF Good, p, n

\* A merged file is a file.
LEMMA MergeFilesIs ==
  ASSUME NEW doc, IsDocument(doc), NEW gen, IsDocument(gen)
  PROVE  IsDocument(MergeFiles(doc, gen))
<1> DEFINE new == MergeFiles(doc, gen)
<1>1. /\ DOMAIN new = DOMAIN EmptyDocument
      /\ new.dirs = NewOnly(doc.dirs, gen.dirs, "id")
      /\ new.files = NewOnly(doc.files, gen.files, "id")
      /\ new.renderers = NewOnly(doc.renderers, gen.renderers, "name")
  BY DEF MergeFiles, IsDocument, EmptyDocument
<1>2. /\ IsSequence(NewOnly(doc.dirs, gen.dirs, "id"))
      /\ IsSequence(NewOnly(doc.files, gen.files, "id"))
      /\ IsSequence(NewOnly(doc.renderers, gen.renderers, "name"))
  BY NewOnlyIs DEF IsDocument, Extends
<1> HIDE DEF new
<1>3. QED
  BY <1>1, <1>2 DEF IsDocument, new

-----------------------------------------------------------------------------
(* What runs has the groups of the command line first.                     *)

\* What a file may be.
IsContent(content) == content \in {Absent, Broken} \/ IsDocument(content)

\* Files are whole, or absent or broken, those to be written too, and what is
\* shown and watched has the groups of the command line first.
Whole ==
  /\ args \in CommandLines
  /\ disk = [p \in Files |-> disk[p]]
  /\ \A p \in Files : IsContent(disk[p])
  /\ pump.pc = "read" => pump.from \in Files \union {None}
  /\ init.pc \in {"create", "write"} =>
       /\ init = [pc |-> init.pc, old |-> init.old, new |-> init.new]
       /\ IsDocument(init.new)
  /\ \A r \in running \union watching : Leads(args, r.groups)

\* A file that has been truncated is a file.
LEMMA EmptyIsDocument == IsDocument(EmptyDocument)
BY EmptyIs DEF IsDocument, EmptyDocument

\* What the program may start with.
LEMMA WholeInit == Init => Whole
<1> SUFFICES ASSUME Init PROVE Whole
  OBVIOUS
<1>1. disk = [p \in Files |-> disk[p]]
  BY DisksAreWhole DEF Init
<1>2. \A p \in Files : IsContent(disk[p])
  BY DocumentsAreWhole DEF Init, IsContent
<1>3. QED
  BY <1>1, <1>2 DEF Init, Whole

\* A file is replaced by another one, or by none.
LEMMA WholeFiles ==
  ASSUME Whole, NEW p \in Files, NEW content, IsContent(content),
         disk' = [disk EXCEPT ![p] = content]
  PROVE  /\ disk' = [q \in Files |-> disk'[q]]
         /\ \A q \in Files : IsContent(disk'[q])
BY DEF Whole

\* What a load makes has the groups of the command line first.
LEMMA RuntimesLead ==
  ASSUME NEW line \in CommandLines, NEW p, NEW content, p # None => IsContent(content),
         NEW cfgs \in SUBSET LoadFrom(line, p, content), NEW drop, NEW r \in Runtimes(cfgs, drop)
  PROVE  Leads(line, r.groups)
<1>1. PICK c \in cfgs : \E pipeline :
        r = [groups |-> c.groups, filter |-> c.filter, pipeline |-> pipeline]
  BY DEF Runtimes
<1>2. IsSequence(line)
  BY CommandLinesAreWhole
<1>3. Leads(line, c.groups)
  BY <1>2, LoadLeads DEF IsContent
<1>4. QED
  BY <1>1, <1>3

\* What a file that is looked for is.
LEMMA ContentIs ==
  ASSUME Whole, NEW p \in Files \union {None}
  PROVE  p # None => IsContent(Content(p))
BY DEF Whole, Content

\* What a template makes of a selection, merged or not, is a file.
LEMMA ReadIs ==
  ASSUME Whole, NEW names \in Selections, NEW merge, InitRead(names, merge)
  PROVE  \E gen, old :
           /\ IsGenerated(gen)
           /\ old = Absent \/ IsDocument(old)
           /\ init' = [pc |-> "create", old |-> old,
                       new |-> IF old = Absent THEN gen ELSE MergeFiles(old, gen)]
<1>1. PICK gen \in Resolve(Templates, names) :
        IF disk["local"] = Absent \/ ~ merge
        THEN init' = [pc |-> "create", old |-> Absent, new |-> gen]
        ELSE /\ disk["local"] # Broken
             /\ init' = [pc |-> "create", old |-> disk["local"],
                         new |-> MergeFiles(disk["local"], gen)]
  BY DEF InitRead
<1>2. IsGenerated(gen)
  BY ResolveIs, SelectionsAreWhole
<1>3. CASE disk["local"] = Absent \/ ~ merge
  BY <1>1, <1>2, <1>3
<1>4. CASE ~ (disk["local"] = Absent \/ ~ merge)
  <2>1. IsDocument(disk["local"]) /\ disk["local"] # Absent
    BY <1>1, <1>4 DEF Whole, IsContent, Files
  <2>2. QED
    BY <1>1, <1>2, <1>4, <2>1
<1>5. QED
  BY <1>3, <1>4

\* What is loaded runs, and is watched or leaves what was.
LEMMA AppliedLeads ==
  ASSUME \A r \in running \union watching : Leads(args, r.groups),
         NEW loaded, \A r \in loaded : Leads(args, r.groups),
         Apply(loaded)
  PROVE  \A r \in running' \union watching' : Leads(args, r.groups)
BY DEF Apply

\* Every step of the program, of an editor and of `init' keeps it so.
LEMMA WholeNext == Whole /\ [Next]_vars => Whole'
<1> SUFFICES ASSUME Whole, [Next]_vars
             PROVE  Whole'
  OBVIOUS
<1>1. ASSUME NEW p \in Files, NEW content \in Documents \union {Broken, Absent}, Edit(p, content)
      PROVE  Whole'
  <2>1. IsContent(content)
    BY DocumentsAreWhole DEF IsContent
  <2>2. disk' = [q \in Files |-> disk'[q]] /\ \A q \in Files : IsContent(disk'[q])
    BY <1>1, <2>1, WholeFiles DEF Edit
  <2>3. UNCHANGED <<args, pump, init, running, watching>>
    BY <1>1 DEF Edit, procVars
  <2>4. QED
    BY <2>2, <2>3 DEF Whole
<1>2. ASSUME NEW names \in Selections, NEW merge, InitRead(names, merge)
      PROVE  Whole'
  <2>1. PICK gen, old :
          /\ IsGenerated(gen)
          /\ old = Absent \/ IsDocument(old)
          /\ init' = [pc |-> "create", old |-> old,
                      new |-> IF old = Absent THEN gen ELSE MergeFiles(old, gen)]
    BY <1>2, ReadIs
  <2>2. IsDocument(init'.new)
    BY <2>1, MergeFilesIs DEF IsGenerated
  <2>3. init' = [pc |-> init'.pc, old |-> init'.old, new |-> init'.new]
    BY <2>1
  <2>4. UNCHANGED <<args, pump, disk, running, watching>>
    BY <1>2 DEF InitRead, procVars
  <2>5. QED
    BY <2>2, <2>3, <2>4 DEF Whole
<1>3. CASE InitCreate
  <2>1. /\ init.pc = "create" /\ init' = [init EXCEPT !.pc = "write"]
        /\ disk' = [disk EXCEPT !["local"] = EmptyDocument]
        /\ UNCHANGED <<args, pump, running, watching>>
    BY <1>3 DEF InitCreate, procVars
  <2>2. disk' = [q \in Files |-> disk'[q]] /\ \A q \in Files : IsContent(disk'[q])
    BY <2>1, EmptyIsDocument, WholeFiles DEF Files, IsContent
  <2>3. QED
    BY <2>1, <2>2 DEF Whole
<1>4. CASE InitWrite
  <2>1. /\ init.pc = "write" /\ init' = [init EXCEPT !.pc = "done"]
        /\ disk' = [disk EXCEPT !["local"] = init.new]
        /\ UNCHANGED <<args, pump, running, watching>>
    BY <1>4 DEF InitWrite, procVars
  <2>2. init'.pc = "done" /\ IsContent(init.new)
    BY <2>1 DEF Whole, IsContent
  <2>3. disk' = [q \in Files |-> disk'[q]] /\ \A q \in Files : IsContent(disk'[q])
    BY <2>1, <2>2, WholeFiles DEF Files
  <2>4. QED
    BY <2>1, <2>2, <2>3 DEF Whole
<1>5. CASE Start
  <2>1. PICK q \in ResolvePath :
          \E c \in LoadFrom(args, q, Content(q)) :
            running' = Runtimes({c}, c.scalars.drop) /\ watching' = running'
    BY <1>5 DEF Start
  <2>2. pump'.pc = "started" /\ UNCHANGED <<args, disk, init>>
    BY <1>5 DEF Start
  <2>3. q \in Files \union {None} /\ args \in CommandLines
    BY DEF ResolvePath, Files, Whole
  <2>4. \A r \in running' \union watching' : Leads(args, r.groups)
    <3>1. q # None => IsContent(Content(q))
      BY <2>3, ContentIs
    <3>2. PICK c \in LoadFrom(args, q, Content(q)) :
            running' = Runtimes({c}, c.scalars.drop) /\ watching' = running'
      BY <2>1
    <3>3. {c} \in SUBSET LoadFrom(args, q, Content(q))
      OBVIOUS
    <3>4. QED
      BY <2>3, <3>1, <3>2, <3>3, RuntimesLead
  <2>5. QED
    BY <2>2, <2>4 DEF Whole
<1>6. CASE StartWatch
  BY <1>6 DEF StartWatch, procVars, Whole
<1>7. CASE PumpTake
  BY <1>7 DEF PumpTake, procVars, Whole
<1>8. CASE PumpResolve
  <2>1. pump'.pc = "read" => pump'.from \in Files \union {None}
    BY <1>8 DEF PumpResolve, ResolvePath, Files
  <2>2. UNCHANGED <<args, disk, running, watching, init>>
    BY <1>8 DEF PumpResolve, procVars
  <2>3. QED
    BY <2>1, <2>2 DEF Whole
<1>9. CASE PumpRead
  <2> DEFINE cfgs == LoadFrom(args, pump.from, Content(pump.from))
             loaded == Runtimes(cfgs, dropUnmatched)
  <2>1. /\ pump.pc = "read" /\ pump'.pc = "select" /\ Apply(loaded)
        /\ UNCHANGED <<args, disk, init>>
    BY <1>9 DEF PumpRead
  <2>2. pump.from \in Files \union {None} /\ args \in CommandLines
    BY <2>1 DEF Whole
  <2>3. \A r \in loaded : Leads(args, r.groups)
    <3>1. pump.from # None => IsContent(Content(pump.from))
      BY <2>2, ContentIs
    <3>2. cfgs \in SUBSET LoadFrom(args, pump.from, Content(pump.from))
      OBVIOUS
    <3> HIDE DEF cfgs
    <3>3. QED
      BY <2>2, <3>1, <3>2, RuntimesLead
  <2> HIDE DEF loaded
  <2>4. \A r \in running' \union watching' : Leads(args, r.groups)
    BY <2>1, <2>3, AppliedLeads DEF Whole
  <2>5. QED
    BY <2>1, <2>4 DEF Whole
<1>10. CASE UNCHANGED vars
  BY <1>10 DEF vars, procVars, Whole
<1>11. QED
  BY <1>1, <1>2, <1>3, <1>4, <1>5, <1>6, <1>7, <1>8, <1>9, <1>10 DEF Next

\* Whatever the command line, the files and the edits of them are, and whether or not
\* a reload gets a watcher, the groups of the command line are those that come first
\* in what is shown and in what is watched, and no two groups of a kind share an
\* identifier
\* (yaml.go mergeYAMLInto, cli.go ParseArgs, main.go run).
THEOREM TheCommandLineLeads == Spec => []CliGroupsLead
<1>1. Whole => CliGroupsLead
  BY DEF Whole, Leads, Distinct, CliGroupsLead
<1>2. QED
  BY WholeInit, WholeNext, <1>1, PTL DEF Spec

-----------------------------------------------------------------------------
(* What it takes to load.                                                  *)

\* What is not disabled.
Enabled(seq) == {seq[i] : i \in {k \in DOMAIN seq : ~ seq[k].disabled}}
EnabledOf(seq) == Select(seq, LAMBDA r : ~ r.disabled)

\* What InitKeepsLoading means by loading.
Loads(doc) == \E c \in LoadFrom(<<>>, "local", doc) : NewPipeline(c, FALSE) # {}

\* The same, said of the entries of the document.
LoadsAs(doc) ==
  /\ ~ doc.unknown /\ ~ BadFilter(doc.filter)
  /\ ~ Repeats(doc.dirs) /\ ~ Repeats(doc.files)
  /\ \A e \in Enabled(doc.dirs) : ~ BadFilter(e.filter)
  /\ Enabled(doc.dirs) # {} \/ Enabled(doc.files) # {}
  /\ \A e \in Enabled(doc.dirs) \union Enabled(doc.files) : e.paths # <<>>
  /\ \A r \in Enabled(doc.renderers) : CompileRenderer(r, doc.matchers)
  /\ \A i \in DOMAIN doc.mutes : CompileMute(doc.mutes[i], doc.matchers)

\* The renderers of a file that is loaded are those that are not disabled.
LEMMA EnabledIs ==
  ASSUME NEW entries, IsSequence(entries)
  PROVE  Selected("enabled", [seq |-> entries], Len(entries), EnabledOf(entries))
<1> DEFINE n == Len(entries)
           p == [seq |-> entries]
           On(x, e) == IF ~ e.disabled THEN Append(x, e) ELSE x
           Obeys(f) == f = [s \in SUBSET (1 .. n) |->
                              IF s = {} THEN <<>>
                              ELSE On(f[s \ {Max(s)}], entries[Max(s)])]
           It == CHOOSE f : Obeys(f)
<1>1. n \in Nat /\ DOMAIN entries = 1 .. n
  BY SequenceIs
<1>2. EnabledOf(entries) = It[1 .. n]
  BY <1>1 DEF EnabledOf, Select, FoldLeft, MapThenFoldSet
<1>3. \A x, e : Step("enabled", p, x, e) = On(x, e)
  BY DEF Step, Passes
<1>4. p.seq = entries
  OBVIOUS
<1> HIDE DEF On, p, n
<1>5. \A f : IsFoldOf(f, "enabled", p, <<>>, entries, n) <=> Obeys(f)
  BY <1>3 DEF IsFoldOf
<1>6. \E f : Obeys(f)
  BY <1>1, <1>5, FoldExists
<1> HIDE DEF Obeys
<1>7. Obeys(It)
  BY <1>6
<1>8. IsFoldOf(It, "enabled", p, <<>>, entries, n)
  BY <1>5, <1>7
<1> HIDE DEF It
<1>9. Good("enabled", p, 0, <<>>)
  BY NothingSelected DEF Good
<1>10. ASSUME NEW i \in 1 .. n, NEW x, Good("enabled", p, i - 1, x)
       PROVE  Good("enabled", p, i, Step("enabled", p, x, entries[i]))
  <2>1. /\ i \in Nat \ {0} /\ i \in DOMAIN p.seq /\ DOMAIN p.seq \subseteq Nat
        /\ 1 .. i \subseteq DOMAIN p.seq
    BY <1>1, <1>4
  <2>2. Selected("enabled", p, i - 1, x)
    BY <1>10 DEF Good
  <2>3. Selected("enabled", p, i, Step("enabled", p, x, p.seq[i]))
    BY <2>1, <2>2, SelectStep
  <2>4. QED
    BY <1>4, <2>3 DEF Good
<1>11. Good("enabled", p, n, It[1 .. n])
  BY <1>1, <1>8, <1>9, <1>10, FoldKeeps
<1>12. QED
  BY <1>2, <1>11 DEF Good, p, n

\* A selection has the entries that pass, and no others.
LEMMA SelectionIs ==
  ASSUME NEW loop \in {"fresh", "enabled"}, NEW p, IsSequence(p.seq),
         loop = "fresh" => p.cfg.groups = <<>>,
         NEW x, Selected(loop, p, Len(p.seq), x)
  PROVE  IsSequence(x) /\ {x[i] : i \in DOMAIN x} = Enabled(p.seq)
<1>1. DOMAIN p.seq = 1 .. Len(p.seq)
  BY SequenceIs
<1>2. \A e : Passes(loop, p, e) <=> ~ e.disabled
  BY EmptyIs DEF Passes, Places
<1>3. \A i \in DOMAIN x : x[i] \in Enabled(p.seq)
  BY <1>1, <1>2 DEF Selected, Enabled
<1>4. ASSUME NEW e \in Enabled(p.seq)
      PROVE  \E i \in DOMAIN x : x[i] = e
  <2>1. PICK k \in DOMAIN p.seq : e = p.seq[k] /\ ~ p.seq[k].disabled
    BY DEF Enabled
  <2>2. QED
    BY <1>1, <1>2, <2>1 DEF Selected
<1>5. QED
  BY <1>3, <1>4 DEF Selected

\* Without a command line, the file's groups are what is not disabled in it.
LEMMA FreshAlone ==
  ASSUME NEW kind, NEW entries, IsSequence(entries)
  PROVE  LET fresh == Fresh(NewConfig, kind, entries)
         IN  IsSequence(fresh) /\ {fresh[i] : i \in DOMAIN fresh} = Enabled(entries)
<1> DEFINE p == [cfg |-> NewConfig, kind |-> kind, seq |-> entries]
<1>1. Selected("fresh", p, Len(entries), Fresh(NewConfig, kind, entries))
  BY FreshIs
<1>2. p.seq = entries /\ p.cfg.groups = <<>>
  BY DEF NewConfig
<1> HIDE DEF p
<1>3. QED
  BY <1>1, <1>2, SelectionIs

\* The same of the renderers, as a set.
LEMMA EnabledAlone ==
  ASSUME NEW entries, IsSequence(entries)
  PROVE  LET enabled == EnabledOf(entries)
         IN  IsSequence(enabled) /\ {enabled[i] : i \in DOMAIN enabled} = Enabled(entries)
<1> DEFINE p == [seq |-> entries]
<1>1. Selected("enabled", p, Len(entries), EnabledOf(entries))
  BY EnabledIs
<1>2. p.seq = entries
  OBVIOUS
<1> HIDE DEF p
<1>3. QED
  BY <1>1, <1>2, SelectionIs

\* Without arguments there is the configuration that ParseArgs begins with.
LEMMA NoArguments == ParseArgs(<<>>) = {NewConfig}
<1>1. 0 \in Nat /\ DOMAIN <<>> = 1 .. 0 /\ 1 .. 0 = {}
  BY EmptyIs
<1>2. PICK iter : /\ IsFoldOf(iter, "parse", <<>>, {NewConfig}, <<>>, 0)
                  /\ ParseArgs(<<>>) = iter[1 .. 0]
  BY <1>1, ParseIsFold
<1>3. iter[{}] = {NewConfig}
  BY <1>1, <1>2 DEF IsFoldOf
<1>4. QED
  BY <1>1, <1>2, <1>3

\* The groups of a file alone.
GroupsOf(dirs, files) == <<>> \o AsGroups("dir", dirs) \o AsGroups("file", files)

\* There is a group if there is an entry, and it has a path if the entry has.
LEMMA GroupsOfAre ==
  ASSUME NEW dirs, IsSequence(dirs), NEW files, IsSequence(files)
  PROVE  /\ GroupsOf(dirs, files) # <<>> <=> DOMAIN dirs # {} \/ DOMAIN files # {}
         /\ (\A i \in DOMAIN GroupsOf(dirs, files) : GroupsOf(dirs, files)[i].paths # <<>>)
              <=> /\ \A i \in DOMAIN dirs : dirs[i].paths # <<>>
                  /\ \A i \in DOMAIN files : files[i].paths # <<>>
<1> DEFINE a == AsGroups("dir", dirs)
           b == AsGroups("file", files)
           n == Len(dirs)
           m == Len(files)
           first == <<>> \o a
           all == first \o b
<1>1. n \in Nat /\ m \in Nat /\ DOMAIN dirs = 1 .. n /\ DOMAIN files = 1 .. m
  BY SequenceIs
<1>2. IsSequence(a) /\ Len(a) = n /\ IsSequence(b) /\ Len(b) = m
  BY AsGroupsIs
<1>3. /\ \A i \in 1 .. n : a[i].paths = dirs[i].paths
      /\ \A i \in 1 .. m : b[i].paths = files[i].paths
  BY <1>1 DEF AsGroups
<1> HIDE DEF a, b, n, m
<1>4. /\ IsSequence(first) /\ Len(first) = n
      /\ \A i \in 1 .. n : first[i] = a[i]
  <2>1. IsSequence(<<>>) /\ Len(<<>>) = 0
    BY EmptyIs
  <2> DEFINE none == <<>>
  <2> HIDE DEF none
  <2>2. IsSequence(none) /\ Len(none) = 0
    BY <2>1 DEF none
  <2>3. /\ IsSequence(none \o a) /\ Len(none \o a) = 0 + n
        /\ \A i \in 1 .. Len(a) : (none \o a)[Len(none) + i] = a[i]
    BY <1>2, <2>2, ConcatIs
  <2>4. /\ IsSequence(none \o a) /\ Len(none \o a) = n
        /\ \A i \in 1 .. n : (none \o a)[i] = a[i]
    BY <1>1, <1>2, <2>2, <2>3
  <2>5. QED
    BY <2>4 DEF none
<1> HIDE DEF first
<1>5. /\ IsSequence(all) /\ Len(all) = n + m /\ DOMAIN all = 1 .. n + m
      /\ \A i \in 1 .. n : all[i] = a[i]
      /\ \A i \in 1 .. m : all[n + i] = b[i]
  <2>1. /\ IsSequence(all) /\ Len(all) = Len(first) + Len(b)
        /\ DOMAIN all = 1 .. Len(first) + Len(b)
        /\ \A i \in 1 .. Len(first) : all[i] = first[i]
        /\ \A i \in 1 .. Len(b) : all[Len(first) + i] = b[i]
    <3>1. IsSequence(first) /\ IsSequence(b)
      BY <1>2, <1>4
    <3>2. QED
      BY <3>1, ConcatIs
  <2> HIDE DEF all
  <2>2. QED
    BY <1>2, <1>4, <2>1
<1>6. GroupsOf(dirs, files) = all
  BY DEF GroupsOf, all, first, a, b
<1> HIDE DEF all
<1>7. all # <<>> <=> DOMAIN dirs # {} \/ DOMAIN files # {}
  <2>1. Len(<<>>) = 0
    BY EmptyIs
  <2>2. CASE n + m = 0
    <3>1. DOMAIN all = {} /\ n = 0 /\ m = 0
      BY <1>1, <1>5, <2>2
    <3>2. all \in [1 .. 0 -> ToSet(all)]
      BY <1>5, <2>2, SequenceIs
    <3>3. all = <<>>
      BY <1>5, <2>2, EmptySeq, SequenceIs
    <3>4. QED
      BY <1>1, <3>1, <3>3
  <2>3. CASE n + m # 0
    <3>1. n # 0 \/ m # 0
      BY <1>1, <2>3
    <3>2. all # <<>>
      BY <1>5, <2>1, <2>3
    <3>3. DOMAIN dirs # {} \/ DOMAIN files # {}
      BY <1>1, <3>1
    <3>4. QED
      BY <3>2, <3>3
  <2>4. QED
    BY <2>2, <2>3
<1>8. (\A i \in DOMAIN all : all[i].paths # <<>>)
        <=> /\ \A i \in 1 .. n : dirs[i].paths # <<>>
            /\ \A i \in 1 .. m : files[i].paths # <<>>
  <2>1. \A i \in 1 .. n : i \in DOMAIN all /\ all[i].paths = dirs[i].paths
    BY <1>1, <1>3, <1>5
  <2>2. \A i \in 1 .. m : n + i \in DOMAIN all /\ all[n + i].paths = files[i].paths
    BY <1>1, <1>3, <1>5
  <2>3. ASSUME NEW i \in DOMAIN all
        PROVE  i \in 1 .. n \/ (i - n \in 1 .. m /\ n + (i - n) = i)
    BY <1>1, <1>5
  <2>4. QED
    BY <2>1, <2>2, <2>3
<1>9. QED
  BY <1>1, <1>6, <1>7, <1>8

\* What a document makes of a command line without arguments.
Merged(doc) ==
  [NewConfig EXCEPT
     !.filter = doc.filter,
     !.groups = GroupsOf(Fresh(NewConfig, "dir", doc.dirs), Fresh(NewConfig, "file", doc.files)),
     !.renderers = EnabledOf(doc.renderers),
     !.matchers = doc.matchers, !.mutes = doc.mutes,
     !.scalars = MergeScalars(NewConfig, doc.set), !.keys = doc.keys]

\* What merging such a document takes.
Mergeable(doc) ==
  /\ ~ doc.unknown /\ ~ BadFilter(doc.filter)
  /\ ~ Repeats(doc.dirs) /\ ~ Repeats(doc.files)
  /\ \A e \in Enabled(doc.dirs) : ~ BadFilter(e.filter)

\* What merging a file into the empty command line takes and makes.
LEMMA MergeIs ==
  ASSUME NEW doc, IsDocument(doc)
  PROVE  Merge(NewConfig, doc) = IF Mergeable(doc) THEN {Merged(doc)} ELSE {}
<1> DEFINE dirs == Fresh(NewConfig, "dir", doc.dirs)
<1>1. {dirs[i] : i \in DOMAIN dirs} = Enabled(doc.dirs)
  BY FreshAlone DEF IsDocument
<1>2. NewConfig.filter = {} /\ NewConfig.groups = <<>>
  BY DEF NewConfig
<1> DEFINE refused == \/ doc.unknown
                      \/ NewConfig.filter = {} /\ BadFilter(doc.filter)
                      \/ Repeats(doc.dirs) \/ Repeats(doc.files)
                      \/ \E i \in DOMAIN dirs : BadFilter(dirs[i].filter)
           result == [NewConfig EXCEPT
              !.filter = IF @ = {} THEN doc.filter ELSE @,
              !.groups = @ \o AsGroups("dir", dirs)
                           \o AsGroups("file", Fresh(NewConfig, "file", doc.files)),
              !.renderers = Select(doc.renderers, LAMBDA r : ~ r.disabled),
              !.matchers = doc.matchers, !.mutes = doc.mutes,
              !.scalars = MergeScalars(NewConfig, doc.set), !.keys = doc.keys]
<1>3. Merge(NewConfig, doc) = IF refused THEN {} ELSE {result}
  BY DEF Merge
<1>4. result = Merged(doc)
  BY <1>2 DEF Merged, GroupsOf, EnabledOf, NewConfig
<1> HIDE DEF result, dirs
<1>5. (\E i \in DOMAIN dirs : BadFilter(dirs[i].filter))
        <=> (\E e \in Enabled(doc.dirs) : BadFilter(e.filter))
  BY <1>1
<1>6. refused <=> ~ Mergeable(doc)
  BY <1>2, <1>5 DEF Mergeable
<1> HIDE DEF refused
<1>7. QED
  BY <1>3, <1>4, <1>6

\* Loading, as what it takes.
LEMMA LoadsIs ==
  ASSUME NEW doc, IsDocument(doc)
  PROVE  /\ Loads(doc) => LoadsAs(doc)
         /\ LoadsAs(doc) => Loads(doc)
<1> DEFINE c == Merged(doc)
           dirs == Fresh(NewConfig, "dir", doc.dirs)
           files == Fresh(NewConfig, "file", doc.files)
           rules == EnabledOf(doc.renderers)
           groups == GroupsOf(dirs, files)
<1>1. /\ c.groups = groups /\ ~ c.preloads
      /\ c.renderers = rules
      /\ c.matchers = doc.matchers /\ c.mutes = doc.mutes
  BY DEF Merged, NewConfig
<1>2. /\ IsSequence(dirs) /\ {dirs[i] : i \in DOMAIN dirs} = Enabled(doc.dirs)
      /\ IsSequence(files) /\ {files[i] : i \in DOMAIN files} = Enabled(doc.files)
      /\ IsSequence(rules) /\ {rules[i] : i \in DOMAIN rules} = Enabled(doc.renderers)
  BY FreshAlone, EnabledAlone DEF IsDocument
<1> HIDE DEF c, dirs, files, rules
<1>3. /\ groups # <<>> <=> DOMAIN dirs # {} \/ DOMAIN files # {}
      /\ (\A i \in DOMAIN groups : groups[i].paths # <<>>)
           <=> /\ \A i \in DOMAIN dirs : dirs[i].paths # <<>>
               /\ \A i \in DOMAIN files : files[i].paths # <<>>
  BY <1>2, GroupsOfAre
<1> HIDE DEF groups
<1>4. Validate(c) <=> /\ Enabled(doc.dirs) # {} \/ Enabled(doc.files) # {}
                      /\ \A e \in Enabled(doc.dirs) \union Enabled(doc.files) : e.paths # <<>>
  <2>1. Validate(c) <=> /\ groups # <<>>
                        /\ \A i \in DOMAIN groups : groups[i].paths # <<>>
    BY <1>1 DEF Validate
  <2>2. /\ DOMAIN dirs # {} <=> Enabled(doc.dirs) # {}
        /\ DOMAIN files # {} <=> Enabled(doc.files) # {}
    BY <1>2
  <2>3. /\ (\A i \in DOMAIN dirs : dirs[i].paths # <<>>)
             <=> (\A e \in Enabled(doc.dirs) : e.paths # <<>>)
        /\ (\A i \in DOMAIN files : files[i].paths # <<>>)
             <=> (\A e \in Enabled(doc.files) : e.paths # <<>>)
    BY <1>2
  <2>4. QED
    BY <1>3, <2>1, <2>2, <2>3
<1>5. (\A i \in DOMAIN c.renderers : CompileRenderer(c.renderers[i], c.matchers))
        <=> (\A r \in Enabled(doc.renderers) : CompileRenderer(r, doc.matchers))
  BY <1>1, <1>2
<1>6. NewPipeline(c, FALSE) # {}
        <=> /\ \A r \in Enabled(doc.renderers) : CompileRenderer(r, doc.matchers)
            /\ \A i \in DOMAIN doc.mutes : CompileMute(doc.mutes[i], doc.matchers)
  BY <1>1, <1>5 DEF NewPipeline
<1>7. LoadFrom(<<>>, "local", doc) = {x \in Merge(NewConfig, doc) : Validate(x)}
  BY NoArguments, NotDocuments DEF LoadFrom, None
<1>8. LoadFrom(<<>>, "local", doc)
        = IF Mergeable(doc) /\ Validate(c) THEN {c} ELSE {}
  BY <1>7, MergeIs DEF c
<1>9. Loads(doc) <=> Mergeable(doc) /\ Validate(c) /\ NewPipeline(c, FALSE) # {}
  BY <1>8 DEF Loads
<1>10. QED
  BY <1>4, <1>6, <1>9 DEF LoadsAs, Mergeable

\* The old entries first, then new ones.
LEMMA NewOnlyKeeps ==
  ASSUME NEW old, IsSequence(old), NEW new, IsSequence(new), NEW key
  PROVE  LET x == NewOnly(old, new, key)
         IN  /\ IsSequence(x) /\ IsPrefix(old, x)
             /\ 1 .. Len(old) \subseteq DOMAIN x
             /\ \A i \in 1 .. Len(old) : x[i] = old[i]
             /\ \A i \in DOMAIN x \ 1 .. Len(old) :
                  /\ \E k \in DOMAIN new : x[i] = new[k]
                  /\ \A j \in DOMAIN x : j < i => x[j][key] # x[i][key]
<1> DEFINE p == [old |-> old, new |-> new, key |-> key]
           x == NewOnly(old, new, key)
<1>1. Extends(p, Len(new), x)
  BY NewOnlyIs
<1>2. p.old = old /\ p.new = new /\ p.key = key
  OBVIOUS
<1> HIDE DEF p, x
<1>3. /\ IsSequence(x) /\ Len(old) <= Len(x)
      /\ \A i \in 1 .. Len(old) : x[i] = old[i]
      /\ \A i \in DOMAIN x : i > Len(old) => \E k \in 1 .. Len(new) : x[i] = new[k]
      /\ \A i, j \in DOMAIN x : i < j /\ j > Len(old) => x[i][key] # x[j][key]
  BY <1>1, <1>2 DEF Extends
<1>4. /\ Len(old) \in Nat /\ Len(x) \in Nat
      /\ DOMAIN x = 1 .. Len(x) /\ DOMAIN new = 1 .. Len(new)
  BY <1>3, SequenceIs
<1>5. IsPrefix(old, x)
  BY <1>3, PrefixIs
<1>6. 1 .. Len(old) \subseteq DOMAIN x
  BY <1>3, <1>4
<1>7. \A i \in DOMAIN x \ 1 .. Len(old) : i > Len(old)
  BY <1>4
<1>8. \A i \in DOMAIN x \ 1 .. Len(old) :
        /\ \E k \in DOMAIN new : x[i] = new[k]
        /\ \A j \in DOMAIN x : j < i => x[j][key] # x[i][key]
  BY <1>3, <1>4, <1>7
<1>9. QED
  BY <1>3, <1>5, <1>6, <1>8 DEF x

\* Of what is enabled in a merged section, all is enabled in the old one, or new.
LEMMA NewOnlyEnabled ==
  ASSUME NEW old, IsSequence(old), NEW new, IsSequence(new), NEW key
  PROVE  /\ Enabled(old) \subseteq Enabled(NewOnly(old, new, key))
         /\ \A e \in Enabled(NewOnly(old, new, key)) :
              e \in Enabled(old) \/ \E k \in DOMAIN new : e = new[k]
<1> DEFINE x == NewOnly(old, new, key)
<1>1. /\ 1 .. Len(old) \subseteq DOMAIN x
      /\ \A i \in 1 .. Len(old) : x[i] = old[i]
      /\ \A i \in DOMAIN x \ 1 .. Len(old) : \E k \in DOMAIN new : x[i] = new[k]
  BY NewOnlyKeeps
<1>2. DOMAIN old = 1 .. Len(old)
  BY SequenceIs
<1> HIDE DEF x
<1>3. Enabled(old) \subseteq Enabled(x)
  BY <1>1, <1>2 DEF Enabled
<1>4. \A e \in Enabled(x) : e \in Enabled(old) \/ \E k \in DOMAIN new : e = new[k]
  BY <1>1, <1>2 DEF Enabled
<1>5. QED
  BY <1>3, <1>4 DEF x

\* Entries that the catalog makes have names that none of the others has.
LEMMA NewOnlyApart ==
  ASSUME NEW old, IsSequence(old), NEW new, IsSequence(new),
         \A k \in DOMAIN new : MadeEntry(new[k]), ~ Repeats(old)
  PROVE  ~ Repeats(NewOnly(old, new, "id"))
<1> DEFINE x == NewOnly(old, new, "id")
<1>1. /\ IsSequence(x)
      /\ 1 .. Len(old) \subseteq DOMAIN x
      /\ \A i \in 1 .. Len(old) : x[i] = old[i]
      /\ \A i \in DOMAIN x \ 1 .. Len(old) :
           /\ \E k \in DOMAIN new : x[i] = new[k]
           /\ \A j \in DOMAIN x : j < i => x[j]["id"] # x[i]["id"]
  BY NewOnlyKeeps
<1>2. DOMAIN old = 1 .. Len(old) /\ Len(old) \in Nat
  BY SequenceIs
<1>3. DOMAIN x = 1 .. Len(x) /\ Len(x) \in Nat
  BY <1>1, SequenceIs
<1> HIDE DEF x
<1>4. \A i \in DOMAIN x \ 1 .. Len(old) : x[i].id # <<>> /\ x[i].id # Default
  BY <1>1 DEF MadeEntry
<1>5. ASSUME NEW i \in DOMAIN x, NEW j \in DOMAIN x, i < j
      PROVE  IdOf(x[i].id) # IdOf(x[j].id)
  <2>1. CASE j \in 1 .. Len(old)
    <3>1. i \in 1 .. Len(old) /\ i # j
      BY <1>2, <1>3, <1>5, <2>1
    <3>2. IdOf(old[i].id) # IdOf(old[j].id)
      BY <1>2, <2>1, <3>1 DEF Repeats
    <3>3. QED
      BY <1>1, <2>1, <3>1, <3>2
  <2>2. CASE j \notin 1 .. Len(old)
    <3>1. x[i].id # x[j].id /\ x[j].id # <<>> /\ x[j].id # Default
      BY <1>1, <1>4, <1>5, <2>2
    <3>2. QED
      BY <3>1 DEF IdOf
  <2>3. QED
    BY <2>1, <2>2
<1>6. \A i, j \in DOMAIN x : i # j => i < j \/ j < i
  BY <1>3
<1>7. ~ Repeats(x)
  BY <1>5, <1>6 DEF Repeats
<1>8. QED
  BY <1>7 DEF x

\* Whatever loads still loads with what the catalog adds to it.
LEMMA MergedLoads ==
  ASSUME NEW old, IsDocument(old), NEW gen, IsGenerated(gen),
         Loads([old EXCEPT !.unknown = FALSE])
  PROVE  Loads(MergeFiles(old, gen))
<1> DEFINE cleared == [old EXCEPT !.unknown = FALSE]
           new == MergeFiles(old, gen)
<1>1. IsDocument(gen)
  BY DEF IsGenerated
<1>2. DOMAIN old = DOMAIN EmptyDocument
  BY DEF IsDocument
<1>3. /\ DOMAIN cleared = DOMAIN EmptyDocument
      /\ cleared.dirs = old.dirs /\ cleared.files = old.files
      /\ cleared.renderers = old.renderers /\ cleared.filter = old.filter
      /\ cleared.matchers = old.matchers /\ cleared.mutes = old.mutes
  BY <1>2 DEF EmptyDocument
<1>4. IsDocument(cleared)
  BY <1>3 DEF IsDocument
<1>5. /\ new.dirs = NewOnly(old.dirs, gen.dirs, "id")
      /\ new.files = NewOnly(old.files, gen.files, "id")
      /\ new.renderers = NewOnly(old.renderers, gen.renderers, "name")
      /\ ~ new.unknown /\ new.filter = old.filter
      /\ new.matchers = old.matchers /\ new.mutes = old.mutes
  BY <1>2 DEF MergeFiles, EmptyDocument
<1>6. IsDocument(new)
  BY <1>1, MergeFilesIs
<1> HIDE DEF cleared, new
<1>7. LoadsAs(cleared)
  BY <1>4, LoadsIs DEF cleared
<1>8. /\ IsSequence(old.dirs) /\ IsSequence(gen.dirs)
      /\ IsSequence(old.files) /\ IsSequence(gen.files)
      /\ IsSequence(old.renderers) /\ IsSequence(gen.renderers)
  BY <1>1 DEF IsDocument
<1>9. /\ \A k \in DOMAIN gen.dirs : MadeEntry(gen.dirs[k])
      /\ \A k \in DOMAIN gen.files : MadeEntry(gen.files[k])
      /\ \A k \in DOMAIN gen.renderers : /\ gen.renderers[k].matcher = ""
                                         /\ CompileRenderer(gen.renderers[k], <<>>)
  <2>1. /\ \A k \in DOMAIN gen["dirs"] : MadeEntry(gen["dirs"][k])
        /\ \A k \in DOMAIN gen["files"] : MadeEntry(gen["files"][k])
    BY DEF IsGenerated
  <2>2. QED
    BY <2>1 DEF IsGenerated
<1>10. ~ Repeats(new.dirs) /\ ~ Repeats(new.files)
  BY <1>3, <1>5, <1>7, <1>8, <1>9, NewOnlyApart DEF LoadsAs
<1>11. /\ Enabled(old.dirs) \subseteq Enabled(new.dirs)
       /\ \A e \in Enabled(new.dirs) :
            e \in Enabled(old.dirs) \/ \E k \in DOMAIN gen.dirs : e = gen.dirs[k]
       /\ Enabled(old.files) \subseteq Enabled(new.files)
       /\ \A e \in Enabled(new.files) :
            e \in Enabled(old.files) \/ \E k \in DOMAIN gen.files : e = gen.files[k]
       /\ \A e \in Enabled(new.renderers) :
            \/ e \in Enabled(old.renderers)
            \/ \E k \in DOMAIN gen.renderers : e = gen.renderers[k]
  BY <1>5, <1>8, NewOnlyEnabled
<1>12. \A e \in Enabled(new.dirs) : ~ BadFilter(e.filter)
  <2>1. \A e \in Enabled(old.dirs) : ~ BadFilter(e.filter)
    BY <1>3, <1>7 DEF LoadsAs
  <2>2. \A k \in DOMAIN gen.dirs : ~ BadFilter(gen.dirs[k].filter)
    BY <1>9 DEF MadeEntry
  <2>3. QED
    BY <1>11, <2>1, <2>2
<1>13. \A e \in Enabled(new.dirs) \union Enabled(new.files) : e.paths # <<>>
  <2>1. \A e \in Enabled(old.dirs) \union Enabled(old.files) : e.paths # <<>>
    BY <1>3, <1>7 DEF LoadsAs
  <2>2. /\ \A k \in DOMAIN gen.dirs : gen.dirs[k].paths # <<>>
        /\ \A k \in DOMAIN gen.files : gen.files[k].paths # <<>>
    BY <1>9 DEF MadeEntry
  <2>3. \A e \in Enabled(new.dirs) : e.paths # <<>>
    BY <1>11, <2>1, <2>2
  <2>4. \A e \in Enabled(new.files) : e.paths # <<>>
    BY <1>11, <2>1, <2>2
  <2>5. QED
    BY <2>3, <2>4
<1>14. Enabled(new.dirs) # {} \/ Enabled(new.files) # {}
  BY <1>3, <1>7, <1>11 DEF LoadsAs
<1>15. \A r \in Enabled(new.renderers) : CompileRenderer(r, new.matchers)
  <2>1. \A r \in Enabled(old.renderers) : CompileRenderer(r, old.matchers)
    BY <1>3, <1>7 DEF LoadsAs
  <2>2. \A k \in DOMAIN gen.renderers : CompileRenderer(gen.renderers[k], old.matchers)
    BY <1>9 DEF CompileRenderer
  <2>3. QED
    BY <1>5, <1>11, <2>1, <2>2
<1>16. LoadsAs(new)
  BY <1>3, <1>5, <1>7, <1>10, <1>12, <1>13, <1>14, <1>15 DEF LoadsAs
<1>17. Loads(new)
  BY <1>6, <1>16, LoadsIs
<1>18. QED
  BY <1>17 DEF new

\* No two entries have the same identifier.
Apart(new) ==
  LET entries == new.dirs \o new.files
  IN  IsInjective([i \in DOMAIN entries |-> entries[i].id])

\* What the catalog makes loads, if there is anything in it.
LEMMA GeneratedLoads ==
  ASSUME NumeralsDiffer, NEW gen, IsGenerated(gen), gen.dirs \o gen.files # <<>>
  PROVE  Loads(gen) /\ Apart(gen)
<1> DEFINE entries == gen.dirs \o gen.files
           n == Len(gen.dirs)
           m == Len(gen.files)
           ids == [i \in DOMAIN entries |-> entries[i].id]
<1>1. IsDocument(gen)
  BY DEF IsGenerated
<1>2. IsSequence(gen.dirs) /\ IsSequence(gen.files)
  BY <1>1 DEF IsDocument
<1>3. n \in Nat /\ m \in Nat /\ DOMAIN gen.dirs = 1 .. n /\ DOMAIN gen.files = 1 .. m
  BY <1>2, SequenceIs
<1>4. /\ IsSequence(entries) /\ DOMAIN entries = 1 .. n + m /\ Len(entries) = n + m
      /\ \A i \in 1 .. n : entries[i] = gen.dirs[i]
      /\ \A i \in 1 .. m : entries[n + i] = gen.files[i]
  <2> DEFINE s == gen.dirs
             t == gen.files
             both == s \o t
  <2>1. IsSequence(s) /\ IsSequence(t)
    BY <1>2
  <2> HIDE DEF s, t
  <2>2. /\ IsSequence(both) /\ DOMAIN both = 1 .. Len(s) + Len(t) /\ Len(both) = Len(s) + Len(t)
        /\ \A i \in 1 .. Len(s) : both[i] = s[i]
        /\ \A i \in 1 .. Len(t) : both[Len(s) + i] = t[i]
    BY <2>1, ConcatIs
  <2>3. QED
    BY <2>2 DEF s, t
<1>5. n + m # 0
  <2>1. Len(<<>>) = 0
    BY EmptyIs
  <2> HIDE DEF entries
  <2>2. CASE n + m = 0
    <3>1. entries = <<>>
      BY <1>4, <2>2, EmptySeq, SequenceIs
    <3>2. QED
      BY <3>1 DEF entries
  <2>3. QED
    BY <2>2
<1>6. /\ \A k \in DOMAIN gen.dirs : MadeEntry(gen.dirs[k])
      /\ \A k \in DOMAIN gen.files : MadeEntry(gen.files[k])
  <2>1. /\ \A k \in DOMAIN gen["dirs"] : MadeEntry(gen["dirs"][k])
        /\ \A k \in DOMAIN gen["files"] : MadeEntry(gen["files"][k])
    BY DEF IsGenerated
  <2>2. QED
    BY <2>1
<1>7. \A i \in DOMAIN gen.renderers :
        gen.renderers[i].matcher = "" /\ CompileRenderer(gen.renderers[i], <<>>)
  BY DEF IsGenerated
<1>8. /\ \A i, j \in DOMAIN gen.dirs : i # j => gen.dirs[i].id # gen.dirs[j].id
      /\ \A i, j \in DOMAIN gen.files : i # j => gen.files[i].id # gen.files[j].id
      /\ \A i \in DOMAIN gen.dirs, j \in DOMAIN gen.files : gen.dirs[i].id # gen.files[j].id
  <2>1. \A k, l \in {"dirs", "files"} : \A i \in DOMAIN gen[k], j \in DOMAIN gen[l] :
          k # l \/ i # j => gen[k][i].id # gen[l][j].id
    BY DEF IsGenerated
  <2>2. /\ \A i, j \in DOMAIN gen["dirs"] : i # j => gen["dirs"][i].id # gen["dirs"][j].id
        /\ \A i, j \in DOMAIN gen["files"] : i # j => gen["files"][i].id # gen["files"][j].id
        /\ \A i \in DOMAIN gen["dirs"], j \in DOMAIN gen["files"] :
             gen["dirs"][i].id # gen["files"][j].id
    BY <2>1
  <2>3. QED
    BY <2>2
<1> HIDE DEF entries, n, m
<1>9. ~ Repeats(gen.dirs) /\ ~ Repeats(gen.files)
  BY <1>6, <1>8 DEF Repeats, IdOf, MadeEntry
<1>10. \A e \in Enabled(gen.dirs) : ~ BadFilter(e.filter)
  BY <1>6 DEF Enabled, MadeEntry
<1>11. \A e \in Enabled(gen.dirs) \union Enabled(gen.files) : e.paths # <<>>
  BY <1>6 DEF Enabled, MadeEntry
<1>12. Enabled(gen.dirs) # {} \/ Enabled(gen.files) # {}
  <2>1. n # 0 \/ m # 0
    BY <1>3, <1>5
  <2>2. CASE n # 0
    <3>1. 1 \in DOMAIN gen.dirs
      BY <1>3, <2>2
    <3>2. gen.dirs[1] \in Enabled(gen.dirs)
      BY <1>6, <3>1 DEF Enabled, MadeEntry
    <3>3. QED
      BY <3>2
  <2>3. CASE m # 0
    <3>1. 1 \in DOMAIN gen.files
      BY <1>3, <2>3
    <3>2. gen.files[1] \in Enabled(gen.files)
      BY <1>6, <3>1 DEF Enabled, MadeEntry
    <3>3. QED
      BY <3>2
  <2>4. QED
    BY <2>1, <2>2, <2>3
<1>13. \A r \in Enabled(gen.renderers) : CompileRenderer(r, gen.matchers)
  BY <1>7 DEF Enabled, CompileRenderer
<1>14. ~ gen.unknown /\ gen.filter = {} /\ gen.mutes = <<>>
  BY DEF IsGenerated
<1>15. ~ BadFilter(gen.filter) /\ DOMAIN gen.mutes = {}
  BY <1>14, NoBadFilter, EmptyIs
<1>16. LoadsAs(gen)
  BY <1>9, <1>10, <1>11, <1>12, <1>13, <1>14, <1>15 DEF LoadsAs
<1>17. ASSUME NEW i \in DOMAIN entries, NEW j \in DOMAIN entries, i # j
       PROVE  entries[i].id # entries[j].id
  <2>1. \A k \in DOMAIN entries : k \in 1 .. n \/ (k - n \in 1 .. m /\ n + (k - n) = k)
    BY <1>3, <1>4
  <2>2. ASSUME NEW k \in 1 .. m, NEW l \in 1 .. m, i = n + k, j = n + l
        PROVE  entries[i].id # entries[j].id
    <3>1. k # l
      BY <1>17, <2>2
    <3>2. gen.files[k].id # gen.files[l].id
      BY <1>3, <1>8, <3>1
    <3>3. entries[i] = gen.files[k] /\ entries[j] = gen.files[l]
      BY <1>4, <2>2
    <3>4. QED
      BY <3>2, <3>3
  <2>3. ASSUME NEW k \in 1 .. n, NEW l \in 1 .. m
        PROVE  entries[k].id # entries[n + l].id
    <3>1. gen.dirs[k].id # gen.files[l].id
      BY <1>3, <1>8
    <3>2. entries[k] = gen.dirs[k] /\ entries[n + l] = gen.files[l]
      BY <1>4
    <3>3. QED
      BY <3>1, <3>2
  <2>4. CASE i \in 1 .. n /\ j \in 1 .. n
    BY <1>3, <1>4, <1>8, <1>17, <2>4
  <2>5. QED
    BY <2>1, <2>2, <2>3, <2>4
<1>18. Apart(gen)
  BY <1>17 DEF Apart, IsInjective, entries
<1>19. Loads(gen)
  BY <1>1, <1>16, LoadsIs
<1>20. QED
  BY <1>18, <1>19

-----------------------------------------------------------------------------
\* Nothing is to be written at first.
LEMMA KeepsInit == Init => InitKeepsLoading
BY DEF Init, InitKeepsLoading

\* What is to be written was read so.
LEMMA KeepsNext ==
  ASSUME NumeralsDiffer
  PROVE  Whole /\ InitKeepsLoading /\ [Next]_vars => InitKeepsLoading'
<1> SUFFICES ASSUME Whole, InitKeepsLoading, [Next]_vars
             PROVE  InitKeepsLoading'
  OBVIOUS
<1> DEFINE Keeps(old, new) ==
             IF old = Absent
             THEN new.dirs \o new.files # <<>> => Loads(new) /\ Apart(new)
             ELSE /\ IsPrefix(old.dirs, new.dirs) /\ IsPrefix(old.files, new.files)
                  /\ IsPrefix(old.renderers, new.renderers)
                  /\ Loads([old EXCEPT !.unknown = FALSE]) => Loads(new)
<1>1. InitKeepsLoading <=> (init.pc \in {"create", "write"} => Keeps(init.old, init.new))
  BY DEF InitKeepsLoading, Loads, Apart
<1>2. InitKeepsLoading' <=> (init'.pc \in {"create", "write"} => Keeps(init'.old, init'.new))
  BY DEF InitKeepsLoading, Loads, Apart
<1>3. ASSUME NEW names \in Selections, NEW merge, InitRead(names, merge)
      PROVE  InitKeepsLoading'
  <2>1. PICK gen, old :
          /\ IsGenerated(gen)
          /\ old = Absent \/ IsDocument(old)
          /\ init' = [pc |-> "create", old |-> old,
                      new |-> IF old = Absent THEN gen ELSE MergeFiles(old, gen)]
    BY <1>3, ReadIs
  <2>2. CASE old = Absent
    <3>1. init'.old = Absent /\ init'.new = gen
      BY <2>1, <2>2
    <3>2. Keeps(Absent, gen)
      BY <2>1, GeneratedLoads
    <3> HIDE DEF Keeps
    <3>3. QED
      BY <1>2, <3>1, <3>2
  <2>3. CASE old # Absent
    <3> DEFINE new == MergeFiles(old, gen)
    <3>1. init'.old = old /\ init'.new = new
      BY <2>1, <2>3
    <3>2. IsDocument(old) /\ IsDocument(gen)
      BY <2>1, <2>3 DEF IsGenerated
    <3>3. /\ new.dirs = NewOnly(old.dirs, gen.dirs, "id")
          /\ new.files = NewOnly(old.files, gen.files, "id")
          /\ new.renderers = NewOnly(old.renderers, gen.renderers, "name")
      BY <3>2 DEF MergeFiles, IsDocument, EmptyDocument
    <3>4. Loads([old EXCEPT !.unknown = FALSE]) => Loads(new)
      BY <2>1, <3>2, MergedLoads
    <3> HIDE DEF new
    <3>5. /\ IsSequence(old.dirs) /\ IsSequence(gen.dirs)
          /\ IsSequence(old.files) /\ IsSequence(gen.files)
          /\ IsSequence(old.renderers) /\ IsSequence(gen.renderers)
      BY <3>2 DEF IsDocument
    <3>6. /\ IsPrefix(old.dirs, new.dirs) /\ IsPrefix(old.files, new.files)
          /\ IsPrefix(old.renderers, new.renderers)
      BY <3>3, <3>5, NewOnlyKeeps
    <3>7. Keeps(old, new)
      BY <2>3, <3>4, <3>6
    <3> HIDE DEF Keeps
    <3>8. QED
      BY <1>2, <3>1, <3>7
  <2>4. QED
    BY <2>2, <2>3
<1>4. CASE InitCreate
  <2>1. init.pc = "create" /\ init' = [init EXCEPT !.pc = "write"]
    BY <1>4 DEF InitCreate
  <2>2. init'.old = init.old /\ init'.new = init.new
    BY <2>1 DEF Whole
  <2> HIDE DEF Keeps
  <2>3. QED
    BY <1>1, <1>2, <2>1, <2>2
<1>5. CASE InitWrite
  <2>1. init.pc = "write" /\ init' = [init EXCEPT !.pc = "done"]
    BY <1>5 DEF InitWrite
  <2>2. init'.pc = "done"
    BY <2>1 DEF Whole
  <2> HIDE DEF Keeps
  <2>3. QED
    BY <1>2, <2>2
<1>6. CASE UNCHANGED init
  <2> HIDE DEF Keeps
  <2>1. QED
    BY <1>1, <1>2, <1>6
<1>7. ASSUME NEW p, NEW content, Edit(p, content)
      PROVE  UNCHANGED init
  BY <1>7 DEF Edit
<1>8. CASE Start \/ StartWatch \/ PumpTake \/ PumpResolve \/ PumpRead
  BY <1>6, <1>8 DEF Start, StartWatch, PumpTake, PumpResolve, PumpRead
<1>9. CASE UNCHANGED vars
  BY <1>6, <1>9 DEF vars
<1> HIDE DEF Keeps
<1>10. QED
  BY <1>3, <1>4, <1>5, <1>6, <1>7, <1>8, <1>9 DEF Next

\* Whatever catalog and file there are, what `log-listener init' writes loads, with an
\* identifier of its own for each group, and what it merges into a file keeps the
\* file's groups and renderers, and loads if the file did (resolve.go, emit.go).
\* That the numerals of different numbers differ is what ToString is defined to do
\* by TLC, and fmt.Sprintf by Go, and is nothing that the provers know of.
THEOREM WhatInitWritesLoads ==
  ASSUME NumeralsDiffer
  PROVE  Spec => []InitKeepsLoading
<1>1. Whole /\ InitKeepsLoading /\ [Next]_vars => InitKeepsLoading'
  BY KeepsNext
<1>2. QED
  BY WholeInit, WholeNext, KeepsInit, <1>1, PTL DEF Spec
=============================================================================
