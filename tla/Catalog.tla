------------------------------- MODULE Catalog -------------------------------
(***************************************************************************)
(* `log-listener init': the templates of internal/catalog, turned into a   *)
(* configuration file (Resolve), and merged into one that exists           *)
(* (config.MergeFiles), as operators.                                      *)
(*                                                                         *)
(* A name and an identifier are sequences of words, which the code joins   *)
(* by dashes, so that <<"a">> with the source <<"b">> and <<"a", "b">>     *)
(* make the same identifier.  A path is a sequence of words as well, in    *)
(* which "{product}" stands for the product.                               *)
(***************************************************************************)
EXTENDS ConfigLoad

CONSTANTS
  Lower,   \* the words in lower case
  Missing  \* paths that match nothing on this disk

Fold(name) == [i \in DOMAIN name |-> Lower[name[i]]]

-----------------------------------------------------------------------------
(* A catalog has apps, bundles of apps, fragments and renderers.            *)

\* An exact name before one in another case, a bundle before an app; of several
\* that differ in case only, any (the code looks through a Go map).
ResolveName(cat, name) ==
  LET like(d) == {n \in d : Fold(n) = Fold(name)}
      bundles == DOMAIN cat.bundles
      apps    == DOMAIN cat.apps
  IN IF name \in bundles THEN {[bundle |-> TRUE, name |-> name]}
     ELSE IF name \in apps THEN {[bundle |-> FALSE, name |-> name]}
     ELSE IF like(bundles) # {} THEN {[bundle |-> TRUE, name |-> n] : n \in like(bundles)}
     ELSE {[bundle |-> FALSE, name |-> n] : n \in like(apps)}

\* Bundles opened, each app once, in the order asked for.
ExpandNames(cat, names) ==
  LET add(out, n)    == IF Contains(out, n) THEN out ELSE Append(out, n)
      member(out, n) == {add(out, r.name) : r \in {x \in ResolveName(cat, n) : ~ x.bundle}}
      open(out, r)   == IF r.bundle
                        THEN FoldLeft(LAMBDA outs, n : UNION {member(o, n) : o \in outs},
                                      {out}, cat.bundles[r.name])
                        ELSE {add(out, r.name)}
      expand(out, n) == UNION {open(out, r) : r \in ResolveName(cat, n)}
  IN FoldLeft(LAMBDA outs, n : UNION {expand(o, n) : o \in outs}, {<<>>}, names)

BaseID(app, product, source) ==
  app \o (IF product = <<>> \/ Fold(product) = Fold(app) THEN <<>> ELSE Fold(product))
      \o (IF source \in {<<>>, <<"main">>} THEN <<>> ELSE source)

\* Mutant of GroupID: one collision is reckoned with.
GroupIDSecond(app, product, source, seen) ==
  LET id == BaseID(app, product, source)
  IN IF id \in seen THEN Append(id, "2") ELSE id

\* App, product and source, and a number if that is taken.
GroupID(app, product, source, seen) ==
  LET id      == BaseID(app, product, source)
      nth(n)  == IF n = 1 THEN id ELSE Append(id, ToString(n))
      free(n) == nth(n) \notin seen
  IN nth(CHOOSE n \in 1 .. Cardinality(seen) + 1 :
           free(n) /\ \A k \in 1 .. n - 1 : ~ free(k))

\* The locations of a source on this system that exist or, if none does, the
\* first; a source without any gives no group.
Picked(source, product) ==
  LET locations == [i \in DOMAIN source.locations |->
                      [j \in DOMAIN source.locations[i] |->
                         IF source.locations[i][j] = "{product}" THEN product
                         ELSE source.locations[i][j]]]
      exist     == Select(locations, LAMBDA p : p \notin Missing)
  IN IF exist # <<>> \/ locations = <<>> THEN exist ELSE SubSeq(locations, 1, 1)

\* made: the file so far and the identifiers in it; s: a source as it is used.
EmitSource(made, s) ==
  LET paths == Picked(s.source, s.product)
      id    == GroupID(s.app, IF s.product = "" THEN <<>> ELSE <<s.product>>,
                       s.source.id, made.seen)
      entry == [id |-> id, paths |-> paths, recursive |-> FALSE,
                filter |-> IF s.source.file THEN {} ELSE s.source.filter,
                disabled |-> FALSE, off |-> FALSE]
  IN IF paths = <<>> THEN made
     ELSE [seen |-> made.seen \union {id},
           doc |-> IF s.source.file
                   THEN [made.doc EXCEPT !.files = Append(@, entry)]
                   ELSE [made.doc EXCEPT !.dirs = Append(@, entry)]]

\* What an app uses: the sources of its fragments, then its own.
UsesOf(cat, app) ==
  LET asUsed(product, sources) ==
        [i \in DOMAIN sources |->
           [app |-> app, product |-> product, source |-> sources[i]]]
  IN FoldLeft(LAMBDA us, u : us \o asUsed(u.product, cat.fragments[u.frag]), <<>>,
              cat.apps[app].use)
     \o asUsed("", cat.apps[app].sources)

Resolve(cat, names) ==
  LET known(apps)  == \A i \in DOMAIN apps :
                        /\ \A u \in ToSet(cat.apps[apps[i]].use) : Has(cat.fragments, u.frag)
                        /\ ToSet(cat.apps[apps[i]].renderers) \subseteq DOMAIN cat.renderers
      uses(apps)   == FoldLeft(LAMBDA us, a : us \o UsesOf(cat, a), <<>>, apps)
      groups(apps) == FoldLeft(EmitSource, [seen |-> {}, doc |-> EmptyDocument],
                               uses(apps)).doc
      wanted(apps) == FoldLeft(LAMBDA rs, a :
                        FoldLeft(LAMBDA out, r : IF Contains(out, r) THEN out
                                                 ELSE Append(out, r),
                                 rs, cat.apps[a].renderers), <<>>, apps)
  IN {[groups(apps) EXCEPT
         !.renderers = [i \in DOMAIN wanted(apps) |-> cat.renderers[wanted(apps)[i]]],
         !.set = cat.defaults] : apps \in {a \in ExpandNames(cat, names) : known(a)}}

-----------------------------------------------------------------------------
\* Entries as they are, then the new ones that none of them is called like.
NewOnly(old, new, key) ==
  FoldLeft(LAMBDA out, e :
             IF \E i \in DOMAIN out : out[i][key] = e[key] THEN out ELSE Append(out, e),
           old, new)

Section(setting) == IF setting = "tui" THEN "tui" ELSE "output"

\* The settings of a section that is not there.
NewSections(old, new) ==
  [k \in {n \in DOMAIN new : \A o \in DOMAIN old : Section(o) # Section(n)} |-> new[k]]

\* Keys that the program does not know are not read, and so not written back.
MergeFiles(existing, gen) ==
  [existing EXCEPT
     !.dirs = NewOnly(@, gen.dirs, "id"),
     !.files = NewOnly(@, gen.files, "id"),
     !.renderers = NewOnly(@, gen.renderers, "name"),
     !.set = @ @@ NewSections(@, gen.set),
     !.unknown = FALSE]
=============================================================================
