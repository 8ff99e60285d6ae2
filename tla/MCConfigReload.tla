--------------------------- MODULE MCConfigReload ---------------------------
(* Values of the structured constants of ConfigReload for TLC.              *)
EXTENDS ConfigReload

MCBroken == [broken |-> TRUE]
MCAbsent == [absent |-> TRUE]

Entry(id, path) ==
  [id |-> id, paths |-> <<path>>, recursive |-> FALSE, filter |-> {},
   disabled |-> FALSE, off |-> FALSE]
Rule(name, line, matcher) ==
  [name |-> name, line |-> line, matcher |-> matcher, template |-> "t",
   disabled |-> FALSE, off |-> FALSE]
Flag(flag, id, vals) == [flag |-> flag, id |-> id, vals |-> vals]

MCDefaultKeys == [quit |-> {"q"}, clear |-> {"c"}]

\* A file and a directory group of the same identifier as one of the command
\* line, an entry that is disabled and shadows nothing, a renderer by a matcher.
Full ==
  [EmptyDocument EXCEPT
     !.dirs = <<Entry(<<>>, <<"a">>), [Entry(<<"1">>, <<"b">>) EXCEPT !.off = TRUE],
                [Entry(<<"2">>, <<"gone">>) EXCEPT !.disabled = TRUE,
                                                   !.filter = {"name" :> Bad}]>>,
     !.files = <<Entry(<<"1">>, <<"f">>)>>,
     !.filter = {"younger" :> "7d"},
     !.matchers = "json" :> [line_regex |-> "x", name |-> "y"],
     !.mutes = <<[matcher |-> "", inline |-> [path_regex |-> "p"]]>>,
     !.renderers = <<Rule("one", "", "json"), [Rule("two", "x", "") EXCEPT !.off = TRUE]>>,
     !.set = [drop |-> TRUE, color |-> FALSE, sse |-> TRUE]]

\* It would not start: two actions share a key.  A key nobody knows of.
BadKeys ==
  [EmptyDocument EXCEPT !.dirs = <<Entry(<<"1">>, <<"b">>)>>,
                        !.keys = <<[quit |-> {"c"}]>>]
Typo == [Full EXCEPT !.unknown = TRUE]

\* Refused: an identifier twice, a renderer of an unknown matcher, a directory
\* that is not there.
Twice == [Full EXCEPT !.dirs[3].id = <<"1">>]
NoMatcher == [Full EXCEPT !.matchers = <<>>]
Gone == [Full EXCEPT !.dirs[1].paths = <<<<"gone">>>>]

MCDocuments == {Full, BadKeys, NoMatcher}
MCDisks ==
  {[explicit |-> Absent, local |-> Full, home |-> Absent],
   [explicit |-> Absent, local |-> Absent, home |-> Full],
   [explicit |-> Twice, local |-> Typo, home |-> Gone],
   [explicit |-> Full, local |-> EmptyDocument, home |-> Absent]}

MCCommandLines ==
  {<<>>,
   <<Flag("-r", <<"1">>, <<[key |-> "name", val |-> "n"]>>), Flag("-d", <<"1">>, <<<<"a">>>>),
     Flag("-R", <<>>, <<>>), [flag |-> "sse", val |-> ":1"]>>,
   <<Flag("-f", <<>>, <<<<"f">>>>), [flag |-> "--config"]>>}

\* An app whose own source takes the identifier that the next one's makes, and
\* a fragment used for a product; the second app's directory is not there.
Source(id, paths) == [id |-> id, file |-> FALSE, filter |-> {}, locations |-> paths]
MCTemplates ==
  [apps |->
     <<"go">> :> [use |-> <<[frag |-> "ide", product |-> "Go"]>>, renderers |-> <<"json">>,
                  sources |-> <<Source(<<"x">>, <<<<"a">>>>), Source(<<"x">>, <<<<"b">>>>)>>] @@
     <<"go", "x">> :> [use |-> <<[frag |-> "ide", product |-> "Idea"]>>,
                       renderers |-> <<"json">>,
                       sources |-> <<Source(<<>>, <<<<"gone">>>>),
                                     [Source(<<"2">>, <<<<"f">>>>) EXCEPT !.file = TRUE]>>],
   bundles |-> <<"all">> :> <<<<"Go">>, <<"go", "x">>>>,
   fragments |-> [ide |-> <<Source(<<"main">>, <<<<"{product}">>, <<"a">>>>)>>],
   renderers |-> [json |-> Rule("one", "x", "")],
   defaults |-> [color |-> TRUE, drop |-> FALSE, tui |-> TRUE]]

MCSelections == {<<<<"GO">>>>, <<<<"go", "x">>, <<"all">>>>}
MCLower == [w \in {"GO", "Go", "go", "x", "all", "Idea", "idea"} |->
              CASE w \in {"GO", "Go"} -> "go" [] w = "Idea" -> "idea" [] OTHER -> w]
MCMissing == {<<"gone">>, <<"Idea">>}
=============================================================================
