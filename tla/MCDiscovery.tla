---------------------------- MODULE MCDiscovery ----------------------------
(* A tree of two directories below a root, and configurations of each kind. *)
EXTENDS Discovery

r == <<"r">>
MCDirs == {r, <<"r", "a">>, <<"r", "a", "s">>}
MCFiles == {<<"r", "a", "f">>, <<"r", "a", "s", "f">>, <<"r", "a", "s", "g">>, <<"r", "..f">>}
MCDotted == {"..f"}

Any == {"f", "g", "..f"}
Config(groups, global) == [groups |-> groups, global |-> global]
DirGroup(id, pat, recursive, names) ==
  [id |-> id, kind |-> "dir", paths |-> {pat}, recursive |-> recursive, names |-> names]
FileGroup(id, pat) ==
  [id |-> id, kind |-> "file", paths |-> {pat}, recursive |-> FALSE, names |-> Any]

Root == <<{"r"}>>
Star == <<{"r"}, {"a", "b"}>>
StarSub == <<{"r"}, {"a", "b"}, {"s"}>>
StarFile == <<{"r"}, {"a", "b"}, {"f"}>>

Deep == Config(<<DirGroup("deep", Root, TRUE, Any)>>, {"f"})
Low == Config(<<DirGroup("low", <<{"r"}, {"a"}>>, TRUE, Any)>>, {"f"})
DeepG == Config(<<DirGroup("deep", Root, TRUE, {"g"})>>, Any)
Multi == Config(<<DirGroup("multi", StarSub, FALSE, Any)>>, Any)
Overlap == Config(<<FileGroup("glob", StarFile), DirGroup("sub", StarSub, FALSE, {"f"}),
                    DirGroup("rest", Root, TRUE, Any)>>, Any)
DeepStar == Config(<<DirGroup("deep", Star, TRUE, Any)>>, Any)
Twins == <<Config(<<FileGroup("one", StarFile)>>, Any), Config(<<FileGroup("two", StarFile)>>, Any)>>

Scenario(configs, tree0, paths, early, removal) ==
  [configs |-> configs, tree |-> tree0, paths |-> paths, early |-> early,
   removal |-> removal]

A == <<"r", "a">>
Plain == (MCDirs \union MCFiles) \ {<<"r", "..f">>}

MCScenarios ==
  { Scenario(<<Overlap, Low>>, {r}, Plain, FALSE, FALSE),
    Scenario(<<Multi>>, {r}, Plain, TRUE, FALSE),
    Scenario(<<Deep, DeepG>>, {r, A}, Plain, TRUE, FALSE),
    Scenario(Twins, {r}, {A, <<"r", "a", "f">>}, TRUE, TRUE),
    Scenario(<<DeepStar>>, {r, A}, {<<"r", "a", "s">>, <<"r", "a", "f">>, <<"r", "a", "s", "f">>}, TRUE, FALSE),
    Scenario(<<Overlap>>, {r}, {A, <<"r", "a", "s">>, <<"r", "a", "s", "f">>, <<"r", "..f">>}, FALSE, TRUE) }

\* For SubdirFilesAreTailed, which is false.
MCSubdir == { Scenario(<<DeepStar>>, {r, A}, Plain, FALSE, FALSE) }
=============================================================================
