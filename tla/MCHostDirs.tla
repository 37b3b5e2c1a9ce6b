----------------------------- MODULE MCHostDirs -----------------------------
(* A host's directories, and a project with the directories of a contract.  *)
EXTENDS HostDirs, TLC

File(dir, stem, ext) == [dir |-> dir, stem |-> stem, ext |-> ext]
Root(role, dir) == [role |-> role, dir |-> dir]
Module(owner, name, mount, roots) ==
    [owner |-> owner, name |-> name, mount |-> mount, roots |-> roots]

\* for_host: a directory of modules, one of packages, one of declarations with
\* a crate's inside it.
HostModules ==
    << Module("own", "host", <<>>, {}),
       Module("external", "s", <<>>, {Root("source", <<"s">>)}),
       Module("installed", "a", <<"a">>, {Root("source", <<"p", "a">>)}),
       Module("external", "t", <<>>, {Root("decl", <<"t">>)}),
       Module("crate", "c", <<>>, {Root("decl", <<"t", "c">>)}) >>

Host(files, asked) ==
    [modules |-> HostModules, imports |-> <<>>, provided |-> {}, files |-> files, asked |-> asked]

\* Spellings of one name in two modules, and a declaration of it.
Spellings == Host({File(<<"s">>, <<"n">>, "tl"), File(<<"s", "n">>, <<"init">>, "tl"),
                   File(<<"s">>, <<"n">>, "lua"), File(<<"t">>, <<"n">>, "d.tl"),
                   File(<<"t", "c">>, <<"n">>, "d.tl"), File(<<"s", "target">>, <<"n">>, "tl")},
                  {<<"c", "n">>})

\* A flat package, one of the same names beside it, and a module of the package.
Packages == Host({File(<<"p", "a">>, <<"a">>, "tl"), File(<<"p", "a">>, <<"init">>, "lua"),
                  File(<<"s">>, <<"a">>, "lua"), File(<<"s", "a">>, <<"n">>, "tl"),
                  File(<<"p", "a">>, <<"n">>, "d.tl"), File(<<"p", "a", "a">>, <<"a">>, "tl")},
                 {<<"a", "init">>})

\* A file whose name has a dot in it.
Dotted == Host({File(<<"s">>, <<"a", "n">>, "tl"), File(<<"s", "a">>, <<"n">>, "tl")}, {})

\* A project with its tests, and two directories of one contract in its source.
Contracts ==
    [modules |-> << Module("own", "o", <<>>, {Root("source", <<"src">>), Root("test", <<"tests">>),
                                              Root("decl", <<"types">>)}),
                    Module("contract", "x", <<>>, {Root("source", <<"src", "x">>)}),
                    Module("contract", "y", <<>>, {Root("source", <<"src", "y">>)}) >>,
     imports |-> <<>>, provided |-> {},
     files |-> {File(<<"src">>, <<"n">>, "tl"), File(<<"tests">>, <<"n">>, "tl"),
                File(<<"types">>, <<"n">>, "d.tl"), File(<<"src", "x">>, <<"r">>, "tl"),
                File(<<"src", "y">>, <<"r">>, "tl")},
     asked |-> {<<"x", "r">>}]

MCProjects == {Spellings, Packages, Dotted, Contracts}
=============================================================================
