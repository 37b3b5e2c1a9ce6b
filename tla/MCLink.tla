------------------------------- MODULE MCLink -------------------------------
(* A program with a dependency named in `[imports]`, and one without.       *)
EXTENDS Link, TLC

InDir(dir, stem, ext) == [dir |-> dir, stem |-> <<stem>>, ext |-> ext]
Root(role, dir) == [role |-> role, dir |-> dir]
Own == [owner |-> "own", name |-> "o", mount |-> <<>>,
        roots |-> {Root("source", <<"src">>), Root("test", <<"tests">>), Root("decl", <<"types">>)}]
Installed(d) == [owner |-> "installed", name |-> d, mount |-> <<d>>,
                 roots |-> {Root("source", <<"deps", d>>)}]

Asks(n) == [name |-> n, erased |-> FALSE]
Types(n) == [name |-> n, erased |-> TRUE]
Main == InDir(<<"src">>, "main", "tl")

\* `d` is the dependency's, `l` the project's own `d`; the dependency's modules
\* ask for each other, and its plain Lua for the project's.
Named ==
    (Main :> <<Asks(<<"d">>), Asks(<<"l">>), Asks(<<"u">>)>>) @@
    (InDir(<<"src">>, "u", "tl") :> <<Types(<<"t">>), Asks(<<"d", "v">>)>>) @@
    (InDir(<<"types">>, "u", "d.tl") :> <<>>) @@
    (InDir(<<"types">>, "t", "d.tl") :> <<>>) @@
    (InDir(<<"src">>, "d", "tl") :> <<Asks(<<"u">>)>>) @@
    (InDir(<<"deps", "d">>, "d", "tl") :> <<Asks(<<"d", "v">>)>>) @@
    (InDir(<<"deps", "d">>, "v", "d.tl") :> <<>>) @@
    (InDir(<<"deps", "d">>, "v", "lua") :> <<Asks(<<"u">>), Asks(<<"d">>), Asks(<<"d", "w">>)>>) @@
    (InDir(<<"deps", "d">>, "w", "tl") :> <<>>) @@
    (InDir(<<"tests">>, "u", "tl") :> <<>>)

\* The host has `h`; `w` is plain Lua behind a declaration, `q` is only declared,
\* and so is `d`, unless the dependency is installed.
Hosted ==
    (Main :> <<Asks(<<"w">>), Types(<<"q">>), Asks(<<"u">>)>>) @@
    (InDir(<<"src">>, "w", "lua") :> <<Asks(<<"q">>), Asks(<<"h">>), Asks(<<"d">>)>>) @@
    (InDir(<<"types">>, "w", "d.tl") :> <<>>) @@
    (InDir(<<"types">>, "q", "d.tl") :> <<>>) @@
    (InDir(<<"types">>, "h", "d.tl") :> <<>>) @@
    (InDir(<<"src">>, "h", "tl") :> <<>>) @@
    (InDir(<<"src">>, "u", "tl") :> <<Asks(<<"h">>), Asks(<<"d">>), Asks(<<"x">>)>>) @@
    (InDir(<<"types">>, "d", "d.tl") :> <<>>) @@
    (InDir(<<"deps", "d">>, "init", "tl") :> <<Asks(<<"q">>), Asks(<<"d", "x">>)>>) @@
    (InDir(<<"deps", "d">>, "x", "lua") :> <<Asks(<<"d">>)>>) @@
    (InDir(<<"deps", "d">>, "x", "d.tl") :> <<>>) @@
    (InDir(<<"src">>, "x", "tl") :> <<Asks(<<"main">>)>>)

\* The dependency declares `d.x`, asks for it, and the project has it: so does `u`.
Declared ==
    (Main :> <<Asks(<<"d">>), Asks(<<"u">>)>>) @@
    (InDir(<<"src">>, "u", "tl") :> <<Asks(<<"d", "x">>)>>) @@
    (InDir(<<"src", "d">>, "x", "tl") :> <<>>) @@
    (InDir(<<"deps", "d">>, "init", "tl") :> <<Asks(<<"d", "x">>)>>) @@
    (InDir(<<"deps", "d">>, "x", "d.tl") :> <<>>)

Imports == << [key |-> <<"d">>, own |-> FALSE, to |-> <<"d">>],
              [key |-> <<"l">>, own |-> TRUE, to |-> <<"d">>] >>

Project(imports, requires, provided, hosts, extra) ==
    [modules |-> <<Own, Installed("d")>>, imports |-> imports, provided |-> provided,
     files |-> DOMAIN requires, asked |-> {}, requires |-> requires, entry |-> Main,
     hosts |-> {Plain(n) : n \in provided \cup hosts},
     extra |-> [i \in DOMAIN extra |-> Plain(extra[i])]]

MCProjects == {
    Project(Imports, Named, {}, {}, <<>>),
    Project(<<>>, Hosted, {<<"h">>}, {}, <<<<"x">>>>),
    Project(<<>>, Hosted, {}, {<<"d">>}, <<>>),
    Project(<<>>, Declared, {}, {}, <<>>)}
=============================================================================
