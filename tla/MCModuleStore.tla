---- MODULE MCModuleStore ----
(* Projects small enough to check in every order.                          *)
EXTENDS ModuleStore, TLC

MCSources == 1..4
MCNames == 1..4
MCDirs == {"a", "b"}
Here == [a |-> [n \in MCNames |-> n], b |-> [n \in MCNames |-> Nil]]
Sorted(S) == SetToSortSeq(S, <)

\* Every file under its own number, requiring what is in the graph.
Project(graph, decl, uses) ==
    [find |-> Here, reqs |-> [f \in MCSources |-> Sorted(graph[f])], decl |-> decl, uses |-> uses]

Below(graph, f) ==
    LET two == graph[f] \cup UNION {graph[g] : g \in graph[f]}
    IN  two \cup UNION {graph[g] : g \in two}

\* No file is reached along two ways.
Tree(graph) == \A f \in MCSources : \A g, h \in graph[f] :
                  g # h => ({g} \cup Below(graph, g)) \cap ({h} \cup Below(graph, h)) = {}

\* The file numbers rise along the requires: no cycle.
Graphs4 == {g \in [MCSources -> SUBSET MCSources] : \A f \in MCSources : \A h \in g[f] : h > f}

\* One global, declared by one file; a file that does not stand on its declarer
\* reads it only where nobody requires the file.
Declared(d) == [f \in MCSources |-> IF f = d THEN Globals ELSE {}]
Used(U) == [f \in MCSources |-> IF f \in U THEN Globals ELSE {}]
WellUsed(graph, d, U) ==
    \A f \in U : d \in {f} \cup Below(graph, f) \/ \A h \in MCSources : f \notin graph[h]

Trees == {Project(g, Declared(d), Used(U)) :
            <<g, d, U>> \in {t \in {g \in Graphs4 : Tree(g)} \X {3, 4} \X SUBSET MCSources :
                               WellUsed(t[1], t[2], t[3]) /\ t[3] \subseteq {1, 2}}}

\* Two directories, each with a `main` (name 1) and a module of the same name (2);
\* the second module reads a global nobody declares, and the first main a name nobody has.
TwoDirs == {[find |-> [a |-> <<1, 2, Nil, Nil>>, b |-> <<3, 4, Nil, Nil>>],
             reqs |-> <<<<2, 3>>, <<>>, <<2>>, <<>>>>,
             decl |-> Declared(2), uses |-> Used({1, 4})]}

\* 1 requires 2, which declares the global, and 3, which requires 2 too; 4 requires 1
\* and 5 requires 3 alone.
Files5 == 1..5
Diamonds == {[find |-> [d \in MCDirs |-> [n \in Files5 |-> IF d = "a" THEN n ELSE Nil]],
              reqs |-> <<<<2, 3>>, <<>>, <<2>>, <<1>>, <<3>>>>,
              decl |-> [f \in Files5 |-> IF f = 2 THEN Globals ELSE {}],
              uses |-> [f \in Files5 |-> IF f = 5 THEN Globals ELSE {}]]}
\* Any graph without a cycle, where each of two files reads a global nobody declares.
Dags == {Project(g, Declared(Nil), Used({2, 4})) : g \in {h \in Graphs4 : ~Tree(h)}}

\* 1 and 2 require each other, 1 requires 3 too, and 4 requires 2.
Cycles == {Project((1 :> {2, 3}) @@ (2 :> {1}) @@ (3 :> {}) @@ (4 :> {2}), Declared(Nil), Used({3}))}
\* 4 requires 2, which declares the global, and reads it; 3, in the directory of 2, requires
\* 2 under another name.
Nested == {[find |-> [a |-> <<Nil, 2, 4, Nil>>, b |-> <<3, Nil, Nil, 2>>],
            reqs |-> <<<<>>, <<>>, <<4>>, <<2>>>>, decl |-> Declared(2), uses |-> Used({4})]}
\* 1 requires 2, which requires 3; in the other directory 4 requires a 3 of its own.
Moved == {[find |-> [a |-> <<1, 2, 3, Nil>>, b |-> <<4, Nil, 5, Nil>>],
           reqs |-> <<<<2>>, <<3>>, <<>>, <<3>>, <<>>>>, decl |-> [f \in Files5 |-> {}],
           uses |-> [f \in Files5 |-> IF f = 3 THEN Globals ELSE {}]]}
\* 4 requires 1, which requires 2; the other directory has the same 1 and no 2.
Parted == {[find |-> [a |-> <<1, 2, Nil, 4>>, b |-> <<1, Nil, Nil, Nil>>],
            reqs |-> <<<<2>>, <<>>, <<>>, <<1>>>>, decl |-> Declared(Nil), uses |-> Used({})]}
MCProjects == Trees \cup Dags \cup TwoDirs
====
