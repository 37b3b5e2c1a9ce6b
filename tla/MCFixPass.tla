---- MODULE MCFixPass ----
(* Every way three fixes of one file can overlap and undo each other, and a  *)
(* project whose files hang on each other.                                  *)
EXTENDS FixPass, TLC

MCFiles == {"a", "b", "c"}
MCFindings == 1..6

\* File `a` is rewritten; `b`, which requires it, shows error 4 while `a` holds 3, and
\* the fix of its lint 5 leaves error 6; `c` requires both.
Base == [file |-> [e \in MCFindings |-> IF e > 3 THEN "b" ELSE "a"],
         kind |-> <<"lint", "lint", "lint", "error", "lint", "error">>,
         fix |-> <<"safe", "safe", "unsafe", "none", "safe", "none">>,
         clears |-> [e \in MCFindings |-> {}],
         leaves |-> <<{}, {}, {}, {}, {6}, {}>>,
         overlap |-> {},
         misfit |-> {},
         cause |-> [e \in MCFindings |-> IF e = 4 THEN 3 ELSE None],
         needs |-> [a |-> {}, b |-> {"a"}, c |-> {"a", "b"}],
         own |-> {"a"},
         dirty |-> {},
         text |-> [a |-> {1, 2}, b |-> {}, c |-> {}]]

Both(S) == S \cup {<<p[2], p[1]>> : p \in S}
Pairs == {<<1, 2>>, <<1, 3>>, <<2, 3>>}

\* What each of the three fixes brings in, which overlap, which are errors.
Tangles == {[Base EXCEPT !.kind = k @@ Base.kind,
                         !.leaves = l @@ Base.leaves,
                         !.overlap = Both(o)] :
                k \in [1..3 -> {"error", "lint"}],
                l \in {m \in [1..3 -> SUBSET (1..3)] : \A e \in 1..3 : e \notin m[e]},
                o \in {p \in SUBSET Pairs : <<1, 2>> \in p}}

\* Files that hang on each other, rewritten in every order.
Hanging == {[Base EXCEPT !.own = MCFiles, !.text = [a |-> x, b |-> y, c |-> {}]] :
                x \in SUBSET (1..3), y \in SUBSET {5}}

\* A fix that clears another's finding, one that leaves its own, one that trades an
\* error for another, edits that fit nowhere,
\* a tree that does not parse, files git could not give back.
Odd == {[Base EXCEPT !.clears[1] = {2}, !.overlap = Both({<<1, 2>>})],
        [Base EXCEPT !.leaves[1] = {1}, !.overlap = Both({<<1, 2>>})],
        [Base EXCEPT !.leaves[1] = {1}, !.clears[1] = {2}, !.leaves[2] = {1, 2},
                     !.overlap = Both({<<1, 2>>})],
        [Base EXCEPT !.clears[1] = {2}, !.leaves[1] = {3}, !.kind[2] = "error",
                     !.kind[3] = "error", !.fix[2] = "none"],
        [Base EXCEPT !.misfit = {1, 2}],
        [Base EXCEPT !.leaves[1] = {3}, !.kind[3] = "syntax", !.text["a"] = {1, 3}],
        [Base EXCEPT !.dirty = {"a"}]}
MCPrograms == Tangles \cup Hanging \cup Odd
====
