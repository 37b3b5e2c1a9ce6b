---------------------------- MODULE MCCheckCache ----------------------------
(* Small instances of CheckCache for TLC: a requires m, which is b, or     *)
(* ambiguous once c is there too, and b requires n, which is d.  What a    *)
(* declares is a contract that b is held to.  b itself does not see c.     *)
EXTENDS CheckCache, TLC

CONSTANTS a, b, c, d, config, leaf, asksM, asksN, m, n, all, some

MCFiles == {a, b, c, d, config}
MCAsks == leaf :> {} @@ asksM :> {m} @@ asksN :> {n}
MCOffers == [f \in MCFiles |-> m :> (IF f = b THEN {b} ELSE {b, c}) @@ n :> {d}]
MCHeldTo == [f \in MCFiles |-> IF f = b THEN a ELSE None]
MCWalk == all :> <<a, b>> @@ some :> <<b>>

MCMayHold == a :> {asksM, leaf} @@ b :> {asksN, None} @@ c :> {leaf, None}
               @@ d :> {leaf, asksM} @@ config :> {leaf, None}
MCWorld == a :> asksM @@ b :> asksN @@ c :> None @@ d :> leaf @@ config :> leaf
MCFirstWorlds == {MCWorld, [MCWorld EXCEPT ![d] = None, ![config] = None]}

\* Processes differ in nothing but their names, and so do builds.
RunSymmetry == Permutations(Runs) \union Permutations(Builds)
=============================================================================
