-------------------------------- MODULE MCPkg --------------------------------
(* Small instances of Pkg for TLC: one terminal, two checks at once.        *)
EXTENDS Pkg, TLC

Symmetry == Permutations(Revisions) \cup Permutations(Checkers)
=============================================================================
