------------------------------ MODULE MCRunner ------------------------------
(* Small instances of Runner for TLC.                                      *)
EXTENDS Runner, TLC

\* The requests are interchangeable: only their order of use tells them apart.
RequestSymmetry == Permutations(Requests)
=============================================================================
