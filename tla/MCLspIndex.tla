---- MODULE MCLspIndex ----
EXTENDS LspIndex, TLC
(* `a` requires `d`, which in the chain requires `t`. *)
CONSTANTS a, d, t
MCRequires == a :> {d} @@ d :> {}
MCChain == a :> {d} @@ d :> {t} @@ t :> {}
====
