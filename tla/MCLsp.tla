------------------------------- MODULE MCLsp -------------------------------
EXTENDS Lsp, TLC

CONSTANTS a, b, asksB, plain, other, first, second, refused, torn

\* a requires b, or did; b is one of two texts, or not there.
MCRequires == asksB :> {b} @@ plain :> {} @@ other :> {}
MCMayHold == a :> {asksB} @@ b :> {plain, other, None}
MCFirstDisk == a :> asksB @@ b :> plain
MCUriOrder == <<a, b>>
=============================================================================
