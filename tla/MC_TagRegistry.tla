--------------------------- MODULE MC_TagRegistry ---------------------------
(* Model-checking instance of TagRegistry: two tag names, one bad name,    *)
(* ids 0..3 (1 and 2 allocatable), lists of up to two pairs, and two       *)
(* concurrent tag handlers.                                                *)
EXTENDS TagRegistry, TLC

CONSTANTS a, b, bad, dflt, grav, none, r1, r2, noreq

MCNames == {a, b}
MCBadNames == {bad}
MCMaxTag == 3
MCMaxList == 2
MCRequests == {r1, r2}

=============================================================================
