------------------------------ MODULE MC_TagMan ------------------------------
(***************************************************************************)
(* Model-checking instance of TagMan: two ordinary names, one name that    *)
(* CheckTag rejects, ids 0..3 (so 1 and 2 are allocatable and the cursor   *)
(* wraps after 3), and tag lists of up to two pairs, enough for a list     *)
(* whose second pair conflicts with its first.                             *)
(***************************************************************************)
EXTENDS TagMan, TLC

CONSTANTS a, b, bad, dflt, grav, none

MCNames == {a, b}
MCBadNames == {bad}
MCMaxTag == 3
MCMaxList == 2

\* The two ordinary names play interchangeable roles in every operation.
MCSymmetry == Permutations(MCNames)

=============================================================================
