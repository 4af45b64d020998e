----------------------------- MODULE HandleCount -----------------------------
(***************************************************************************)
(* What the tag-manager registry promises its callers (spec 4.4): a        *)
(* handle-counted dictionary per indexer key.  held is the set of callers  *)
(* between a successful GetTagMan and their ReleaseTagMan; open says the   *)
(* dictionary (and the lock on tags.dat) is open.  The first acquirer      *)
(* opens it, every later one shares it, and the release that leaves no     *)
(* holder closes it; a process start forgets every holder.  A failed       *)
(* GetTagMan, and everything a holder does with the dictionary, is a       *)
(* stutter at this level.                                                  *)
(***************************************************************************)
CONSTANT Requests

VARIABLES held, open

hcVars == <<held, open>>

HCInit ==
    /\ held = {}
    /\ open = FALSE

\* A caller obtains a handle; the dictionary is open afterwards.
Acquire(r) ==
    /\ r \notin held
    /\ held' = held \cup {r}
    /\ open' = TRUE

\* A holder gives its handle back; the dictionary stays open exactly while
\* someone still holds it.
Release(r) ==
    /\ r \in held
    /\ held' = held \ {r}
    /\ open' = (held' # {})

\* The process starts again: no holders, nothing open.
Reset ==
    /\ held' = {}
    /\ open' = FALSE

HCNext ==
    \/ \E r \in Requests : Acquire(r) \/ Release(r)
    \/ Reset

HCSpec == HCInit /\ [][HCNext]_hcVars

\* The promise itself: the dictionary is open if and only if some caller
\* holds a handle.
OpenIffHeld == open = (held # {})

=============================================================================
