---------------------------- MODULE MC_ShardStore ----------------------------
(* Instances of ShardStore for TLC: requests on shards named b and b.1.    *)
EXTENDS ShardStore, TLC

CONSTANTS b

\* Three pushes of b and a pull of b: the tracker serialises them and the
\* collision loop gives the pushes b, b.1 and b.2.
ReqsSerial ==
    (1 :> [kind |-> "push", name |-> <<b>>]) @@ (2 :> [kind |-> "push", name |-> <<b>>])
    @@ (3 :> [kind |-> "push", name |-> <<b>>]) @@ (4 :> [kind |-> "pull", name |-> <<b>>])

\* A push of b next to a push of b.1, the name the first one falls back to.
ReqsSuffixed ==
    (1 :> [kind |-> "push", name |-> <<b>>]) @@ (2 :> [kind |-> "push", name |-> <<b>>])
    @@ (3 :> [kind |-> "push", name |-> <<b, 1>>])

\* Three pushes of b where the loop has two candidates.
ReqsExhaust ==
    (1 :> [kind |-> "push", name |-> <<b>>]) @@ (2 :> [kind |-> "push", name |-> <<b>>])
    @@ (3 :> [kind |-> "push", name |-> <<b>>])

\* A push and a pull of b across a process restart.
ReqsCrash ==
    (1 :> [kind |-> "push", name |-> <<b>>]) @@ (2 :> [kind |-> "pull", name |-> <<b>>])
=============================================================================
