----------------------------- MODULE MCOutbound -----------------------------
(***************************************************************************)
(* Small instances of Outbound: two connections, a bound on time, on the   *)
(* multiplexed connections made and on the networks.                       *)
(***************************************************************************)
EXTENDS Outbound, TLC

CONSTANTS
    MaxTime,    \* bound on the clock
    MaxLinks,   \* bound on the multiplexed connections made
    MaxNetwork  \* bound on the networks

OneLimit == {[maxConnections |-> 1, minStreams |-> 1, maxStreams |-> 0],
             [maxConnections |-> 0, minStreams |-> 0, maxStreams |-> 1]}

Bounds ==
    /\ now' <= MaxTime
    /\ Cardinality(DOMAIN links') <= MaxLinks
    /\ network' <= MaxNetwork

MCNext == OutNext /\ Bounds
MCSpec == OutInit /\ [][MCNext]_<<vars, outVars>>

\* No action tells one connection from another.
Symmetry == Permutations(Conns)
=============================================================================
