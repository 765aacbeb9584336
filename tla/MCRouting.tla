----------------------------- MODULE MCRouting -----------------------------
(***************************************************************************)
(* Small instances of Routing: two tags, two networks, and bounds on the   *)
(* versions of the resource files and the filters built.                   *)
(***************************************************************************)
EXTENDS Routing, TLC

CONSTANTS
    MaxVersion, \* bound on the versions of both files together
    MaxFilters, \* bound on the filters built
    Policy      \* tags of the overrides' nameserver-policy

TwoLists == {{"a"}, {"a", "b"}}
NetworkOverride(n) == n
PolicyTags(o) == IF o = "home" THEN Policy ELSE {}

Bounds ==
    /\ disk'["geo"] + disk'["list"] <= MaxVersion
    /\ Cardinality(DOMAIN userAllow') <= MaxFilters

\* Callers of set_network are interchangeable.
Symmetry == Permutations(Reporter)

MCNext == Next /\ Bounds
MCSpec == Init /\ [][MCNext]_vars
=============================================================================
