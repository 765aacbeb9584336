----------------------------- MODULE MCFakeMap -----------------------------
(***************************************************************************)
(* Small pools and capacities for the fake-IP map.                         *)
(***************************************************************************)
EXTENDS FakeHistory, TLC

CONSTANT MaxStamp   \* bound on the queries of one process

One(net, size) == [v6 \in Families |-> [net |-> net, size |-> size]]
\* IPv4 has a larger pool before the change and a smaller one after it.
DisjointRanges == {[v6 \in Families |-> IF v6 THEN [net |-> 0, size |-> 4] ELSE [net |-> 0, size |-> 8]],
                   [v6 \in Families |-> IF v6 THEN [net |-> 4, size |-> 4] ELSE [net |-> 8, size |-> 4]]}
NestedRanges == {One(0, 8), One(4, 4)}

MCNext == Next /\ map'.stamp <= MaxStamp /\ History
MCSpec == HistoryInit /\ [][MCNext]_historyVars

Symmetry == Permutations(Name \ Unsupported)
=============================================================================
