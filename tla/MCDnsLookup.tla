---------------------------- MODULE MCDnsLookup ----------------------------
(***************************************************************************)
(* Small instances of DnsLookup: up to two servers of a kind, and a bound  *)
(* on the changes of the network.                                          *)
(***************************************************************************)
EXTENDS DnsLookup

CONSTANT MaxNetwork \* bound on the networks

MCNext == LookupNext /\ onNetwork' <= MaxNetwork
MCSpec == LookupInit /\ [][MCNext]_lookupVars

\* Every upstream ends within five seconds, and both timers run out.
MCFairSpec ==
    /\ MCSpec
    /\ WF_lookupVars(GraceEnds)
    /\ \A t \in Type : WF_lookupVars(Progress(t))
=============================================================================
