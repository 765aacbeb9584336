------------------------------ MODULE MCTunUdp ------------------------------
(***************************************************************************)
(* Small instances of the TUN loop: the clock, the datagrams that may still *)
(* open a session and the refusals remembered are bounded.                  *)
(***************************************************************************)
EXTENDS UdpHistory, TLC

CONSTANTS
    MaxTime,        \* bound on the clock
    MaxSessionsEver,\* bound on the sessions opened and the datagrams that may open one
    MaxNoticed      \* bound on the refused flows remembered at once

Bounds ==
    /\ now' <= MaxTime
    /\ nextGeneration' + Cardinality(incoming') + Cardinality(received') <= MaxSessionsEver
    /\ Cardinality(DOMAIN noticed') <= MaxNoticed

MCNext == Next /\ Bounds /\ Busy
MCSpec == BusyInit /\ [][MCNext]_busyVars

\* The loop keeps running.  Its select prefers received packets and returns to
\* itself after a refused one, so this assumes the TUN is not always readable
\* with datagrams that are refused.
FairSpec == MCSpec /\ WF_busyVars(LoopStep /\ Bounds /\ Busy)

\* A session that ended leaves the table: its result is joined, its slot and its
\* share of the socket are freed, also when sessions of the same flow were
\* aborted before and after it.
EndedSessionsLeave ==
    \A g \in 1..MaxSessionsEver :
       (\E k \in tasks : k.generation = g /\ k.state \in Finished)
          ~> ~\E f \in Flow : Current(f, g) /\ phase # "stopped"
=============================================================================
