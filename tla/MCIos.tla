------------------------------- MODULE MCIos -------------------------------
(***************************************************************************)
(* The iOS tunnel for TLC: runs and moves between networks are bounded.    *)
(***************************************************************************)
EXTENDS IosHistory, TLC

CONSTANTS
    MaxRuns,    \* bound on the runs of the tunnel
    MaxMoves    \* bound on the moves between networks, less two for each run ended

VARIABLE moves  \* moves so far

mcVars == <<seenVars, moves>>

MCInit == SeenInit /\ moves = 0

Bounds == epoch' < MaxRuns + 1 /\ UNCHANGED moves /\ Remember

MCNext ==
    \/ StartTunnel /\ epoch < MaxRuns /\ Bounds
    \/ StartFails /\ epoch < MaxRuns /\ Bounds
    \/ StopTunnel /\ Bounds
    \/ CoreStops /\ Bounds
    \/ Prompted /\ Bounds
    \/ Probe /\ Bounds
    \/ HealthCheck /\ Bounds
    \/ PacketCallFails /\ Bounds
    \/ \E p \in Path : Roam(p) /\ moves + 2 * epoch < MaxMoves /\ moves' = moves + 1 /\ Remember

\* iOS answers what it was asked, timers fire, and the queue serves them.
Fairness ==
    /\ WF_mcVars(Prompted /\ Bounds)
    /\ WF_mcVars(Probe /\ Bounds)
    /\ WF_mcVars(HealthCheck /\ Bounds)

MCSpec == MCInit /\ [][MCNext]_mcVars /\ Fairness
=============================================================================
