----------------------------- MODULE IosHistory -----------------------------
(***************************************************************************)
(* The iOS tunnel with a history variable: which networks the monitor of   *)
(* the run under way has shown it.  It says what a report may be about,    *)
(* and no action depends on it.                                            *)
(***************************************************************************)
EXTENDS IosTunnel

VARIABLE seen   \* the networks this run was shown by its monitor

seenVars == <<iosVars, seen>>

Remember ==
    seen' = IF core' = "nil" THEN {} ELSE IF due /\ ~due' THEN seen \union {device} ELSE seen

SeenInit == IosInit /\ seen = {}
SeenNext == IosNext /\ Remember
SeenSpec == SeenInit /\ [][SeenNext]_seenVars

\* A report made in a run never reaches the core of another: what a core was told
\* is a network that its own run has seen.
ToldOwnNetwork ==
    core # "nil" /\ reported # <<>> => reported[1] \in seen
=============================================================================
