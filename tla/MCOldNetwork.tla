---------------------------- MODULE MCOldNetwork ---------------------------
(***************************************************************************)
(* MCOutbound with a history of the network each dial could count on.      *)
(***************************************************************************)
EXTENDS MCOutbound

VARIABLES
    settled,    \* the network the last finished network_changed was called for
    counted     \* each dial: the value of `settled' when it began

oldVars == <<vars, outVars, settled, counted>>

OldInit == OutInit /\ settled = 1 /\ counted = [c \in Conns |-> 0]

History ==
    /\ settled' = IF changing # "no" /\ changing' = "no" THEN network ELSE settled
    /\ counted' = [c \in Conns |-> IF dial[c].at = "idle" /\ dial'[c].at # "idle" THEN settled ELSE counted[c]]

OldNext == MCNext /\ History
OldSpec == OldInit /\ [][OldNext]_oldVars

\* "A network change also drops pooled gRPC and Hysteria2 connections, so new
\* connections do not wait on a link bound to the old network."
NotOnOldNetwork ==
    \A c \in Conns : dial[c].link # None => links[dial[c].link].net >= counted[c]
=============================================================================
