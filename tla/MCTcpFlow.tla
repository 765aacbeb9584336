----------------------------- MODULE MCTcpFlow -----------------------------
(***************************************************************************)
(* Small instances of TcpFlow: a bounded number of connections, bytes each *)
(* way and packets on the wire.                                            *)
(***************************************************************************)
EXTENDS TcpFlow

CONSTANTS
    MaxConnections, \* bound on the uses of the five-tuple
    MaxUp, MaxDown, \* bounds on the bytes sent each way
    MaxWire         \* bound on the packets on the wire

Bounds ==
    /\ client'.connection <= MaxConnections
    /\ client'.sent <= MaxUp
    /\ flow' # NoFlow => flow'.wrote <= MaxDown
    /\ Len(wire') <= MaxWire

MCNext == Next /\ Bounds
MCSpec == Init /\ [][MCNext]_vars

\* The loop runs and every packet and byte arrives: the client acknowledges
\* what it gets.
FairSpec ==
    /\ MCSpec
    /\ WF_vars(LoopStep /\ Bounds)
    /\ SF_vars(Receive /\ Bounds)
    /\ WF_vars(DeliverData) /\ WF_vars(DeliverFin) /\ WF_vars(Connected /\ Bounds)
    /\ WF_vars(ResetSeen)

\* However a session ends, the client hears of it: by a FIN after the bytes
\* still queued, or by a reset.
ClientHears ==
    \A c \in 1..MaxConnections :
       (c \in Ended /\ client.connection = c) ~>
          (client.connection # c \/ client.state \in {"ended", "closed", "reset"})
=============================================================================
