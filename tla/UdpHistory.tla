----------------------------- MODULE UdpHistory -----------------------------
(***************************************************************************)
(* The TUN loop with the time each target last had a session, which tells  *)
(* a socket that was used a moment ago from one that is idle.  busyAt is a *)
(* history variable: no action reads it.                                   *)
(***************************************************************************)
EXTENDS TunUdp

VARIABLE busyAt     \* target -> last time it had a session, 0 before the first
busyVars == <<vars, busyAt>>

BusyInit == Init /\ busyAt = [t \in Target \ DnsTarget |-> 0]

Busy == busyAt' = [t \in Target \ DnsTarget |->
                     IF FlowsOn(t) # {} \/ FlowsOn(t)' # {} THEN now' ELSE busyAt[t]]

BusySpec == BusyInit /\ [][Next /\ Busy]_busyVars

\* A socket is only reclaimed for another target when it has had no session for
\* REUSE_AFTER, so replies still in flight to the last one find it: "the slot is
\* reusable after REUSE_AFTER from now, not from the session's last datagram".
ReclaimSparesRecent ==
    [][\A t \in DOMAIN ports \ DOMAIN ports' :
          DOMAIN ports' \ DOMAIN ports # {} =>
             /\ FlowsOn(t) = {}
             /\ t \notin DnsTarget
             /\ busyAt[t] # 0 => now - busyAt[t] >= ReuseAfter]_busyVars
=============================================================================
