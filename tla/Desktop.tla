------------------------------ MODULE Desktop ------------------------------
(***************************************************************************)
(* A TUN session on a desktop (crates/runtime/src/lib.rs, run): it opens   *)
(* the tunnel and its routes (RouteJournal), starts the core, points the   *)
(* system DNS of macOS at it (MacDns), follows the network on every tick,  *)
(* and undoes all of it at the end.  The process may die at any step; what *)
(* it left is removed by recover, which the service runs before a session  *)
(* and after one, and the command line on request.                         *)
(*                                                                         *)
(* One exit is one interface with one IPv4 address and one network         *)
(* service; which exits have an IPv6 route is a parameter.                 *)
(***************************************************************************)
EXTENDS RouteJournal, MacDns

CONSTANTS
    NoExit,         \* no physical exit
    Exit6,          \* exits with an IPv6 route
    Capture4, Capture6, \* prefixes captured by the tunnel
    Excluded        \* prefixes that keep going to the physical IPv4 exit

ASSUME ExitAssumption == NoExit \notin Interface
ASSUME PrefixAssumption == Capture4 \cup Capture6 \cup Excluded \subseteq Prefix

VARIABLES
    stage,      \* where run is
    network,    \* EgressHooks.network
    selected,   \* DesktopTun.selected_interface
    detected,   \* DesktopTun.replaceable_interface: the exit is not a configured one
    listener,   \* the address the core answers system DNS at
    pending     \* dns_pending

sessionVars == <<stage, network, selected, detected, listener, pending>>
vars == <<journalVars, dnsVars, sessionVars>>

Exit == Interface \ {Tun}
ASSUME ServiceAssumption == Exit \subseteq Service \cap Address

NoNetwork == [ipv4 |-> NoExit, ipv6 |-> NoExit]
Darwin == platform = "darwin"

Init ==
    /\ JournalInit
    /\ DnsInit
    /\ stage = "down"
    /\ network = NoNetwork
    /\ selected = NoExit
    /\ detected = FALSE
    /\ listener = NoAddress
    /\ pending = FALSE

-----------------------------------------------------------------------------
Physical == up \ {Tun}

\* discover: the selected exit, or the first default route of a physical one.
FirstOf(exits) == IF exits = {} THEN NoExit ELSE CHOOSE e \in exits : TRUE
Pick(exits, choice) ==
    IF choice = NoExit THEN FirstOf(exits) ELSE IF choice \in exits THEN choice ELSE NoExit
Discover(choice) == [ipv4 |-> Pick(Physical, choice), ipv6 |-> Pick(up \cap Exit6, choice)]

To(prefixes, interface) == {[network |-> p, interface |-> interface] : p \in prefixes}

\* desired_routes: IPv6 is captured only while there is an IPv6 exit.
Desired(n) ==
    To(Capture4, Tun)
    \cup (IF n.ipv6 = NoExit THEN {} ELSE To(Capture6, Tun))
    \cup (IF n.ipv4 = NoExit THEN {} ELSE To(Excluded, n.ipv4))

-----------------------------------------------------------------------------
(***************************************************************************)
(* Startup.                                                                *)
(***************************************************************************)
\* DesktopTun::open with the configured exit, one that macOS probes found, or
\* none: the routing table decides.
OpensWith(choice) ==
    /\ Discover(choice) # NoNetwork
    /\ Open(Desired(Discover(choice)))
    /\ network' = Discover(choice)
    /\ selected' = choice

OpenSession(choice, found) ==
    /\ stage = "down" /\ IF choice = NoExit THEN found ELSE found => Darwin
    /\ OpensWith(choice)
    /\ detected' = found
    /\ stage' = "opening"
    /\ UNCHANGED <<dnsVars, listener, pending>>

RoutesIdle == tx.step = "idle"

\* On macOS the exit is probed again behind the new routes; when another one is
\* found, the tunnel is restored and opened once more.
Reselect(choice) ==
    /\ stage = "opening" /\ RoutesIdle /\ ~tx.failed
    /\ Darwin /\ detected /\ choice \in Physical \ {network.ipv4}
    /\ Restore
    /\ selected' = choice
    /\ stage' = "reselecting"
    /\ UNCHANGED <<dnsVars, network, detected, listener, pending>>

ReselectDrops ==
    /\ stage = "reselecting" /\ RoutesIdle
    /\ DropTun
    /\ stage' = IF tx.failed THEN "closing" ELSE "reopening"
    /\ UNCHANGED <<dnsVars, network, selected, detected, listener, pending>>

Reopen ==
    /\ stage = "reopening"
    /\ IF Discover(selected) # NoNetwork
       THEN OpensWith(selected) /\ stage' = "reopened"
       ELSE stage' = "closing" /\ UNCHANGED <<journalVars, network, selected>>
    /\ UNCHANGED <<dnsVars, detected, listener, pending>>

RoutesIn == stage \in {"opening", "reopened"} /\ RoutesIdle /\ ~tx.failed

\* The routes are in: the core starts, on macOS with a DNS listener at the exit's
\* address, and the services are pointed at it.
StartCore ==
    /\ RoutesIn
    /\ IF ~Darwin
       THEN stage' = "loop" /\ UNCHANGED <<listener, dnsVars>>
       ELSE IF network.ipv4 \notin up
       THEN stage' = "failed" /\ UNCHANGED <<listener, dnsVars>>
       ELSE /\ stage' = "dnsStart"
            /\ listener' = network.ipv4
            /\ StartDns("start", Physical, network.ipv4)
    /\ UNCHANGED <<journalVars, network, selected, detected, pending>>

\* No exit is found behind the routes, another one than the reselected, or the
\* core cannot start.
CoreFails ==
    /\ RoutesIn
    /\ stage' = "failed"
    /\ UNCHANGED <<journalVars, dnsVars, network, selected, detected, listener, pending>>

DnsReturned == op.step = "done"

DnsStarted ==
    /\ stage = "dnsStart" /\ DnsReturned
    /\ op' = Idle
    /\ stage' = IF op.failed THEN "failed" ELSE "loop"
    /\ UNCHANGED <<journalVars, servers, saved, dns, network, selected, detected, listener, pending>>

\* What was started is dropped, the last first.
DropDns ==
    /\ RestoreDns("drop", dns.active)
    /\ stage' = "dropDns"
    /\ UNCHANGED <<journalVars, network, selected, detected, listener, pending>>

\* The system does not answer through the listener.
VerifyFails == stage = "dnsStart" /\ DnsReturned /\ ~op.failed /\ DropDns

\* Opening, starting the core or taking over DNS failed.
StartupFails ==
    /\ stage = "failed" \/ (stage \in {"opening", "reopened"} /\ tx.failed)
    /\ DropTun
    /\ listener' = NoAddress
    /\ stage' = "closing"
    /\ UNCHANGED <<dnsVars, network, selected, detected, pending>>

-----------------------------------------------------------------------------
(***************************************************************************)
(* The loop.                                                               *)
(***************************************************************************)
\* DesktopTun::refresh: a detected exit that lost its default route is replaced
\* by the system's current one, which stays selected.
Lost(choice) == detected /\ choice # NoExit /\ Discover(choice).ipv4 = NoExit
Found(choice) == IF Lost(choice) THEN Discover(NoExit) ELSE Discover(choice)
Kept(choice) == IF Lost(choice) THEN Discover(NoExit).ipv4 ELSE choice

\* A tick; on macOS a probe may have chosen another exit.
Tick(choice) ==
    /\ stage = "loop"
    /\ choice = selected \/ (Darwin /\ detected /\ choice \in Physical)
    /\ selected' = Kept(choice)
    /\ network' = Found(choice)
    /\ IF Found(choice) # network
       THEN /\ Refresh(Desired(Found(choice)))
            /\ stage' = "applying"
       ELSE /\ stage' = IF pending THEN "sync" ELSE "loop"
            /\ UNCHANGED journalVars
    /\ UNCHANGED <<dnsVars, detected, listener, pending>>

\* Mutant: a change of the exit does not ask for DNS to follow.
AsksDnsNever == FALSE
AsksDns == Darwin

\* The routes follow; if they cannot, the session ends.
RoutesFollowed ==
    /\ stage = "applying" /\ RoutesIdle
    /\ pending' = (pending \/ (AsksDns /\ ~tx.failed))
    /\ stage' = IF tx.failed THEN "stop" ELSE IF pending' THEN "sync" ELSE "loop"
    /\ UNCHANGED <<journalVars, dnsVars, network, selected, detected, listener>>

\* The listener moves first; without an exit, or when it cannot, the next tick
\* tries again.
SyncWaits ==
    /\ stage = "sync"
    /\ stage' = "loop"
    /\ network.ipv4 \notin up \/ network.ipv4 # listener
    /\ UNCHANGED <<journalVars, dnsVars, network, selected, detected, listener, pending>>

\* MacDns::refresh: nothing for the address it has, else restore and start.
Sync ==
    /\ stage = "sync" /\ network.ipv4 \in up
    /\ listener' = network.ipv4
    /\ IF dns.server = network.ipv4
       THEN /\ stage' = "loop"
            /\ pending' = FALSE
            /\ UNCHANGED dnsVars
       ELSE /\ RestoreDns("refresh", dns.active)
            /\ stage' = "syncRestore"
            /\ UNCHANGED pending
    /\ UNCHANGED <<journalVars, network, selected, detected>>

SyncRestored ==
    /\ stage = "syncRestore" /\ DnsReturned
    /\ IF op.failed
       THEN /\ op' = Idle
            /\ stage' = "loop"
            /\ UNCHANGED <<servers, saved, dns>>
       ELSE /\ StartDns("refresh", Physical, listener)
            /\ stage' = "syncStart"
    /\ UNCHANGED <<journalVars, network, selected, detected, listener, pending>>

SyncStarted ==
    /\ stage = "syncStart" /\ DnsReturned
    /\ op' = Idle
    /\ pending' = op.failed
    /\ stage' = "loop"
    /\ UNCHANGED <<journalVars, servers, saved, dns, network, selected, detected, listener>>

-----------------------------------------------------------------------------
(***************************************************************************)
(* The end of a session, and recovery.                                     *)
(***************************************************************************)
\* The user stops the session, or the core stopped: DNS is restored first.
Stop ==
    /\ stage \in {"loop", "stop"}
    /\ RestoreDns("stop", dns.active)
    /\ stage' = "stopDns"
    /\ UNCHANGED <<journalVars, network, selected, detected, listener, pending>>

\* Whether or not it was, the core shuts down and the routes are restored.
StopRoutes ==
    /\ stage = "stopDns" /\ DnsReturned
    /\ op' = Idle
    /\ Restore
    /\ listener' = NoAddress
    /\ stage' = "stopRoutes"
    /\ UNCHANGED <<servers, saved, dns, network, selected, detected, pending>>

\* Then both are dropped, and each restores once more if it could not before.
Stopped == stage = "stopRoutes" /\ RoutesIdle /\ DropDns

DropRoutes ==
    /\ stage = "dropDns" /\ DnsReturned
    /\ DnsCrash
    /\ DropTun
    /\ listener' = NoAddress
    /\ stage' = "closing"
    /\ UNCHANGED <<network, selected, detected, pending>>

Down ==
    /\ stage' = "down"
    /\ network' = NoNetwork
    /\ selected' = NoExit
    /\ detected' = FALSE
    /\ listener' = NoAddress
    /\ pending' = FALSE

Ended ==
    /\ stage = "closing" /\ tx.owner = "none"
    /\ Down
    /\ UNCHANGED <<journalVars, dnsVars>>

\* recover: routes, then DNS, also when the routes could not be restored.
RecoverRoutes ==
    /\ stage = "down" /\ disk # {}
    /\ Recover
    /\ stage' = "recoverRoutes"
    /\ UNCHANGED <<dnsVars, network, selected, detected, listener, pending>>

RecoverDns ==
    /\ \/ stage = "down" /\ disk = {} /\ saved # {}
       \/ stage = "recoverRoutes" /\ tx.owner = "none"
    /\ RestoreDns("recover", TRUE)
    /\ stage' = "recoverDns"
    /\ UNCHANGED <<journalVars, network, selected, detected, listener, pending>>

Recovered ==
    /\ stage = "recoverDns" /\ DnsReturned
    /\ DnsCrash
    /\ stage' = "down"
    /\ UNCHANGED <<journalVars, network, selected, detected, listener, pending>>

\* The process, session or recovery, dies.
Dies ==
    /\ stage # "down"
    /\ IF tx.owner = "none" THEN UNCHANGED journalVars ELSE Crash
    /\ DnsCrash
    /\ Down

-----------------------------------------------------------------------------
Choices == Exit \cup {NoExit}

RouteStep == ApplyStep /\ UNCHANGED <<dnsVars, sessionVars>>
ServiceStep == DnsStep /\ UNCHANGED <<journalVars, sessionVars>>

RunStep ==
    \/ ReselectDrops \/ Reopen
    \/ StartCore \/ DnsStarted \/ StartupFails
    \/ RoutesFollowed \/ SyncWaits \/ Sync \/ SyncRestored \/ SyncStarted
    \/ StopRoutes \/ Stopped \/ DropRoutes \/ Ended
    \/ RecoverDns \/ Recovered

Fails ==
    \/ (CallFails \/ SaveFails \/ RestoreFails) /\ UNCHANGED <<dnsVars, sessionVars>>
    \/ DnsFails /\ UNCHANGED <<journalVars, sessionVars>>
    \/ CoreFails \/ VerifyFails

LinkStep == (\E i \in Exit : LinkDown(i) \/ LinkUp(i)) /\ UNCHANGED <<dnsVars, sessionVars>>
OtherStep == (\E s \in RouteSpec : OtherAdds(s)) /\ UNCHANGED <<dnsVars, sessionVars>>
UserStep == Darwin /\ (\E s \in Service, c \in Chosen : UserSets(s, c)) /\ UNCHANGED <<journalVars, sessionVars>>

Next ==
    \/ \E choice \in Choices : (\E found \in BOOLEAN : OpenSession(choice, found)) \/ Reselect(choice) \/ Tick(choice)
    \/ RouteStep \/ ServiceStep \/ RunStep \/ Stop \/ RecoverRoutes
    \/ Fails \/ Dies
    \/ LinkStep \/ OtherStep \/ UserStep

Spec == Init /\ [][Next]_vars

-----------------------------------------------------------------------------
\* While a session considers its DNS in order, the core listens at the address of
\* the exit in use, and the services it manages point there, over every change of
\* the exit.
DnsServed ==
    stage = "loop" /\ Darwin /\ ~pending =>
       /\ listener = network.ipv4
       /\ dns.active => dns.server = listener /\ \A s \in Service : servers[s] \in Address => servers[s] = listener
=============================================================================
