----------------------------- MODULE IosTunnel -----------------------------
(***************************************************************************)
(* The iOS packet tunnel (PacketTunnelProvider of ios/Tunnel), a host of   *)
(* the C API.  Everything it does runs on one serial queue, so each item   *)
(* of the queue is a step, calls of the core included: HostHandle shows    *)
(* that they return.  Path updates, Wi-Fi names, settings, probes, packets *)
(* and timers come back to the queue in their own time, and may belong to  *)
(* a run of the tunnel that has ended (epoch).                             *)
(***************************************************************************)
EXTENDS Naturals, Sequences

CONSTANTS
    Path,           \* networks the device may be on
    Wifi,           \* the ones whose report waits for the name of the Wi-Fi
    Usable,         \* the ones iOS reports as satisfied
    RoutesV6,       \* the ones that support IPv6
    ProfileIPv6,    \* the profile enables IPv6
    RecoveryLimit   \* stallRecoveryLimit, 3

ASSUME PathAssumption == Wifi \subseteq Path /\ Usable \subseteq Path /\ RoutesV6 \subseteq Path

VARIABLES
    system,         \* iOS wants the tunnel "on" or "off"
    core,           \* "nil", "running", or "stopped" by itself
    epoch,          \* number of the run
    up,             \* the start completed: packets flow, the health timer runs
    device,         \* the network the device is on
    monitor,        \* a path monitor runs
    due,            \* it has an update to deliver
    received,       \* receivedInitialPath
    appliedNetwork, \* <<>> or <<path>>
    pendingNetwork, \* the path waiting to settle: <<>> or <<path>>
    fetches,        \* reports waiting for the name of the Wi-Fi
    work,           \* reports put on the queue
    reported,       \* the network this core was told last: <<>> or <<path>>
    settings,       \* settings handed to iOS and not completed, oldest first
    routes,         \* routesIPv6: <<>> or <<whether IPv6 is routed>>
    reasserting,
    stall,          \* stalledSince: the number of the stall, 0 for none
    stalls,         \* stalls so far
    check,          \* stallCheck is scheduled
    probing,
    probes,         \* egress probes under way
    recoveries      \* stallRecoveries

runVars == <<system, core, epoch, up>>
pathVars == <<device, monitor, due, received, appliedNetwork, pendingNetwork>>
reportVars == <<fetches, work, reported>>
settingsVars == <<settings, routes, reasserting>>
stallVars == <<stall, stalls, check, probing, probes, recoveries>>
iosVars == <<runVars, pathVars, reportVars, settingsVars, stallVars>>

IosInit ==
    /\ system = "off" /\ core = "nil" /\ epoch = 0 /\ up = FALSE
    /\ device \in Path /\ monitor = FALSE /\ due = FALSE /\ received = FALSE
    /\ appliedNetwork = <<>> /\ pendingNetwork = <<>>
    /\ fetches = {} /\ work = <<>> /\ reported = <<>>
    /\ settings = <<>> /\ routes = <<>> /\ reasserting = FALSE
    /\ stall = 0 /\ stalls = 0 /\ check = FALSE /\ probing = FALSE
    /\ probes = {} /\ recoveries = 0

\* A closure made in a run still has its core.
Current(e) == e = epoch /\ core # "nil"

-----------------------------------------------------------------------------
(* The runs of the tunnel *)

\* Mutant: a probe of the last stall keeps the next one from probing.
ResetStallOnly == stall' = 0 /\ check' = FALSE /\ recoveries' = 0 /\ UNCHANGED probing
ResetStall == stall' = 0 /\ check' = FALSE /\ recoveries' = 0 /\ probing' = FALSE

\* shutdown: what is under way keeps the old epoch; the core is destroyed.
Shutdown ==
    /\ core' = "nil" /\ epoch' = epoch + 1 /\ up' = FALSE
    /\ monitor' = FALSE /\ due' = FALSE /\ received' = FALSE
    /\ appliedNetwork' = <<>> /\ pendingNetwork' = <<>> /\ routes' = <<>>
    /\ ResetStall
    /\ UNCHANGED <<device, reportVars, reasserting, stalls>>

StopTunnel ==
    /\ system = "on" /\ system' = "off"
    /\ Shutdown
    /\ UNCHANGED <<settings, probes>>

\* fail: iOS is told, and follows with stopTunnel.
Fail == Shutdown /\ UNCHANGED <<system, settings, probes>>

\* watchNetwork: the new monitor replaces the old one and reports at once.
WatchNetwork == monitor' = TRUE /\ due' = TRUE

\* startTunnel: a core is created and started, and the network is awaited.
StartTunnel ==
    /\ system = "off" /\ core = "nil"
    /\ system' = "on" /\ core' = "running"
    /\ WatchNetwork
    /\ reported' = <<>>
    /\ UNCHANGED <<epoch, up, device, received, appliedNetwork, pendingNetwork, fetches, work,
                   settingsVars, stallVars>>

\* It fails before the network is awaited, with or without a core.
StartFails ==
    /\ system = "off" /\ core = "nil"
    /\ Shutdown
    /\ UNCHANGED <<system, settings, probes>>

\* The core stops by itself.
CoreStops ==
    /\ core = "running" /\ core' = "stopped"
    /\ UNCHANGED <<system, epoch, up, pathVars, reportVars, settingsVars, stallVars>>

\* Mutant: the health check only asks whether the core answers.
NeverStopped == FALSE
\* What meta_status_v1 says of the core
SaysStopped == core = "stopped"

\* watchCore finds the core stopped; until then its ticks change nothing.
HealthCheck == up /\ SaysStopped /\ Fail

\* So do submit and drainPackets, which write and read packets of the current
\* run and return at once for another.
PacketCallFails == core = "stopped" /\ Fail

-----------------------------------------------------------------------------
(* The device network *)

\* The device moves to another network.
Roam(p) ==
    /\ p # device
    /\ device' = p /\ due' = monitor
    /\ UNCHANGED <<runVars, monitor, received, appliedNetwork, pendingNetwork, reportVars, settingsVars, stallVars>>

Want(p) == ProfileIPv6 /\ p \in RoutesV6

\* reportNetwork: delivered through the queue, after the name of a Wi-Fi came.
ReportNetwork(p, change) ==
    LET r == [path |-> p, epoch |-> epoch, change |-> change] IN
    /\ fetches' = IF p \in Wifi THEN fetches \union {r} ELSE fetches
    /\ work' = IF p \in Wifi THEN work ELSE Append(work, r)
    /\ UNCHANGED reported

\* applySettings: iOS takes its time.
ApplySettings(v6, why) ==
    settings' = Append(settings, [ipv6 |-> v6, epoch |-> epoch, why |-> why])

\* pathUpdateHandler: the first path completes the start, others settle first.
PathUpdate ==
    /\ due /\ due' = FALSE
    /\ IF received
       THEN /\ pendingNetwork' = <<device>>
            /\ UNCHANGED <<received, appliedNetwork, reportVars, settings>>
       ELSE /\ received' = TRUE /\ appliedNetwork' = <<device>>
            /\ ReportNetwork(device, FALSE)
            /\ ApplySettings(Want(device), "start")
            /\ UNCHANGED pendingNetwork
    /\ UNCHANGED <<runVars, device, monitor, routes, reasserting, stallVars>>

\* beginStall, unless one is known.
BeginStall ==
    IF stall # 0 THEN UNCHANGED stallVars
    ELSE /\ stall' = stalls + 1 /\ stalls' = stalls + 1
         /\ check' = TRUE /\ recoveries' = 0
         /\ UNCHANGED <<probing, probes>>

\* pathSettled: a network that differs from the one applied is reported, and the
\* settings follow when it supports IPv6 differently.
PathSettled ==
    /\ pendingNetwork # <<>> /\ pendingNetwork' = <<>>
    /\ LET p == pendingNetwork[1] IN
       IF appliedNetwork = <<p>>
       THEN UNCHANGED <<appliedNetwork, reportVars, settings, stallVars>>
       ELSE /\ appliedNetwork' = <<p>>
            /\ IF p \in Usable THEN ResetStall /\ UNCHANGED <<stalls, probes>> ELSE BeginStall
            /\ ReportNetwork(p, TRUE)
            /\ IF routes \notin {<<>>, <<Want(p)>>}
               THEN ApplySettings(Want(p), "change") ELSE UNCHANGED settings
    /\ UNCHANGED <<runVars, device, monitor, due, received, routes, reasserting>>

\* NEHotspotNetwork.fetchCurrent answers.
WifiNamed(r) ==
    /\ fetches' = fetches \ {r} /\ work' = Append(work, r)
    /\ UNCHANGED <<runVars, pathVars, reported, settingsVars, stallVars>>

\* Mutant: a report of an ended run reaches the core of the next one.
DeliversAlways(r) == core # "nil"
\* The guard of deliver
Delivers(r) == Current(r.epoch)

\* deliver: setNetwork, which applies to a stopped core too, then networkChanged
\* for a change; what the core does with them is modelled in Routing and Relay.
Deliver ==
    /\ work # <<>> /\ work' = Tail(work)
    /\ reported' = IF Delivers(Head(work)) THEN <<Head(work).path>> ELSE reported
    /\ UNCHANGED <<runVars, pathVars, fetches, settingsVars, stallVars>>

\* setTunnelNetworkSettings completes: routesIPv6 is set first, whichever run
\* asked; then the completion of a start, a change or a recovery.
SettingsDone(ok) ==
    /\ settings # <<>> /\ settings' = Tail(settings)
    /\ LET s == Head(settings) IN
       IF Current(s.epoch) /\ s.why = "start" /\ ~ok
       THEN Shutdown /\ system' = "off" /\ UNCHANGED probes
       ELSE /\ routes' = IF ok THEN <<s.ipv6>> ELSE routes
            /\ reasserting' = (reasserting /\ s.why # "recover")
            /\ up' = (up \/ (Current(s.epoch) /\ s.why = "start"))
            /\ IF Current(s.epoch) /\ s.why = "recover"
               THEN WatchNetwork ELSE UNCHANGED <<monitor, due>>
            /\ UNCHANGED <<system, core, epoch, device, received, appliedNetwork, pendingNetwork,
                           reportVars, stallVars>>

-----------------------------------------------------------------------------
(* Recovery while the device network is unusable *)

\* The scheduled checkStall
CheckStall ==
    /\ check /\ check' = FALSE
    /\ IF stall # 0 /\ ~probing /\ core # "nil"
       THEN probing' = TRUE /\ probes' = probes \union {[epoch |-> epoch, stall |-> stall]}
       ELSE UNCHANGED <<probing, probes>>
    /\ UNCHANGED <<runVars, pathVars, reportVars, settingsVars, stall, stalls, recoveries>>

\* The guard of the probe's completion
ProbeCounts(p) == Current(p.epoch) /\ p.stall = stall

\* EgressProbe.run completes: the core reconnects over a network that answers;
\* otherwise the settings are applied again a few times (recoverEgress), and the
\* tunnel fails when iOS has refused its sockets for too long.
ProbeDone(p, reachable, refused) ==
    /\ probes' = probes \ {p}
    /\ \/ /\ ~ProbeCounts(p)
          /\ UNCHANGED <<runVars, pathVars, settingsVars, stall, check, probing, recoveries>>
       \/ /\ ProbeCounts(p) /\ reachable
          /\ probing' = FALSE
          /\ UNCHANGED <<runVars, pathVars, settingsVars, stall, check, recoveries>>
       \/ /\ ProbeCounts(p) /\ ~reachable /\ recoveries < RecoveryLimit
          /\ probing' = FALSE /\ check' = TRUE
          /\ recoveries' = recoveries + 1 /\ reasserting' = TRUE
          /\ ApplySettings(routes = <<TRUE>>, "recover")
          /\ UNCHANGED <<runVars, pathVars, routes, stall>>
       \/ /\ ProbeCounts(p) /\ ~reachable /\ recoveries = RecoveryLimit
          /\ IF refused
             THEN Shutdown /\ UNCHANGED <<system, settings>>
             ELSE /\ probing' = FALSE /\ check' = TRUE
                  /\ UNCHANGED <<runVars, pathVars, settingsVars, stall, recoveries>>
    /\ UNCHANGED <<reportVars, stalls>>

-----------------------------------------------------------------------------
\* The work of the queue, in the order iOS, timers and probes bring it about.
Prompted ==
    \/ PathUpdate \/ PathSettled \/ Deliver
    \/ \E ok \in BOOLEAN : SettingsDone(ok)
    \/ \E r \in fetches : WifiNamed(r)
Probe ==
    \/ CheckStall
    \/ \E p \in probes, reachable, refused \in BOOLEAN : ProbeDone(p, reachable, refused)

IosNext ==
    \/ StartTunnel \/ StartFails \/ StopTunnel \/ CoreStops
    \/ Prompted \/ Probe \/ HealthCheck \/ PacketCallFails
    \/ \E p \in Path : Roam(p)

IosSpec == IosInit /\ [][IosNext]_iosVars

-----------------------------------------------------------------------------
\* Recovery does not give up silently: every stall ends with a usable network, a
\* probe that was answered, the end of the run, or all recoveries tried.
StallHandled ==
    stall # 0 ~> stall = 0 \/ recoveries = RecoveryLimit \/ (~check /\ ~probing)

\* A core that stopped by itself is noticed: the tunnel does not stay connected
\* without one.
CoreStopNoticed == core = "stopped" ~> core = "nil"
=============================================================================
