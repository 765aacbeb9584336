------------------------------ MODULE UdpTable ------------------------------
(***************************************************************************)
(* The UDP bookkeeping of the TUN loop (crates/core/src/udp_table.rs): the *)
(* sessions, one per source and target, the target sockets they share and  *)
(* the admission rules.  Each public method is an action; Spec lets a      *)
(* caller invoke them in any order that respects the one precondition the  *)
(* code states: a session is inserted only when its target socket exists.  *)
(* TunUdp is the caller, and is shown to implement this specification.     *)
(***************************************************************************)
EXTENDS Clock, Integers, FiniteSets, Functions

CONSTANTS
    Source,         \* endpoints of the apps behind the TUN
    Target,         \* remote endpoints
    DnsTarget,      \* targets whose port 53 traffic is hijacked (hijack_dns)
    MaxSessions,    \* Budget::max_udp
    MaxPorts,       \* Budget::max_ports
    DnsReserve,     \* DNS_RESERVE
    DnsPortReserve, \* DNS_PORT_RESERVE
    ReuseAfter,     \* REUSE_AFTER
    NoticeEvery,    \* REFUSAL_NOTICE_EVERY
    Idle            \* Budget::udp_idle

ASSUME UdpTableAssumption ==
    /\ IsFiniteSet(Source)
    /\ IsFiniteSet(Target)
    /\ DnsTarget \subseteq Target
    /\ MaxSessions \in Nat
    /\ MaxPorts \in Nat
    /\ DnsReserve \in Nat
    /\ DnsPortReserve \in Nat
    /\ ReuseAfter \in Nat
    /\ NoticeEvery \in Nat
    /\ Idle \in Nat

VARIABLES
    flows,          \* live sessions: flow -> generation
    ports,          \* target sockets: target -> [last, sessions]
    dnsSessions,    \* dns_sessions
    nextGeneration, \* next_generation
    noticed         \* refused flows: flow -> time of the last ICMP error

tableVars == <<flows, ports, dnsSessions, nextGeneration, noticed, now>>

Flow == [source : Source, target : Target]
IsDns(flow) == flow.target \in DnsTarget

FlowsOn(target) == {f \in DOMAIN flows : f.target = target}
DnsFlows == {f \in DOMAIN flows : IsDns(f)}
DataFlows == {f \in DOMAIN flows : ~IsDns(f)}
DataPorts == DOMAIN ports \ DnsTarget

\* fn with key mapped to value, as HashMap::insert leaves it.
Put(fn, key, value) ==
    [x \in DOMAIN fn \cup {key} |-> IF x = key THEN value ELSE fn[x]]
Without(fn, keys) == Restrict(fn, DOMAIN fn \ keys)

-----------------------------------------------------------------------------
TableInit ==
    /\ ClockInit
    /\ flows = [f \in {} |-> 0]
    /\ ports = [t \in {} |-> 0]
    /\ dnsSessions = 0
    /\ nextGeneration = 0
    /\ noticed = [f \in {} |-> 0]

(***************************************************************************)
(* Target sockets.                                                         *)
(***************************************************************************)
\* Mutant: DNS gets no sockets beyond the budget.
PortLimitNoReserve(target) == MaxPorts
\* Mutant: data flows may take the sockets kept for DNS.
PortLimitShared(target) == MaxPorts + DnsPortReserve

PortLimit(target) == MaxPorts + IF target \in DnsTarget THEN DnsPortReserve ELSE 0
PortsFull(target) == Cardinality(DOMAIN ports) >= PortLimit(target)

Reclaimable ==
    {t \in DOMAIN ports : /\ ports[t].sessions = 0
                          /\ t \notin DnsTarget
                          /\ now - ports[t].last >= ReuseAfter}

\* The least recently used candidates; the hash map's order picks among equals.
ReclaimCandidates ==
    {t \in Reclaimable : \A u \in Reclaimable : ports[t].last <= ports[u].last}

PortRefused(target, shedding) ==
    /\ target \notin DOMAIN ports
    /\ \/ shedding /\ target \notin DnsTarget
       \/ PortsFull(target) /\ ReclaimCandidates = {}

NewPort == [last |-> now, sessions |-> 0]

AdmitPort(target, shedding) ==
    /\ target \notin DOMAIN ports
    /\ ~PortRefused(target, shedding)
    /\ \/ /\ ~PortsFull(target)
          /\ ports' = Put(ports, target, NewPort)
       \/ /\ PortsFull(target)
          /\ \E t \in ReclaimCandidates :
                ports' = Put(Without(ports, {t}), target, NewPort)
    /\ UNCHANGED <<flows, dnsSessions, nextGeneration, noticed, now>>

\* Datagrams or a reply pass through these sockets: port.last = Instant::now().
Touch(targets) ==
    /\ ports' = [t \in DOMAIN ports |->
                    IF t \in targets THEN [ports[t] EXCEPT !.last = now] ELSE ports[t]]
    /\ UNCHANGED <<flows, dnsSessions, nextGeneration, noticed, now>>

(***************************************************************************)
(* Sessions.                                                               *)
(***************************************************************************)
SessionLimit(flow) ==
    IF IsDns(flow) THEN MaxSessions
    ELSE IF MaxSessions > DnsReserve THEN MaxSessions - DnsReserve ELSE 0

Counted(flow) ==
    Cardinality(DOMAIN flows) - IF IsDns(flow) THEN 0 ELSE dnsSessions

SessionRefused(flow, shedding) ==
    /\ flow \notin DOMAIN flows
    /\ \/ shedding /\ ~IsDns(flow)
       \/ Counted(flow) >= SessionLimit(flow)
       \/ Cardinality(DOMAIN flows) >= MaxSessions

\* The counter is advanced first: generations start at 1.
NewGeneration == nextGeneration + 1

\* Mutant: every session counts as a DNS session.
DnsCountAlways(flow) == 1
DnsCount(flow) == IF IsDns(flow) THEN 1 ELSE 0

\* admit_session said Ok(true), then insert.
OpenSession(flow, shedding) ==
    /\ flow \notin DOMAIN flows
    /\ ~SessionRefused(flow, shedding)
    /\ flow.target \in DOMAIN ports
    /\ nextGeneration' = NewGeneration
    /\ ports' = [ports EXCEPT ![flow.target].sessions = @ + 1]
    /\ dnsSessions' = dnsSessions + DnsCount(flow)
    /\ flows' = Put(flows, flow, NewGeneration)
    /\ UNCHANGED <<noticed, now>>

\* Mutant: a removal leaves the socket's last use alone.
ReleasedKeepsLast(port) == [port EXCEPT !.sessions = @ - 1]

\* The time is max(last, now), and the clock is monotonic.
Released(port) ==
    [last |-> now, sessions |-> IF port.sessions = 0 THEN 0 ELSE port.sessions - 1]

Remove(flow) ==
    /\ flows' = Without(flows, {flow})
    /\ dnsSessions' = dnsSessions - DnsCount(flow)
    /\ ports' = [t \in DOMAIN ports |->
                    IF t = flow.target THEN Released(ports[t]) ELSE ports[t]]
    /\ UNCHANGED <<nextGeneration, noticed, now>>

Current(flow, generation) ==
    flow \in DOMAIN flows /\ flows[flow] = generation

\* Mutant: a completion ends whatever session the flow has now.
EndedAnyGeneration(flow, generation) ==
    \/ flow \in DOMAIN flows /\ Remove(flow)
    \/ flow \notin DOMAIN flows /\ UNCHANGED tableVars

\* Mutant: only a completion newer than the session ends it.
EndedWhenNewer(flow, generation) ==
    \/ flow \in DOMAIN flows /\ flows[flow] < generation /\ Remove(flow)
    \/ (flow \in DOMAIN flows => flows[flow] >= generation) /\ UNCHANGED tableVars

\* ended: a completion whose generation is not the table's changes nothing.
Ended(flow, generation) ==
    \/ Current(flow, generation) /\ Remove(flow)
    \/ ~Current(flow, generation) /\ UNCHANGED tableVars

Superseded(flow, generation) ==
    flow \in DOMAIN flows /\ flows[flow] # generation

(***************************************************************************)
(* Refusal notices, expiry and release.                                    *)
(***************************************************************************)
NoticeDue(flow) ==
    flow \in DOMAIN noticed => now - noticed[flow] >= NoticeEvery

Notice(flow) ==
    /\ noticed' = IF NoticeDue(flow) THEN Put(noticed, flow, now) ELSE noticed
    /\ UNCHANGED <<flows, ports, dnsSessions, nextGeneration, now>>

StalePorts == {t \in DOMAIN ports : now - ports[t].last > Idle}
StaleFlows == {f \in DOMAIN flows : f.target \in StalePorts}

Expire ==
    /\ flows' = Without(flows, StaleFlows)
    /\ ports' = Without(ports, StalePorts)
    /\ dnsSessions' = dnsSessions - Cardinality({f \in StaleFlows : IsDns(f)})
    /\ noticed' = Without(noticed, {f \in DOMAIN noticed : NoticeDue(f)})
    /\ UNCHANGED <<nextGeneration, now>>

Purge ==
    /\ flows' = [f \in {} |-> 0]
    /\ ports' = [t \in {} |-> 0]
    /\ dnsSessions' = 0
    /\ UNCHANGED <<nextGeneration, noticed, now>>

Tick ==
    /\ Advance
    /\ UNCHANGED <<flows, ports, dnsSessions, nextGeneration, noticed>>

-----------------------------------------------------------------------------
TableNext ==
    \/ \E t \in Target, shedding \in BOOLEAN : AdmitPort(t, shedding)
    \/ \E targets \in SUBSET Target : Touch(targets)
    \/ \E f \in Flow, shedding \in BOOLEAN : OpenSession(f, shedding)
    \/ \E f \in Flow, g \in 1..nextGeneration : Ended(f, g)
    \/ \E f \in Flow : Notice(f)
    \/ Expire
    \/ Purge
    \/ Tick

TableSpec == TableInit /\ [][TableNext]_tableVars

-----------------------------------------------------------------------------
(***************************************************************************)
(* Properties.                                                             *)
(***************************************************************************)
\* Type invariant: the maps have flows and targets as keys.
TypeOK ==
    /\ DOMAIN flows \subseteq Flow
    /\ \A f \in DOMAIN flows : flows[f] \in Nat
    /\ flows = [f \in DOMAIN flows |-> flows[f]]
    /\ DOMAIN ports \subseteq Target
    /\ \A t \in DOMAIN ports : ports[t] \in [last : Nat, sessions : Nat]
    /\ ports = [t \in DOMAIN ports |-> ports[t]]
    /\ dnsSessions \in Nat
    /\ nextGeneration \in Nat
    /\ DOMAIN noticed \subseteq Flow
    /\ \A f \in DOMAIN noticed : noticed[f] \in Nat
    /\ now \in Nat

\* The two counters kept beside the maps agree with them after any sequence of
\* inserts, completions, expiries and purges, and every session's socket is
\* there: `dns_sessions -= 1` never underflows, `saturating_sub` never saturates
\* and a socket in use never looks unused to reclaim_port.
CountsAgree ==
    /\ dnsSessions = Cardinality(DnsFlows)
    /\ \A f \in DOMAIN flows : f.target \in DOMAIN ports
    /\ \A t \in DOMAIN ports : ports[t].sessions = Cardinality(FlowsOn(t))

\* The budget holds, and data traffic stays out of what is kept for DNS:
\* max_udp sessions, of which data flows use at most max_udp - DNS_RESERVE;
\* max_ports sockets, and DNS_PORT_RESERVE more only for DNS.
WithinBudget ==
    /\ Cardinality(DOMAIN flows) <= MaxSessions
    /\ Cardinality(DataFlows) <= IF MaxSessions > DnsReserve THEN MaxSessions - DnsReserve ELSE 0
    /\ Cardinality(DOMAIN ports) <= MaxPorts + DnsPortReserve
    /\ Cardinality(DataPorts) <= MaxPorts

\* Data flows cannot starve name lookups: while fewer DNS sessions (sockets)
\* than the reserve exist, a DNS flow is admitted, also under memory pressure.
DnsNeverStarved ==
    /\ (Cardinality(DnsFlows) < DnsReserve /\ DnsReserve <= MaxSessions) =>
          \A f \in Flow : IsDns(f) => ~SessionRefused(f, TRUE)
    /\ Cardinality(DOMAIN ports \cap DnsTarget) < DnsPortReserve =>
          \A t \in DnsTarget : ~PortRefused(t, TRUE)

\* A generation names one session: no two live sessions share one, and none is
\* ahead of the counter, so a later session never gets a used generation.
GenerationsDistinct ==
    /\ \A f \in DOMAIN flows : flows[f] \in 1..nextGeneration
    /\ \A f, h \in DOMAIN flows : flows[f] = flows[h] => f = h
=============================================================================
