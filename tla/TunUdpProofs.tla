---------------------------- MODULE TunUdpProofs ----------------------------
(***************************************************************************)
(* The TUN loop uses its table as UdpTable says, so what is proved of the  *)
(* table holds of the loop, with its tasks, channels and memory guard.  On *)
(* top of that, table and session tasks stay in step, and no data session  *)
(* lives through the cooldown of the guard.                                *)
(***************************************************************************)
EXTENDS UdpHistory, FiniteSetTheorems, TLAPS

-----------------------------------------------------------------------------
(***************************************************************************)
(* The UDP table keeps its counters, budgets and DNS reserve, for every    *)
(* set of endpoints and every budget.  The invariants are inductive only   *)
(* together: the budgets are checked against the counters, the counters    *)
(* are exact only while every session's socket exists.                     *)
(***************************************************************************)

IInv == TypeOK /\ CountsAgree /\ WithinBudget /\ GenerationsDistinct

USE UdpTableAssumption

\* Endpoints are finite in number, so are flows.
LEMMA FlowFinite == IsFiniteSet(Flow)
<1> DEFINE mk == [p \in Source \X Target |-> [source |-> p[1], target |-> p[2]]]
<1>1. IsFiniteSet(Source \X Target)
  BY FS_Product, Zenon
<1>2. mk \in Surjection(Source \X Target, Flow)
  <2>1. mk \in [Source \X Target -> Flow]
    BY Zenon DEF Flow
  <2>2. ASSUME NEW f \in Flow PROVE \E p \in Source \X Target : mk[p] = f
    <3>1. <<f.source, f.target>> \in Source \X Target
      BY Zenon DEF Flow
    <3>2. mk[<<f.source, f.target>>] = f
      BY <3>1, Zenon DEF Flow
    <3> QED BY <3>1, <3>2, Zenon
  <2> QED BY <2>1, <2>2, Zenon DEF Surjection
<1> QED BY <1>1, <1>2, FS_Surjection, Zenon

\* The sets the invariants count are finite.
LEMMA Finiteness ==
  ASSUME TypeOK
  PROVE  /\ IsFiniteSet(DOMAIN flows) /\ Cardinality(DOMAIN flows) \in Nat
         /\ IsFiniteSet(DOMAIN ports) /\ Cardinality(DOMAIN ports) \in Nat
         /\ IsFiniteSet(DnsFlows) /\ Cardinality(DnsFlows) \in Nat
         /\ IsFiniteSet(DataFlows) /\ Cardinality(DataFlows) \in Nat
         /\ IsFiniteSet(DataPorts) /\ Cardinality(DataPorts) \in Nat
         /\ \A t : IsFiniteSet(FlowsOn(t)) /\ Cardinality(FlowsOn(t)) \in Nat
<1>1. IsFiniteSet(DOMAIN flows)
  BY FlowFinite, FS_Subset, Zenon DEF TypeOK
<1>2. IsFiniteSet(DOMAIN ports)
  BY FS_Subset, Zenon DEF TypeOK
<1>3. IsFiniteSet(DnsFlows) /\ IsFiniteSet(DataFlows) /\ \A t : IsFiniteSet(FlowsOn(t))
  <2>1. DnsFlows \in SUBSET DOMAIN flows /\ DataFlows \in SUBSET DOMAIN flows
    BY Zenon DEF DnsFlows, DataFlows
  <2>2. \A t : FlowsOn(t) \in SUBSET DOMAIN flows
    BY Zenon DEF FlowsOn
  <2> QED BY <1>1, <2>1, <2>2, FS_Subset, Zenon
<1>4. IsFiniteSet(DataPorts)
  BY <1>2, FS_Difference, Zenon DEF DataPorts
<1> QED BY <1>1, <1>2, <1>3, <1>4, FS_CardinalityType, Zenon

\* Sessions are DNS sessions or data sessions.
LEMMA FlowsSplit ==
  ASSUME TypeOK
  PROVE  Cardinality(DOMAIN flows) = Cardinality(DnsFlows) + Cardinality(DataFlows)
<1>1. DOMAIN flows = DnsFlows \cup DataFlows /\ DnsFlows \cap DataFlows = {}
  BY Zenon DEF DnsFlows, DataFlows
<1>2. Cardinality(DnsFlows \cup DataFlows)
         = Cardinality(DnsFlows) + Cardinality(DataFlows) - Cardinality(DnsFlows \cap DataFlows)
  BY Finiteness, FS_Union, Zenon
<1>3. Cardinality({}) = 0
  BY FS_EmptySet, Zenon
<1> HIDE DEF DnsFlows, DataFlows
<1> QED BY <1>1, <1>2, <1>3, Finiteness

LEMMA TableInitInv == TableInit => IInv
<1> SUFFICES ASSUME TableInit PROVE IInv
  BY Zenon
<1>1. DOMAIN flows = {} /\ DOMAIN ports = {} /\ DOMAIN noticed = {}
  BY Zenon DEF TableInit
<1>2. DnsFlows = {} /\ DataFlows = {} /\ DataPorts = {}
  BY <1>1, Zenon DEF DnsFlows, DataFlows, DataPorts
<1>3. TypeOK
  BY <1>1, Zenon DEF TableInit, ClockInit, TypeOK
<1>4. CountsAgree
  BY <1>1, <1>2, FS_EmptySet, Zenon DEF TableInit, CountsAgree
<1>5. WithinBudget
  BY <1>1, <1>2, FS_EmptySet DEF WithinBudget
<1>6. GenerationsDistinct
  BY <1>1, Zenon DEF GenerationsDistinct
<1> QED BY <1>3, <1>4, <1>5, <1>6, Zenon DEF IInv

(***************************************************************************)
(* One lemma per action.                                                   *)
(***************************************************************************)
\* Admitting a socket: the budget is respected because a full table gives up a
\* data socket for the new one.
LEMMA AdmitPortInv ==
  ASSUME IInv, NEW t \in Target, NEW shed \in BOOLEAN, AdmitPort(t, shed)
  PROVE  IInv'
<1> USE DEF IInv
<1>1. PICK gone \in SUBSET DataPorts :
         /\ ports' = Put(Without(ports, gone), t, NewPort)
         /\ gone = {} => ~PortsFull(t)
         /\ gone # {} => \E u \in Reclaimable : gone = {u}
  <2>1. CASE ~PortsFull(t) /\ ports' = Put(ports, t, NewPort)
    <3>1. Without(ports, {}) = ports
      BY Zenon DEF Without, Restrict, TypeOK
    <3> QED BY <2>1, <3>1, Zenon
  <2>2. CASE \E u \in ReclaimCandidates : ports' = Put(Without(ports, {u}), t, NewPort)
    BY <2>2, Zenon DEF ReclaimCandidates, Reclaimable, DataPorts
  <2> QED BY <2>1, <2>2, Zenon DEF AdmitPort
<1>2. /\ DOMAIN ports' = (DOMAIN ports \ gone) \cup {t}
      /\ \A u \in DOMAIN ports' : ports'[u] = IF u = t THEN NewPort ELSE ports[u]
      /\ ports' = [u \in DOMAIN ports' |-> ports'[u]]
  BY <1>1, Zenon DEF Put, Without, Restrict
<1>3. /\ flows' = flows /\ dnsSessions' = dnsSessions /\ now' = now
      /\ nextGeneration' = nextGeneration /\ noticed' = noticed
      /\ t \notin DOMAIN ports
  BY Zenon DEF AdmitPort
<1>4. NewPort \in [last : Nat, sessions : Nat] /\ NewPort.sessions = 0
  BY Zenon DEF NewPort, TypeOK
<1>5. TypeOK'
  BY <1>2, <1>3, <1>4, Zenon DEF TypeOK, DataPorts
<1>6. \A u : FlowsOn(u)' = FlowsOn(u)
  BY <1>3, Zenon DEF FlowsOn
<1>7. \A u \in gone : FlowsOn(u) = {}
  <2>1. \A u \in gone : u \in DOMAIN ports /\ ports[u].sessions = 0
    BY <1>1, Zenon DEF Reclaimable, DataPorts
  <2>2. \A u \in gone : Cardinality(FlowsOn(u)) = 0 /\ IsFiniteSet(FlowsOn(u))
    BY <2>1, Finiteness, Zenon DEF CountsAgree
  <2> QED BY <2>2, FS_EmptySet, Zenon
<1>8. FlowsOn(t) = {}
  BY <1>3, Zenon DEF FlowsOn, CountsAgree
<1>9. CountsAgree'
  <2>1. dnsSessions' = Cardinality(DnsFlows')
    BY <1>3, Zenon DEF CountsAgree, DnsFlows
  <2>2. \A f \in DOMAIN flows' : f.target \in DOMAIN ports'
    BY <1>2, <1>3, <1>7, Zenon DEF CountsAgree, FlowsOn
  <2>3. \A u \in DOMAIN ports' : ports'[u].sessions = Cardinality(FlowsOn(u)')
    BY <1>2, <1>4, <1>6, <1>8, FS_EmptySet, Zenon DEF CountsAgree
  <2> QED BY <2>1, <2>2, <2>3, Zenon DEF CountsAgree
<1>10. WithinBudget'
  <2>1. DataFlows' = DataFlows
    BY <1>3, Zenon DEF DataFlows
  <2>2. DataPorts' = (DataPorts \ gone) \cup ({t} \ DnsTarget)
    BY <1>1, <1>2, Zenon DEF DataPorts
  <2>3. IsFiniteSet(DOMAIN ports) /\ IsFiniteSet(DataPorts)
        /\ Cardinality(DOMAIN ports) \in Nat /\ Cardinality(DataPorts) \in Nat
    BY Finiteness, Zenon
  <2>4. Cardinality(DataPorts) <= Cardinality(DOMAIN ports)
    BY <2>3, FS_Subset, Zenon DEF DataPorts
  <2>5. CASE gone = {}
    <3>1. Cardinality(DOMAIN ports') = Cardinality(DOMAIN ports) + 1
      BY <1>2, <1>3, <2>3, <2>5, FS_AddElement
    <3>2. Cardinality(DOMAIN ports) < MaxPorts + IF t \in DnsTarget THEN DnsPortReserve ELSE 0
      BY <1>1, <2>3, <2>5 DEF PortsFull, PortLimit
    <3>3. CASE t \in DnsTarget
      <4>1. DataPorts' = DataPorts
        BY <2>2, <2>5, <3>3, Zenon
      <4> QED BY <1>3, <2>1, <2>3, <3>1, <3>2, <3>3, <4>1 DEF WithinBudget
    <3>4. CASE t \notin DnsTarget
      <4>1. Cardinality(DataPorts') = Cardinality(DataPorts) + 1
        <5>1. DataPorts' = DataPorts \cup {t} /\ t \notin DataPorts
          BY <1>3, <2>2, <2>5, <3>4, Zenon DEF DataPorts
        <5> QED BY <2>3, <5>1, FS_AddElement, Zenon
      <4> QED BY <1>3, <2>1, <2>3, <2>4, <3>1, <3>2, <3>4, <4>1 DEF WithinBudget
    <3> QED BY <3>3, <3>4, Zenon
  <2>6. CASE gone # {}
    <3>1. PICK u \in DataPorts : gone = {u}
      BY <1>1, <2>6, Zenon
    <3>2. Cardinality(DOMAIN ports') = Cardinality(DOMAIN ports)
      <4>1. u \in DOMAIN ports /\ t \notin DOMAIN ports \ {u}
        BY <1>3, Zenon DEF DataPorts
      <4>2. IsFiniteSet(DOMAIN ports \ {u})
            /\ Cardinality(DOMAIN ports \ {u}) = Cardinality(DOMAIN ports) - 1
        BY <2>3, <4>1, FS_RemoveElement
      <4>3. Cardinality((DOMAIN ports \ {u}) \cup {t}) = Cardinality(DOMAIN ports \ {u}) + 1
        BY <4>1, <4>2, FS_AddElement, Zenon
      <4> QED BY <1>2, <2>3, <3>1, <4>2, <4>3
    <3>3. Cardinality(DataPorts') <= Cardinality(DataPorts)
      <4>1. IsFiniteSet(DataPorts \ {u})
            /\ Cardinality(DataPorts \ {u}) = Cardinality(DataPorts) - 1
        BY <2>3, FS_RemoveElement, Zenon
      <4>2. CASE t \in DnsTarget
        <5>1. DataPorts' = DataPorts \ {u}
          BY <2>2, <3>1, <4>2, Zenon
        <5> QED BY <2>3, <4>1, <5>1
      <4>3. CASE t \notin DnsTarget
        <5>1. DataPorts' = (DataPorts \ {u}) \cup {t} /\ t \notin DataPorts \ {u}
          BY <1>3, <2>2, <3>1, <4>3, Zenon DEF DataPorts
        <5>2. Cardinality((DataPorts \ {u}) \cup {t}) = Cardinality(DataPorts \ {u}) + 1
          BY <4>1, <5>1, FS_AddElement, Zenon
        <5> QED BY <2>3, <4>1, <5>1, <5>2
      <4> QED BY <4>2, <4>3, Zenon
    <3>4. Cardinality(DataPorts') \in Nat
      BY <1>5, Finiteness, FS_Difference, FS_Subset, FS_CardinalityType, Zenon DEF DataPorts, TypeOK
    <3> QED BY <1>3, <2>1, <2>3, <3>2, <3>3, <3>4 DEF WithinBudget
  <2> QED BY <2>5, <2>6, Zenon
<1>11. GenerationsDistinct'
  BY <1>3, Zenon DEF GenerationsDistinct
<1> QED BY <1>5, <1>9, <1>10, <1>11, Zenon

\* Traffic through sockets changes their last use only.
LEMMA TouchInv ==
  ASSUME IInv, NEW T \in SUBSET Target, Touch(T)
  PROVE  IInv'
<1> USE DEF IInv
<1>1. /\ flows' = flows /\ dnsSessions' = dnsSessions /\ now' = now
      /\ nextGeneration' = nextGeneration /\ noticed' = noticed
      /\ ports' = [t \in DOMAIN ports |->
                     IF t \in T THEN [ports[t] EXCEPT !.last = now] ELSE ports[t]]
  BY Zenon DEF Touch
<1>2. \A t \in DOMAIN ports : /\ ports'[t] \in [last : Nat, sessions : Nat]
                              /\ ports'[t].sessions = ports[t].sessions
  BY <1>1, Zenon DEF TypeOK
<1>3. DOMAIN ports' = DOMAIN ports
  BY <1>1, Zenon
<1>4. TypeOK'
  BY <1>1, <1>2, <1>3, ZenonT(60) DEF TypeOK
<1>5. CountsAgree'
  BY <1>1, <1>2, <1>3, Zenon DEF CountsAgree, DnsFlows, FlowsOn
<1>6. WithinBudget'
  BY <1>1, <1>3, Zenon DEF WithinBudget, DataFlows, DataPorts
<1>7. GenerationsDistinct'
  BY <1>1, Zenon DEF GenerationsDistinct
<1> QED BY <1>4, <1>5, <1>6, <1>7, Zenon

\* A new session takes a slot its kind still has, and a fresh generation.
LEMMA OpenSessionInv ==
  ASSUME IInv, NEW f \in Flow, NEW shed \in BOOLEAN, OpenSession(f, shed)
  PROVE  IInv'
<1> USE DEF IInv
<1>1. /\ f \notin DOMAIN flows /\ f.target \in DOMAIN ports
      /\ now' = now /\ noticed' = noticed /\ nextGeneration' = nextGeneration + 1
      /\ dnsSessions' = dnsSessions + IF IsDns(f) THEN 1 ELSE 0
      /\ ports' = [ports EXCEPT ![f.target].sessions = @ + 1]
  BY Zenon DEF OpenSession, NewGeneration, DnsCount
<1>2. /\ DOMAIN flows' = DOMAIN flows \cup {f}
      /\ \A h \in DOMAIN flows' : flows'[h] = IF h = f THEN nextGeneration + 1 ELSE flows[h]
      /\ flows' = [h \in DOMAIN flows' |-> flows'[h]]
  BY Zenon DEF OpenSession, NewGeneration, Put
<1>3. /\ DOMAIN ports' = DOMAIN ports
      /\ \A t \in DOMAIN ports : /\ ports'[t] \in [last : Nat, sessions : Nat]
                                 /\ ports'[t].sessions = ports[t].sessions
                                                         + IF t = f.target THEN 1 ELSE 0
      /\ ports' = [t \in DOMAIN ports' |-> ports'[t]]
  <2>1. ports' = [t \in DOMAIN ports |->
                    IF t = f.target THEN [ports[t] EXCEPT !.sessions = @ + 1] ELSE ports[t]]
    BY <1>1, Zenon DEF TypeOK
  <2>2. \A t \in DOMAIN ports : ports[t] \in [last : Nat, sessions : Nat]
    BY Zenon DEF TypeOK
  <2>3. ASSUME NEW t \in DOMAIN ports
        PROVE  /\ ports'[t] \in [last : Nat, sessions : Nat]
               /\ ports'[t].sessions = ports[t].sessions + IF t = f.target THEN 1 ELSE 0
    <3>1. CASE t = f.target
      BY <2>1, <2>2, <3>1
    <3>2. CASE t # f.target
      BY <2>1, <2>2, <3>2
    <3> QED BY <3>1, <3>2, Zenon
  <2> QED BY <2>1, <2>3, Zenon
<1>4. TypeOK'
  BY <1>1, <1>2, <1>3 DEF TypeOK
<1>5. \A t : FlowsOn(t)' = IF t = f.target THEN FlowsOn(t) \cup {f} ELSE FlowsOn(t)
  BY <1>2, Zenon DEF FlowsOn
<1>6. /\ DnsFlows' = IF IsDns(f) THEN DnsFlows \cup {f} ELSE DnsFlows
      /\ DataFlows' = IF IsDns(f) THEN DataFlows ELSE DataFlows \cup {f}
  BY <1>2, Zenon DEF DnsFlows, DataFlows, IsDns
<1>7. f \notin DnsFlows /\ f \notin DataFlows /\ \A t : f \notin FlowsOn(t)
  BY <1>1, Zenon DEF DnsFlows, DataFlows, FlowsOn
<1>8. /\ Cardinality(DnsFlows') = Cardinality(DnsFlows) + IF IsDns(f) THEN 1 ELSE 0
      /\ Cardinality(DataFlows') = Cardinality(DataFlows) + IF IsDns(f) THEN 0 ELSE 1
      /\ Cardinality(DOMAIN flows') = Cardinality(DOMAIN flows) + 1
      /\ \A t : Cardinality(FlowsOn(t)')
                  = Cardinality(FlowsOn(t)) + IF t = f.target THEN 1 ELSE 0
  <2> USE Finiteness
  <2>1. /\ Cardinality(DnsFlows \cup {f}) = Cardinality(DnsFlows) + 1
        /\ Cardinality(DataFlows \cup {f}) = Cardinality(DataFlows) + 1
        /\ Cardinality(DOMAIN flows \cup {f}) = Cardinality(DOMAIN flows) + 1
        /\ \A t : Cardinality(FlowsOn(t) \cup {f}) = Cardinality(FlowsOn(t)) + 1
    BY <1>1, <1>7, FS_AddElement, Zenon
  <2>2. CASE IsDns(f)
    BY <1>2, <1>5, <1>6, <2>1, <2>2
  <2>3. CASE ~IsDns(f)
    BY <1>2, <1>5, <1>6, <2>1, <2>3
  <2> QED BY <2>2, <2>3, Zenon
<1>9. CountsAgree'
  <2>1. dnsSessions' = Cardinality(DnsFlows')
    BY <1>1, <1>8, Zenon DEF CountsAgree
  <2>2. \A h \in DOMAIN flows' : h.target \in DOMAIN ports'
    BY <1>1, <1>2, <1>3, Zenon DEF CountsAgree
  <2>3. \A t \in DOMAIN ports' : ports'[t].sessions = Cardinality(FlowsOn(t)')
    BY <1>3, <1>8 DEF CountsAgree
  <2> QED BY <2>1, <2>2, <2>3, Zenon DEF CountsAgree
<1>10. WithinBudget'
  <2>1. DataPorts' = DataPorts
    BY <1>3, Zenon DEF DataPorts
  <2>2. /\ Cardinality(DOMAIN flows) < MaxSessions
        /\ ~IsDns(f) => Cardinality(DataFlows)
                          < IF MaxSessions > DnsReserve THEN MaxSessions - DnsReserve ELSE 0
    BY <1>1, Finiteness, FlowsSplit
       DEF OpenSession, SessionRefused, Counted, SessionLimit, CountsAgree
  <2> QED BY <1>3, <1>8, <2>1, <2>2, Finiteness DEF WithinBudget
<1>11. GenerationsDistinct'
  BY <1>1, <1>2 DEF GenerationsDistinct, TypeOK
<1> QED BY <1>4, <1>9, <1>10, <1>11, Zenon

\* A completion of the session in the table frees exactly its shares; any other
\* completion changes nothing.
LEMMA EndedInv ==
  ASSUME IInv, NEW f \in Flow, NEW g, Ended(f, g)
  PROVE  IInv'
<1> USE DEF IInv
<1>1. CASE UNCHANGED tableVars
  BY <1>1, Zenon DEF tableVars, TypeOK, CountsAgree, WithinBudget, GenerationsDistinct,
              DnsFlows, DataFlows, FlowsOn, DataPorts
<1>2. CASE f \in DOMAIN flows /\ Remove(f)
  <2>1. /\ now' = now /\ noticed' = noticed /\ nextGeneration' = nextGeneration
        /\ dnsSessions' = dnsSessions - IF IsDns(f) THEN 1 ELSE 0
    BY <1>2, Zenon DEF Remove, DnsCount
  <2>2. /\ DOMAIN flows' = DOMAIN flows \ {f}
        /\ \A h \in DOMAIN flows' : flows'[h] = flows[h]
        /\ flows' = [h \in DOMAIN flows' |-> flows'[h]]
    BY <1>2, Zenon DEF Remove, Without, Restrict
  <2>3. \A t : FlowsOn(t)' = IF t = f.target THEN FlowsOn(t) \ {f} ELSE FlowsOn(t)
    BY <2>2, Zenon DEF FlowsOn
  <2>4. /\ DnsFlows' = IF IsDns(f) THEN DnsFlows \ {f} ELSE DnsFlows
        /\ DataFlows' = IF IsDns(f) THEN DataFlows ELSE DataFlows \ {f}
    BY <2>2, Zenon DEF DnsFlows, DataFlows, IsDns
  <2>5. /\ IsDns(f) => f \in DnsFlows
        /\ ~IsDns(f) => f \in DataFlows
        /\ f \in FlowsOn(f.target)
    BY <1>2, Zenon DEF DnsFlows, DataFlows, FlowsOn
  <2>6. /\ Cardinality(DnsFlows') = Cardinality(DnsFlows) - IF IsDns(f) THEN 1 ELSE 0
        /\ Cardinality(DataFlows') = Cardinality(DataFlows) - IF IsDns(f) THEN 0 ELSE 1
        /\ Cardinality(DOMAIN flows') = Cardinality(DOMAIN flows) - 1
        /\ \A t : Cardinality(FlowsOn(t)')
                    = Cardinality(FlowsOn(t)) - IF t = f.target THEN 1 ELSE 0
    <3> USE Finiteness
    <3>1. /\ IsDns(f) => Cardinality(DnsFlows \ {f}) = Cardinality(DnsFlows) - 1
          /\ ~IsDns(f) => Cardinality(DataFlows \ {f}) = Cardinality(DataFlows) - 1
          /\ Cardinality(DOMAIN flows \ {f}) = Cardinality(DOMAIN flows) - 1
          /\ Cardinality(FlowsOn(f.target) \ {f}) = Cardinality(FlowsOn(f.target)) - 1
      BY <1>2, <2>5, FS_RemoveElement, Zenon
    <3>2. ASSUME NEW t
          PROVE  Cardinality(FlowsOn(t)')
                   = Cardinality(FlowsOn(t)) - IF t = f.target THEN 1 ELSE 0
      <4>1. CASE t = f.target
        BY <2>3, <3>1, <4>1, Zenon
      <4>2. CASE t # f.target
        BY <2>3, <4>2
      <4> QED BY <4>1, <4>2, Zenon
    <3>3. CASE IsDns(f)
      BY <2>2, <2>4, <3>1, <3>2, <3>3
    <3>4. CASE ~IsDns(f)
      BY <2>2, <2>4, <3>1, <3>2, <3>4
    <3> QED BY <3>3, <3>4, Zenon
  <2>8. ports[f.target].sessions >= 1
    <3>1. Cardinality(FlowsOn(f.target)) # 0
      BY <2>5, Finiteness, FS_EmptySet, Zenon
    <3> QED BY <1>2, <3>1, Finiteness DEF CountsAgree
  <2>9. /\ DOMAIN ports' = DOMAIN ports
        /\ \A t \in DOMAIN ports : /\ ports'[t] \in [last : Nat, sessions : Nat]
                                   /\ ports'[t].sessions = ports[t].sessions
                                                           - IF t = f.target THEN 1 ELSE 0
        /\ ports' = [t \in DOMAIN ports' |-> ports'[t]]
    <3>1. ports' = [t \in DOMAIN ports |->
                      IF t = f.target
                      THEN [last |-> now, sessions |-> IF ports[t].sessions = 0 THEN 0
                                                       ELSE ports[t].sessions - 1]
                      ELSE ports[t]]
      BY <1>2, Zenon DEF Remove, Released
    <3>2. ASSUME NEW t \in DOMAIN ports
          PROVE  /\ ports'[t] \in [last : Nat, sessions : Nat]
                 /\ ports'[t].sessions = ports[t].sessions - IF t = f.target THEN 1 ELSE 0
      <4>1. ports[t] \in [last : Nat, sessions : Nat] /\ now \in Nat
        BY Zenon DEF TypeOK
      <4> QED BY <2>8, <3>1, <4>1
    <3> QED BY <3>1, <3>2, Zenon
  <2>10. TypeOK'
    <3>1. dnsSessions' \in Nat
      <4>1. IsDns(f) => Cardinality(DnsFlows) # 0
        BY <2>5, Finiteness, FS_EmptySet, Zenon
      <4> QED BY <2>1, <4>1, Finiteness DEF CountsAgree, TypeOK
    <3> QED BY <2>1, <2>2, <2>9, <3>1, Zenon DEF TypeOK
  <2>11. CountsAgree'
    <3>1. dnsSessions' = Cardinality(DnsFlows')
      BY <2>1, <2>6, Zenon DEF CountsAgree
    <3>2. \A h \in DOMAIN flows' : h.target \in DOMAIN ports'
      BY <2>2, <2>9, Zenon DEF CountsAgree
    <3>3. \A t \in DOMAIN ports' : ports'[t].sessions = Cardinality(FlowsOn(t)')
      BY <2>6, <2>9 DEF CountsAgree
    <3> QED BY <3>1, <3>2, <3>3, Zenon DEF CountsAgree
  <2>12. WithinBudget'
    <3>1. DataPorts' = DataPorts
      BY <2>9, Zenon DEF DataPorts
    <3> QED BY <2>6, <2>9, <3>1, Finiteness DEF WithinBudget
  <2>13. GenerationsDistinct'
    BY <2>1, <2>2, Zenon DEF GenerationsDistinct
  <2> QED BY <2>10, <2>11, <2>12, <2>13, Zenon
<1> QED BY <1>1, <1>2, Zenon DEF Ended, Current

\* A notice touches nothing the invariants speak of but its own map.
LEMMA NoticeInv ==
  ASSUME IInv, NEW f \in Flow, Notice(f)
  PROVE  IInv'
<1> USE DEF IInv
<1>1. TypeOK'
  BY Zenon DEF Notice, Put, TypeOK
<1>2. CountsAgree' /\ WithinBudget' /\ GenerationsDistinct'
  BY Zenon DEF Notice, CountsAgree, WithinBudget, GenerationsDistinct,
         DnsFlows, DataFlows, FlowsOn, DataPorts
<1> QED BY <1>1, <1>2, Zenon

\* Expiry drops sockets together with all their sessions.
LEMMA ExpireInv ==
  ASSUME IInv, Expire
  PROVE  IInv'
<1> USE DEF IInv
<1>1. /\ DOMAIN flows' = DOMAIN flows \ StaleFlows
      /\ \A h \in DOMAIN flows' : flows'[h] = flows[h]
      /\ flows' = [h \in DOMAIN flows' |-> flows'[h]]
  BY Zenon DEF Expire, Without, Restrict
<1>2. /\ DOMAIN ports' = DOMAIN ports \ StalePorts
      /\ \A t \in DOMAIN ports' : ports'[t] = ports[t]
      /\ ports' = [t \in DOMAIN ports' |-> ports'[t]]
  BY Zenon DEF Expire, Without, Restrict
<1>3. /\ now' = now /\ nextGeneration' = nextGeneration
      /\ DOMAIN noticed' \subseteq DOMAIN noticed
      /\ \A h \in DOMAIN noticed' : noticed'[h] = noticed[h]
      /\ dnsSessions' = dnsSessions - Cardinality({f \in StaleFlows : IsDns(f)})
  BY Zenon DEF Expire, Without, Restrict
<1>4. /\ DnsFlows' = DnsFlows \ {f \in StaleFlows : IsDns(f)}
      /\ {f \in StaleFlows : IsDns(f)} = DnsFlows \cap {f \in StaleFlows : IsDns(f)}
      /\ DataFlows' \subseteq DataFlows
      /\ DataPorts' \subseteq DataPorts
  BY <1>1, <1>2, Zenon DEF DnsFlows, DataFlows, DataPorts, StaleFlows
<1>5. Cardinality(DnsFlows')
         = Cardinality(DnsFlows) - Cardinality({f \in StaleFlows : IsDns(f)})
  <2> DEFINE gone == {f \in StaleFlows : IsDns(f)}
  <2>1. Cardinality(DnsFlows \ gone) = Cardinality(DnsFlows) - Cardinality(DnsFlows \cap gone)
    BY Finiteness, FS_Difference, Zenon
  <2>2. DnsFlows' = DnsFlows \ gone /\ DnsFlows \cap gone = gone
    BY <1>4, Zenon
  <2> HIDE DEF gone
  <2> QED BY <2>1, <2>2, Zenon DEF gone
<1>6. IsFiniteSet(DnsFlows') /\ Cardinality(DnsFlows') \in Nat
  BY <1>4, Finiteness, FS_Difference, FS_CardinalityType, Zenon
<1>7. TypeOK'
  <2>1. dnsSessions' \in Nat
    BY <1>3, <1>5, <1>6, Zenon DEF CountsAgree
  <2> QED BY <1>1, <1>2, <1>3, <2>1, Zenon DEF TypeOK
<1>8. \A t \in DOMAIN ports' : FlowsOn(t)' = FlowsOn(t)
  BY <1>1, <1>2, Zenon DEF FlowsOn, StaleFlows
<1>9. CountsAgree'
  <2>1. \A f \in DOMAIN flows' : f.target \in DOMAIN ports'
    BY <1>1, <1>2, Zenon DEF CountsAgree, StaleFlows
  <2>2. \A t \in DOMAIN ports' : ports'[t].sessions = Cardinality(FlowsOn(t)')
    BY <1>2, <1>8, Zenon DEF CountsAgree
  <2> QED BY <1>3, <1>5, <2>1, <2>2, Zenon DEF CountsAgree
<1>10. WithinBudget'
  <2>1. /\ Cardinality(DOMAIN flows') <= Cardinality(DOMAIN flows)
        /\ Cardinality(DOMAIN ports') <= Cardinality(DOMAIN ports)
        /\ Cardinality(DataFlows') <= Cardinality(DataFlows)
        /\ Cardinality(DataPorts') <= Cardinality(DataPorts)
    BY <1>1, <1>2, <1>4, Finiteness, FS_Subset, Zenon
  <2>2. /\ Cardinality(DOMAIN flows') \in Nat /\ Cardinality(DOMAIN ports') \in Nat
        /\ Cardinality(DataFlows') \in Nat /\ Cardinality(DataPorts') \in Nat
    BY <1>1, <1>2, <1>4, Finiteness, FS_Subset, FS_CardinalityType, Zenon
  <2> QED BY <2>1, <2>2, Finiteness DEF WithinBudget
<1>11. GenerationsDistinct'
  BY <1>1, <1>3, Zenon DEF GenerationsDistinct
<1> QED BY <1>7, <1>9, <1>10, <1>11, Zenon

\* A purge empties the table.
LEMMA PurgeInv ==
  ASSUME IInv, Purge
  PROVE  IInv'
<1> USE DEF IInv
<1>1. /\ DOMAIN flows' = {} /\ DOMAIN ports' = {}
      /\ flows' = [f \in DOMAIN flows' |-> flows'[f]]
      /\ ports' = [t \in DOMAIN ports' |-> ports'[t]]
  BY Zenon DEF Purge
<1>4. DnsFlows' = {} /\ DataFlows' = {} /\ DataPorts' = {}
  BY <1>1, Zenon DEF DnsFlows, DataFlows, DataPorts
<1>2. TypeOK'
  BY <1>1, Zenon DEF Purge, TypeOK
<1>3. CountsAgree' /\ WithinBudget' /\ GenerationsDistinct'
  BY <1>1, <1>4, FS_EmptySet DEF Purge, CountsAgree, WithinBudget, GenerationsDistinct
<1> QED BY <1>2, <1>3, Zenon

\* Time passes, or nothing happens.
LEMMA TickInv ==
  ASSUME IInv, Tick \/ UNCHANGED tableVars
  PROVE  IInv'
<1>1. /\ flows' = flows /\ ports' = ports /\ dnsSessions' = dnsSessions
      /\ nextGeneration' = nextGeneration /\ noticed' = noticed
      /\ now' \in Nat
  BY DEF Tick, Advance, tableVars, IInv, TypeOK
<1>2. TypeOK'
  BY <1>1, Zenon DEF IInv, TypeOK
<1>3. CountsAgree' /\ WithinBudget' /\ GenerationsDistinct'
  BY <1>1, Zenon DEF IInv, CountsAgree, WithinBudget, GenerationsDistinct,
              DnsFlows, DataFlows, FlowsOn, DataPorts
<1> QED BY <1>2, <1>3, Zenon DEF IInv

-----------------------------------------------------------------------------
\* Every call preserves the inductive invariant.
LEMMA TableNextInv == IInv /\ [TableNext]_tableVars => IInv'
<1> SUFFICES ASSUME IInv, [TableNext]_tableVars PROVE IInv'
  BY Zenon
<1>1. CASE \E t \in Target, shed \in BOOLEAN : AdmitPort(t, shed)
  BY <1>1, AdmitPortInv, Zenon
<1>2. CASE \E T \in SUBSET Target : Touch(T)
  BY <1>2, TouchInv, Zenon
<1>3. CASE \E f \in Flow, shed \in BOOLEAN : OpenSession(f, shed)
  BY <1>3, OpenSessionInv, Zenon
<1>4. CASE \E f \in Flow, g \in 1..nextGeneration : Ended(f, g)
  BY <1>4, EndedInv, Zenon
<1>5. CASE \E f \in Flow : Notice(f)
  BY <1>5, NoticeInv, Zenon
<1>6. CASE Expire
  BY <1>6, ExpireInv, Zenon
<1>7. CASE Purge
  BY <1>7, PurgeInv, Zenon
<1>8. CASE Tick \/ UNCHANGED tableVars
  BY <1>8, TickInv, Zenon
<1> QED BY <1>1, <1>2, <1>3, <1>4, <1>5, <1>6, <1>7, <1>8, Zenon DEF TableNext

\* The inductive invariant holds in every state of the table.
THEOREM TableInvariant == TableSpec => []IInv
BY TableInitInv, TableNextInv, PTL DEF TableSpec

\* Type correctness of the UDP table.
THEOREM TableTypeCorrect == TableSpec => []TypeOK
<1>1. IInv => TypeOK
  BY Zenon DEF IInv
<1> QED BY <1>1, TableInvariant, PTL

\* dns_sessions and every socket's session count are exact, and every session's
\* socket exists, whatever the caller does.
THEOREM TableCountsAgree == TableSpec => []CountsAgree
<1>1. IInv => CountsAgree
  BY Zenon DEF IInv
<1> QED BY <1>1, TableInvariant, PTL

\* The session and socket budgets, and the parts of them kept for DNS, hold.
THEOREM TableWithinBudget == TableSpec => []WithinBudget
<1>1. IInv => WithinBudget
  BY Zenon DEF IInv
<1> QED BY <1>1, TableInvariant, PTL

\* Generations name sessions: live ones are distinct and behind the counter.
THEOREM TableGenerations == TableSpec => []GenerationsDistinct
<1>1. IInv => GenerationsDistinct
  BY Zenon DEF IInv
<1> QED BY <1>1, TableInvariant, PTL

\* While the DNS reserve is not used up, a DNS session and a DNS socket are
\* admitted, for every budget: data flows cannot starve name lookups.
THEOREM TableDnsNeverStarved == TableSpec => []DnsNeverStarved
<1>1. ASSUME IInv PROVE DnsNeverStarved
  <2> USE <1>1 DEF IInv
  <2>1. ASSUME Cardinality(DnsFlows) < DnsReserve, DnsReserve <= MaxSessions,
               NEW f \in Flow, IsDns(f)
        PROVE  ~SessionRefused(f, TRUE)
    <3>1. Cardinality(DOMAIN flows) < MaxSessions
      BY <2>1, FlowsSplit, Finiteness DEF WithinBudget
    <3> QED BY <2>1, <3>1, Finiteness DEF SessionRefused, Counted, SessionLimit
  <2>2. ASSUME Cardinality(DOMAIN ports \cap DnsTarget) < DnsPortReserve,
               NEW t \in DnsTarget
        PROVE  ~PortRefused(t, TRUE)
    <3>1. Cardinality(DataPorts)
            = Cardinality(DOMAIN ports) - Cardinality(DOMAIN ports \cap DnsTarget)
      BY Finiteness, FS_Difference, Zenon DEF DataPorts
    <3>2. Cardinality(DOMAIN ports \cap DnsTarget) \in Nat
      BY Finiteness, FS_Intersection, FS_CardinalityType, Zenon
    <3>3. Cardinality(DOMAIN ports) < MaxPorts + DnsPortReserve
      BY <2>2, <3>1, <3>2, Finiteness DEF WithinBudget
    <3> QED BY <3>3, Finiteness DEF PortRefused, PortsFull, PortLimit
  <2> QED BY <2>1, <2>2, Zenon DEF DnsNeverStarved
<1> QED BY <1>1, TableInvariant, PTL

-----------------------------------------------------------------------------
\* Flows in the queues come from Recv, and the guard's state is a flag.
LoopOK ==
    /\ shedding \in BOOLEAN
    /\ incoming \in SUBSET Flow
    /\ received \in SUBSET Flow

-----------------------------------------------------------------------------
(* The loop implements the table *)

LEMMA LoopInit == Init => TableInit /\ LoopOK
BY Zenon DEF Init, GuardInit, LoopOK

\* A touch of sockets is one of the targets' sockets.
LEMMA TouchStep == ASSUME TypeOK, NEW targets, Touch(targets) PROVE TableNext
<1>1. DOMAIN ports \subseteq Target
  BY Zenon DEF TypeOK
<1>2. Touch(targets \cap Target)
  BY <1>1, Zenon DEF Touch
<1> QED BY <1>2, Zenon DEF TableNext

\* A completion is one of a session of the table, or changes nothing.
LEMMA EndedStep ==
    ASSUME IInv, NEW f, NEW g, Ended(f, g) PROVE [TableNext]_tableVars
<1>1. CASE Current(f, g)
  <2>1. f \in Flow /\ g \in 1..nextGeneration
    BY <1>1, Zenon DEF IInv, TypeOK, GenerationsDistinct, Current
  <2> QED BY <2>1, Zenon DEF TableNext
<1>2. CASE ~Current(f, g)
  BY <1>2, Zenon DEF Ended
<1> QED BY <1>1, <1>2, Zenon

LEMMA RecvStep ==
    ASSUME LoopOK, NEW f \in Flow, RecvAdmitted(f) \/ RecvRefused(f)
    PROVE  [TableNext]_tableVars /\ LoopOK'
<1>1. f.target \in Target
  BY Zenon DEF Flow
<1>2. CASE RecvAdmitted(f)
  BY <1>1, <1>2, Zenon DEF RecvAdmitted, Bind, TableNext, LoopOK, guardVars
<1>3. CASE RecvRefused(f)
  BY <1>3, Zenon DEF RecvRefused, TableNext, LoopOK, guardVars, loopVars
<1> QED BY <1>2, <1>3, Zenon

LEMMA GuardStep ==
    ASSUME LoopOK, NEW footprint \in Footprint, GuardCheck(footprint)
    PROVE  [TableNext]_tableVars /\ LoopOK'
<1>1. shedding' \in BOOLEAN
  BY Zenon DEF GuardCheck, Decide, Sheds, Closes
<1> QED BY <1>1, Zenon DEF GuardCheck, TableNext, LoopOK

LEMMA DatagramStep ==
    ASSUME LoopOK, NEW f \in received, HandleDatagram(f)
    PROVE  [TableNext]_tableVars /\ LoopOK'
BY Zenon DEF HandleDatagram, TableNext, LoopOK, guardVars

LEMMA ReplyStep ==
    ASSUME IInv, LoopOK, HandleReply PROVE [TableNext]_tableVars /\ LoopOK'
BY TouchStep, Zenon DEF HandleReply, LoopOK, guardVars, IInv

LEMMA LoopRefines ==
    ASSUME IInv, LoopOK, [Next]_vars PROVE [TableNext]_tableVars /\ LoopOK'
<1>1. CASE Recv
  BY <1>1, RecvStep, Zenon DEF Recv
<1>2. CASE LoopStep
  <2>1. CASE Wake \/ GuardIdle \/ DatagramsDone \/ RepliesDone
    BY <2>1, Zenon DEF Wake, GuardIdle, DatagramsDone, RepliesDone, LoopOK, guardVars
  <2>2. CASE \E footprint \in Footprint : GuardCheck(footprint)
    BY <2>2, GuardStep, Zenon
  <2>3. CASE \E taken \in SUBSET incoming : Poll(taken)
    BY <2>3, Zenon DEF Poll, LoopOK, guardVars
  <2>4. CASE \E k \in tasks : Join(k)
    BY <2>4, EndedStep, Zenon DEF Join, LoopOK, guardVars
  <2>5. CASE Collect
    BY <2>5, TouchStep, Zenon DEF Collect, LoopOK, guardVars, IInv
  <2>6. CASE \E f \in received : HandleDatagram(f)
    BY <2>6, DatagramStep, Zenon
  <2>7. CASE HandleReply
    BY <2>7, ReplyStep, Zenon
  <2>8. CASE LoopExpire
    BY <2>8, Zenon DEF LoopExpire, TableNext, LoopOK, guardVars
  <2> QED BY <1>2, <2>1, <2>2, <2>3, <2>4, <2>5, <2>6, <2>7, <2>8, Zenon DEF LoopStep
<1>3. CASE Stop
  BY <1>3, Zenon DEF Stop, LoopOK, guardVars
<1>4. CASE \E k \in tasks : SessionStep(k)
  BY <1>4, Zenon DEF SessionStep, Connect, Reject, Finish, Becomes, Reply, Cancelled, LoopOK, guardVars, loopVars
<1>5. CASE Elapse
  BY <1>5, Zenon DEF Elapse, TableNext, LoopOK, guardVars, loopVars
<1>6. CASE UNCHANGED vars
  BY <1>6, Zenon DEF vars, LoopOK, guardVars, loopVars
<1> QED BY <1>1, <1>2, <1>3, <1>4, <1>5, <1>6, Zenon DEF Next

\* The loop of packet.rs calls UdpTable only as its specification allows, for
\* every budget, channel size and number of endpoints.
THEOREM LoopImplementsTable == Spec => TableSpec
<1>1. Init => TableInit /\ IInv /\ LoopOK
  BY LoopInit, TableInitInv, Zenon
<1>2. IInv /\ LoopOK /\ [Next]_vars => IInv' /\ LoopOK' /\ [TableNext]_tableVars
  BY LoopRefines, TableNextInv, Zenon
<1> QED BY <1>1, <1>2, PTL DEF Spec, TableSpec

\* The loop's table keeps its counters exact and every session's socket.
THEOREM LoopCountsAgree == Spec => []CountsAgree
BY LoopImplementsTable, TableCountsAgree, PTL

\* The loop's sessions and sockets stay within their budgets.
THEOREM LoopWithinBudget == Spec => []WithinBudget
BY LoopImplementsTable, TableWithinBudget, PTL

\* Data flows cannot starve name lookups, whatever the guard decides.
THEOREM LoopDnsNeverStarved == Spec => []DnsNeverStarved
BY LoopImplementsTable, TableDnsNeverStarved, PTL

-----------------------------------------------------------------------------
(* The cooldown of the guard *)

NoData == DataFlows = {} /\ DataPorts = {}

\* The guard refuses new flows as long as it cools down, so that none comes in.
CoolInv ==
    /\ closedAt \in SUBSET Nat
    /\ (\E at \in closedAt : Cooling(at)) => shedding /\ NoData

\* What the table does under a guard that refuses adds no data flow or socket.
LEMMA RecvNoData ==
    ASSUME NoData, shedding, NEW f, Bind(f.target) PROVE NoData'
<1>1. CASE UNCHANGED tableVars
  BY <1>1, Zenon DEF NoData, DataFlows, DataPorts, IsDns, tableVars
<1>2. CASE AdmitPort(f.target, shedding)
  <2>1. f.target \in DnsTarget
    BY <1>2, Zenon DEF AdmitPort, PortRefused
  <2>2. DOMAIN ports' \subseteq DOMAIN ports \cup {f.target}
    BY <1>2, Zenon DEF AdmitPort, Put, Without, Restrict
  <2>3. flows' = flows
    BY <1>2, Zenon DEF AdmitPort
  <2> QED BY <2>1, <2>2, <2>3, Zenon DEF NoData, DataFlows, DataPorts, IsDns
<1> QED BY <1>1, <1>2, Zenon DEF Bind

LEMMA OpenNoData ==
    ASSUME NoData, shedding, NEW f, OpenSession(f, shedding) PROVE NoData'
<1>1. IsDns(f)
  BY Zenon DEF OpenSession, SessionRefused
<1>2. DOMAIN flows' = DOMAIN flows \cup {f} /\ DOMAIN ports' = DOMAIN ports
  BY Zenon DEF OpenSession, Put
<1> QED BY <1>1, <1>2, Zenon DEF NoData, DataFlows, DataPorts, IsDns

LEMMA ShrinkNoData ==
    ASSUME NoData, DOMAIN flows' \subseteq DOMAIN flows, DOMAIN ports' \subseteq DOMAIN ports
    PROVE  NoData'
BY Zenon DEF NoData, DataFlows, DataPorts, IsDns

\* A critical reading starts a cooldown with nothing left; another one keeps
\* refusing while the last cooldown lasts.
LEMMA GuardCools ==
    ASSUME CoolInv, TypeOK, NEW footprint \in Footprint, GuardCheck(footprint) PROVE CoolInv'
<1>1. CASE Closes(footprint)
  <2>1. closedAt' = {now} /\ now' = now /\ now \in Nat
    BY <1>1, Zenon DEF GuardCheck, Decide, Purge, TypeOK
  <2>2. NoData'
    BY <1>1, Zenon DEF GuardCheck, Purge, NoData, DataFlows, DataPorts
  <2>3. ASSUME NEW at \in closedAt', Cooling(at)' PROVE shedding'
    <3>1. at = now /\ Cooling(at)
      BY <2>1, <2>3, Zenon DEF Cooling
    <3>2. Sheds(footprint)
      BY <1>1, <2>1, <3>1, Zenon DEF Sheds
    <3> QED BY <3>2, Zenon DEF GuardCheck, Decide
  <2> QED BY <2>1, <2>2, <2>3, Zenon DEF CoolInv
<1>2. CASE ~Closes(footprint)
  <2>1. closedAt' = closedAt /\ UNCHANGED tableVars
    BY <1>2, Zenon DEF GuardCheck, Decide
  <2>2. ASSUME NEW at \in closedAt', Cooling(at)' PROVE shedding' /\ NoData'
    <3>1. at \in closedAt /\ Cooling(at)
      BY <2>1, <2>2, Zenon DEF Cooling, tableVars
    <3>2. shedding /\ NoData
      BY <3>1, Zenon DEF CoolInv
    <3>3. Sheds(footprint)
      BY <2>1, <3>1, <3>2, Zenon DEF Sheds
    <3> QED BY <2>1, <3>2, <3>3, ShrinkNoData, Zenon DEF GuardCheck, Decide, tableVars
  <2> QED BY <2>1, <2>2, Zenon DEF CoolInv
<1> QED BY <1>1, <1>2, Zenon

\* With the guard's state and the clock alone, only the table matters.
LEMMA CoolFrame ==
    ASSUME CoolInv, UNCHANGED <<guardVars, now>>, shedding /\ NoData => NoData' PROVE CoolInv'
BY Zenon DEF CoolInv, Cooling, guardVars

LEMMA ElapseCools == ASSUME CoolInv, TypeOK, Elapse PROVE CoolInv'
<1>1. now' = now + 1 /\ now \in Nat /\ closedAt' = closedAt /\ shedding' = shedding
  BY Zenon DEF Elapse, Tick, Advance, guardVars, TypeOK
<1>2. NoData => NoData'
  BY ShrinkNoData, Zenon DEF Elapse, Tick
<1>3. \A at \in closedAt : Cooling(at)' => Cooling(at)
  BY <1>1, MemoryGuardAssumption DEF CoolInv, Cooling
<1> QED BY <1>1, <1>2, <1>3, Zenon DEF CoolInv

LEMMA CoolNext == ASSUME TypeOK, CoolInv, [Next]_vars PROVE CoolInv'
<1>1. ASSUME NEW f \in Flow, RecvAdmitted(f) \/ RecvRefused(f) PROVE CoolInv'
  <2>1. CASE RecvAdmitted(f)
    <3>1. now' = now
      BY <2>1, Zenon DEF RecvAdmitted, Bind, AdmitPort, tableVars
    <3> QED BY <2>1, <3>1, RecvNoData, CoolFrame, Zenon DEF RecvAdmitted
  <2>2. CASE RecvRefused(f)
    BY <2>2, ShrinkNoData, CoolFrame, Zenon DEF RecvRefused, Notice
  <2> QED BY <1>1, <2>1, <2>2, Zenon
<1>2. CASE LoopStep
  <2>1. CASE Wake \/ GuardIdle \/ DatagramsDone \/ RepliesDone
    BY <2>1, ShrinkNoData, CoolFrame, Zenon DEF Wake, GuardIdle, DatagramsDone, RepliesDone, tableVars
  <2>2. CASE \E footprint \in Footprint : GuardCheck(footprint)
    BY <2>2, GuardCools, Zenon
  <2>3. CASE \E taken \in SUBSET incoming : Poll(taken)
    BY <2>3, ShrinkNoData, CoolFrame, Zenon DEF Poll, tableVars
  <2>4. ASSUME NEW k \in tasks, Join(k) PROVE CoolInv'
    <3>1. DOMAIN flows' \subseteq DOMAIN flows /\ DOMAIN ports' \subseteq DOMAIN ports /\ now' = now
      BY <2>4, Zenon DEF Join, Ended, Remove, Without, Restrict, tableVars
    <3> QED BY <2>4, <3>1, ShrinkNoData, CoolFrame, Zenon DEF Join
  <2>5. CASE Collect
    BY <2>5, ShrinkNoData, CoolFrame, Zenon DEF Collect, Touch
  <2>6. ASSUME NEW f \in received, HandleDatagram(f) PROVE CoolInv'
    <3>1. now' = now /\ UNCHANGED guardVars
      BY <2>6, Zenon DEF HandleDatagram, OpenSession, Notice, tableVars
    <3>2. CASE OpenSession(f, shedding)
      BY <3>1, <3>2, OpenNoData, CoolFrame, Zenon
    <3>3. CASE UNCHANGED tableVars \/ Notice(f)
      BY <3>1, <3>3, ShrinkNoData, CoolFrame, Zenon DEF Notice, tableVars
    <3> QED BY <2>6, <3>2, <3>3, Zenon DEF HandleDatagram
  <2>7. CASE HandleReply
    BY <2>7, ShrinkNoData, CoolFrame, Zenon DEF HandleReply, Touch, tableVars
  <2>8. CASE LoopExpire
    <3>1. DOMAIN flows' \subseteq DOMAIN flows /\ DOMAIN ports' \subseteq DOMAIN ports /\ now' = now
      BY <2>8, Zenon DEF LoopExpire, Expire, Without, Restrict
    <3> QED BY <2>8, <3>1, ShrinkNoData, CoolFrame, Zenon DEF LoopExpire
  <2> QED BY <1>2, <2>1, <2>2, <2>3, <2>4, <2>5, <2>6, <2>7, <2>8, Zenon DEF LoopStep
<1>3. CASE Stop
  BY <1>3, ShrinkNoData, CoolFrame, Zenon DEF Stop, tableVars
<1>4. ASSUME NEW k \in tasks, SessionStep(k) PROVE CoolInv'
  BY <1>4, ShrinkNoData, CoolFrame, Zenon
     DEF SessionStep, Connect, Reject, Finish, Becomes, Reply, Cancelled, tableVars
<1>5. CASE Elapse
  BY <1>5, ElapseCools, Zenon
<1>6. CASE UNCHANGED vars
  BY <1>6, ShrinkNoData, CoolFrame, Zenon DEF vars, tableVars
<1> QED BY <1>1, <1>2, <1>3, <1>4, <1>5, <1>6, Zenon DEF Next, Recv

\* After a critical footprint no data session or socket exists until the
\* cooldown is over, for every threshold, margin and reading.
THEOREM LoopReleasedWhileCooling == Spec => []ReleasedWhileCooling
<1>1. Init => CoolInv
  BY Zenon DEF Init, GuardInit, CoolInv
<1>2. TypeOK /\ CoolInv /\ [Next]_vars => CoolInv'
  BY CoolNext, Zenon
<1>3. CoolInv => ReleasedWhileCooling
  BY Zenon DEF CoolInv, NoData, ReleasedWhileCooling
<1> QED BY <1>1, <1>2, <1>3, LoopImplementsTable, TableTypeCorrect, PTL DEF Spec

-----------------------------------------------------------------------------
(* Table and tasks *)

\* Generations are given once, also among tasks that left the table.
TasksOK ==
    /\ tasks \in SUBSET Task
    /\ \A k \in tasks : k.generation \in 1..nextGeneration
    /\ \A k, l \in tasks : k.generation = l.generation => k = l

RefusedOK == \A f \in DOMAIN refused : refused[f] \in Nat

LiveListed == \A k \in tasks : k.state \in Running /\ ~k.aborted => Current(k.flow, k.generation)
ListedHasTask ==
    \A f \in DOMAIN flows : \E k \in tasks : k.flow = f /\ k.generation = flows[f] /\ ~k.aborted
ListedNotRefused == \A f \in DOMAIN flows : ~StillRefused(f)
Match == LiveListed /\ ListedHasTask /\ ListedNotRefused

MatchInv == TasksOK /\ RefusedOK /\ (phase # "stopped" => Match)

\* A flow is refused later only if it was, as long as none is added.
LEMMA HousekeepShrinks ==
    ASSUME Housekeep, RefusedOK, UNCHANGED now
    PROVE  RefusedOK' /\ \A f : StillRefused(f)' => StillRefused(f)
BY Zenon DEF Housekeep, RefusedOK, StillRefused, Without, Restrict

\* Sessions that leave the table are aborted; the others keep their tasks.
LEMMA AbortMatches ==
    ASSUME TasksOK, Match, NEW leaving \in SUBSET DOMAIN flows, Abort(leaving),
           UNCHANGED nextGeneration,
           DOMAIN flows' = DOMAIN flows \ leaving,
           \A f \in DOMAIN flows' : flows'[f] = flows[f],
           \A f : StillRefused(f)' => StillRefused(f)
    PROVE  TasksOK' /\ Match'
<1> DEFINE goes(k) == k.flow \in leaving /\ flows[k.flow] = k.generation /\ k.state \in Running
           mark(k) == IF goes(k) THEN [k EXCEPT !.aborted = TRUE] ELSE k
<1>1. tasks' = {mark(k) : k \in tasks}
  BY Zenon DEF Abort
<1>2. \A k \in tasks : /\ mark(k) \in Task
                       /\ mark(k).flow = k.flow /\ mark(k).generation = k.generation
                       /\ mark(k).state = k.state
                       /\ goes(k) => mark(k).aborted
                       /\ ~goes(k) => mark(k) = k
  BY ZenonT(60) DEF TasksOK, Task
<1> HIDE DEF mark
<1>3. TasksOK'
  <2>1. tasks' \in SUBSET Task
    BY <1>1, <1>2
  <2>2. \A k \in tasks' : k.generation \in 1..nextGeneration'
    BY <1>1, <1>2 DEF TasksOK
  <2>3. ASSUME NEW k \in tasks', NEW l \in tasks', k.generation = l.generation PROVE k = l
    <3>1. PICK a \in tasks : k = mark(a)
      BY <1>1, Zenon
    <3>2. PICK b \in tasks : l = mark(b)
      BY <1>1, Zenon
    <3>3. a = b
      BY <1>2, <2>3, <3>1, <3>2 DEF TasksOK
    <3> QED BY <3>1, <3>2, <3>3, Zenon
  <2> QED BY <2>1, <2>2, <2>3, Zenon DEF TasksOK
<1>4. ASSUME NEW k \in tasks', k.state \in Running, ~k.aborted PROVE Current(k.flow, k.generation)'
  <2>1. PICK a \in tasks : k = mark(a)
    BY <1>1, Zenon
  <2>2. ~goes(a) /\ k = a
    BY <1>2, <1>4, <2>1, Zenon
  <2>3. Current(a.flow, a.generation)
    BY <1>4, <2>2, Zenon DEF Match, LiveListed
  <2> QED BY <1>4, <2>2, <2>3, Zenon DEF Current
<1>5. ASSUME NEW f \in DOMAIN flows'
      PROVE  \E k \in tasks' : k.flow = f /\ k.generation = flows'[f] /\ ~k.aborted
  <2>1. PICK k \in tasks : k.flow = f /\ k.generation = flows[f] /\ ~k.aborted
    BY <1>5, Zenon DEF Match, ListedHasTask
  <2>2. mark(k) = k
    BY <1>2, <1>5, <2>1, Zenon
  <2> QED BY <1>1, <1>5, <2>1, <2>2, Zenon
<1>6. ListedNotRefused'
  BY Zenon DEF Match, ListedNotRefused
<1> QED BY <1>3, <1>4, <1>5, <1>6, Zenon DEF Match, LiveListed, ListedHasTask

LEMMA GuardMatches ==
    ASSUME TypeOK, TasksOK, RefusedOK, Match, NEW footprint \in Footprint, GuardCheck(footprint)
    PROVE  TasksOK' /\ RefusedOK' /\ Match'
<1>1. now' = now /\ nextGeneration' = nextGeneration
  BY Zenon DEF GuardCheck, Purge, tableVars
<1>2. RefusedOK' /\ \A f : StillRefused(f)' => StillRefused(f)
  BY <1>1, HousekeepShrinks, Zenon DEF GuardCheck
<1>3. CASE Closes(footprint)
  <2>1. DOMAIN flows' = {} /\ Abort(DOMAIN flows)
    BY <1>3, Zenon DEF GuardCheck, Purge
  <2> QED BY <1>1, <1>2, <2>1, AbortMatches, Zenon
<1>4. CASE ~Closes(footprint)
  <2>1. UNCHANGED <<tasks, flows, nextGeneration>>
    BY <1>4, Zenon DEF GuardCheck, tableVars
  <2>2. TasksOK' /\ LiveListed' /\ ListedHasTask'
    BY <2>1, Zenon DEF TasksOK, Match, LiveListed, ListedHasTask, Current
  <2>3. ListedNotRefused'
    BY <1>2, <2>1, Zenon DEF Match, ListedNotRefused
  <2> QED BY <1>2, <2>2, <2>3, Zenon DEF Match
<1> QED BY <1>2, <1>3, <1>4, Zenon

LEMMA ExpireMatches ==
    ASSUME TasksOK, RefusedOK, Match, LoopExpire PROVE TasksOK' /\ RefusedOK' /\ Match'
<1>1. /\ UNCHANGED <<now, nextGeneration, refused>>
      /\ DOMAIN flows' = DOMAIN flows \ StaleFlows
      /\ \A f \in DOMAIN flows' : flows'[f] = flows[f]
  BY Zenon DEF LoopExpire, Expire, Without, Restrict
<1>2. StaleFlows \in SUBSET DOMAIN flows /\ Abort(StaleFlows)
  BY Zenon DEF StaleFlows, LoopExpire
<1>3. RefusedOK' /\ \A f : StillRefused(f)' => StillRefused(f)
  BY <1>1, Zenon DEF RefusedOK, StillRefused
<1> QED BY <1>1, <1>2, <1>3, AbortMatches, Zenon

\* A result ends its own session only: another task of the flow is newer.
LEMMA JoinMatches ==
    ASSUME TypeOK, TasksOK, RefusedOK, Match, NEW task \in tasks, Join(task)
    PROVE  TasksOK' /\ RefusedOK' /\ Match'
<1>1. tasks' = tasks \ {task} /\ now' = now /\ nextGeneration' = nextGeneration /\ now \in Nat
  BY Zenon DEF Join, Ended, Remove, tableVars, TypeOK
<1>2. TasksOK'
  BY <1>1, Zenon DEF TasksOK
<1>3. CASE Current(task.flow, task.generation)
  <2>1. /\ DOMAIN flows' = DOMAIN flows \ {task.flow}
        /\ \A f \in DOMAIN flows' : flows'[f] = flows[f]
    BY <1>3, Zenon DEF Join, Ended, Remove, Without, Restrict
  <2>2. RefusedOK' /\ \A f : f # task.flow => (StillRefused(f)' => StillRefused(f))
    BY <1>1, Zenon DEF Join, Put, RefusedOK, StillRefused
  <2>3. LiveListed'
    <3> SUFFICES ASSUME NEW k \in tasks', k.state \in Running, ~k.aborted
                 PROVE  Current(k.flow, k.generation)'
      BY Zenon DEF LiveListed
    <3>1. k \in tasks /\ k # task /\ Current(k.flow, k.generation)
      BY <1>1, Zenon DEF Match, LiveListed
    <3>2. k.flow # task.flow
      BY <1>3, <3>1, Zenon DEF Current, TasksOK
    <3> QED BY <2>1, <3>1, <3>2, Zenon DEF Current
  <2>4. ListedHasTask'
    BY <1>1, <2>1, Zenon DEF Match, ListedHasTask
  <2>5. ListedNotRefused'
    BY <2>1, <2>2, Zenon DEF Match, ListedNotRefused
  <2> QED BY <1>2, <2>2, <2>3, <2>4, <2>5, Zenon DEF Match
<1>4. CASE ~Current(task.flow, task.generation)
  <2>1. UNCHANGED <<flows, refused>>
    BY <1>4, Zenon DEF Join, Ended, RejectedNow, tableVars
  <2>2. LiveListed'
    BY <1>1, <2>1, Zenon DEF Match, LiveListed, Current
  <2>3. ListedHasTask'
    BY <1>1, <1>4, <2>1 DEF Match, ListedHasTask, Current
  <2>4. RefusedOK' /\ ListedNotRefused'
    BY <1>1, <2>1, Zenon DEF Match, ListedNotRefused, RefusedOK, StillRefused
  <2> QED BY <1>2, <2>2, <2>3, <2>4, Zenon DEF Match
<1> QED BY <1>3, <1>4, Zenon

\* A new session's task has a generation no other task ever had.
LEMMA OpenMatches ==
    ASSUME TypeOK, TasksOK, Match, NEW f \in Flow, ~StillRefused(f),
           OpenSession(f, shedding), tasks' = tasks \cup {NewTask(f)}, UNCHANGED refused
    PROVE  TasksOK' /\ Match'
<1> DEFINE new == NewTask(f)
<1>1. /\ new \in Task /\ new.flow = f /\ new.generation = nextGeneration + 1 /\ ~new.aborted
      /\ nextGeneration \in Nat
  BY DEF NewTask, NewGeneration, Task, Running, Finished, TypeOK
<1>2. /\ f \notin DOMAIN flows /\ DOMAIN flows' = DOMAIN flows \cup {f}
      /\ flows'[f] = nextGeneration + 1 /\ \A g \in DOMAIN flows : flows'[g] = flows[g]
      /\ nextGeneration' = nextGeneration + 1 /\ now' = now
  BY Zenon DEF OpenSession, Put, NewGeneration
<1> HIDE DEF new
<1>3. tasks' = tasks \cup {new}
  BY Zenon DEF new
<1>4. TasksOK'
  BY <1>1, <1>2, <1>3 DEF TasksOK
<1>5. LiveListed'
  BY <1>1, <1>2, <1>3, Zenon DEF Match, LiveListed, Current
<1>6. ListedHasTask'
  BY <1>1, <1>2, <1>3 DEF Match, ListedHasTask
<1>7. ListedNotRefused'
  BY <1>2, Zenon DEF Match, ListedNotRefused, StillRefused
<1> QED BY <1>4, <1>5, <1>6, <1>7, Zenon DEF Match

LEMMA DatagramMatches ==
    ASSUME TypeOK, LoopOK, TasksOK, RefusedOK, Match, NEW f \in received, HandleDatagram(f)
    PROVE  TasksOK' /\ RefusedOK' /\ Match'
<1>1. RefusedOK' /\ f \in Flow
  BY Zenon DEF HandleDatagram, RefusedOK, LoopOK
<1>2. CASE UNCHANGED <<flows, nextGeneration, now, tasks>>
  BY <1>1, <1>2, Zenon DEF HandleDatagram, TasksOK, Match, LiveListed, ListedHasTask, ListedNotRefused,
                    Current, StillRefused
<1>3. CASE ~StillRefused(f) /\ OpenSession(f, shedding) /\ tasks' = tasks \cup {NewTask(f)}
  BY <1>1, <1>3, OpenMatches, Zenon DEF HandleDatagram
<1> QED BY <1>2, <1>3, Zenon DEF HandleDatagram, Notice, tableVars

\* A task that moves keeps its flow and generation, and runs only if it did.
LEMMA BecomesMatches ==
    ASSUME TasksOK, NEW task \in tasks, task.state \in Running,
           NEW state \in Running \cup Finished, Becomes(task, state)
    PROVE  TasksOK' /\ (Match => Match')
<1> DEFINE moved == [task EXCEPT !.state = state]
<1>1. /\ moved \in Task /\ moved.flow = task.flow /\ moved.generation = task.generation
      /\ moved.aborted = task.aborted
  BY Zenon DEF TasksOK, Task
<1>2. tasks' = (tasks \ {task}) \cup {moved} /\ UNCHANGED <<flows, nextGeneration, now, refused>>
  BY Zenon DEF Becomes, tableVars, loopVars
<1> HIDE DEF moved
<1>3. TasksOK'
  BY <1>1, <1>2 DEF TasksOK
<1>4. LiveListed => LiveListed'
  BY <1>1, <1>2, Zenon DEF LiveListed, Current
<1>5. ListedHasTask => ListedHasTask'
  BY <1>1, <1>2 DEF ListedHasTask
<1>6. ListedNotRefused => ListedNotRefused'
  BY <1>2, Zenon DEF ListedNotRefused, StillRefused
<1> QED BY <1>3, <1>4, <1>5, <1>6, Zenon DEF Match

LEMMA SessionMatches ==
    ASSUME MatchInv, NEW task \in tasks, SessionStep(task) PROVE MatchInv'
<1>1. phase' = phase /\ RefusedOK'
  BY Zenon DEF SessionStep, Connect, Reject, Finish, Becomes, Reply, Cancelled, loopVars, MatchInv, RefusedOK
<1>2. CASE Connect(task) \/ Reject(task) \/ Finish(task)
  BY <1>1, <1>2, BecomesMatches, Zenon DEF Connect, Reject, Finish, MatchInv, Running, Finished
<1>3. CASE Reply(task)
  BY <1>1, <1>3, Zenon DEF Reply, MatchInv, TasksOK, Match, LiveListed, ListedHasTask, ListedNotRefused,
                    Current, StillRefused, tableVars, loopVars
<1>4. CASE Cancelled(task)
  <2>1. tasks' = tasks \ {task} /\ task.aborted /\ UNCHANGED <<flows, nextGeneration, now, refused>>
    BY <1>4, Zenon DEF Cancelled, tableVars, loopVars
  <2>2. TasksOK'
    BY <2>1, Zenon DEF MatchInv, TasksOK
  <2>3. Match => Match'
    BY <2>1 DEF Match, LiveListed, ListedHasTask, ListedNotRefused, Current, StillRefused
  <2> QED BY <1>1, <2>2, <2>3, Zenon DEF MatchInv
<1> QED BY <1>2, <1>3, <1>4, Zenon DEF SessionStep

\* Steps that leave sessions, tasks and refusals alone, as time passes.
LEMMA MatchFrame ==
    ASSUME TypeOK, MatchInv, UNCHANGED <<flows, nextGeneration, tasks, refused>>,
           now' = now \/ now' = now + 1, phase = "stopped" => phase' = "stopped"
    PROVE  MatchInv'
<1>1. TasksOK' /\ RefusedOK'
  BY Zenon DEF MatchInv, TasksOK, RefusedOK
<1>2. \A f : StillRefused(f)' => StillRefused(f)
  BY TunUdpAssumption DEF MatchInv, RefusedOK, StillRefused, TypeOK
<1>3. Match => Match'
  BY <1>2, Zenon DEF Match, LiveListed, ListedHasTask, ListedNotRefused, Current
<1> QED BY <1>1, <1>3, Zenon DEF MatchInv

LEMMA MatchNext == ASSUME TypeOK, LoopOK, MatchInv, [Next]_vars PROVE MatchInv'
<1>1. CASE Recv
  BY <1>1, MatchFrame, Zenon DEF Recv, RecvAdmitted, RecvRefused, Bind, AdmitPort, Notice, tableVars, loopVars
<1>2. CASE LoopStep
  <2>1. CASE Wake \/ DatagramsDone \/ RepliesDone \/ HandleReply \/ Collect
    BY <2>1, MatchFrame, Zenon DEF Wake, DatagramsDone, RepliesDone, HandleReply, Collect, Touch, tableVars
  <2>2. CASE GuardIdle
    <3>1. RefusedOK' /\ \A f : StillRefused(f)' => StillRefused(f)
      BY <2>2, HousekeepShrinks, Zenon DEF GuardIdle, MatchInv, tableVars
    <3> QED BY <2>2, <3>1, Zenon DEF GuardIdle, MatchInv, TasksOK, Match, LiveListed, ListedHasTask,
                              ListedNotRefused, Current, tableVars
  <2>3. ASSUME NEW footprint \in Footprint, GuardCheck(footprint) PROVE MatchInv'
    BY <2>3, GuardMatches, Zenon DEF GuardCheck, MatchInv
  <2>4. CASE \E taken \in SUBSET incoming : Poll(taken)
    BY <2>4, MatchFrame, Zenon DEF Poll, tableVars
  <2>5. ASSUME NEW k \in tasks, Join(k) PROVE MatchInv'
    BY <2>5, JoinMatches, Zenon DEF Join, MatchInv
  <2>6. ASSUME NEW f \in received, HandleDatagram(f) PROVE MatchInv'
    BY <2>6, DatagramMatches, Zenon DEF HandleDatagram, MatchInv
  <2>7. CASE LoopExpire
    BY <2>7, ExpireMatches, Zenon DEF LoopExpire, MatchInv
  <2> QED BY <1>2, <2>1, <2>2, <2>3, <2>4, <2>5, <2>6, <2>7, Zenon DEF LoopStep
<1>3. CASE Stop
  BY <1>3, Zenon DEF Stop, MatchInv, TasksOK, RefusedOK
<1>4. CASE \E k \in tasks : SessionStep(k)
  BY <1>4, SessionMatches, Zenon
<1>5. CASE Elapse
  BY <1>5, MatchFrame, Zenon DEF Elapse, Tick, Advance, loopVars
<1>6. CASE UNCHANGED vars
  BY <1>6, MatchFrame, Zenon DEF vars, tableVars, loopVars
<1> QED BY <1>1, <1>2, <1>3, <1>4, <1>5, <1>6, Zenon DEF Next

\* However sessions end, are aborted or superseded, table and tasks agree and
\* no refused flow has a session, for any number of flows and tasks.
THEOREM LoopSessionsMatchTasks == Spec => []SessionsMatchTasks
<1>1. Init => MatchInv /\ LoopOK
  BY LoopInit, Zenon DEF Init, TableInit, MatchInv, TasksOK, RefusedOK, Match, LiveListed, ListedHasTask,
         ListedNotRefused
<1>2. TypeOK /\ LoopOK /\ MatchInv /\ [Next]_vars => MatchInv'
  BY MatchNext, Zenon
<1>3. IInv /\ LoopOK /\ [Next]_vars => LoopOK'
  BY LoopRefines, Zenon
<1>4. MatchInv => SessionsMatchTasks
  BY Zenon DEF MatchInv, Match, LiveListed, ListedHasTask, ListedNotRefused, SessionsMatchTasks
<1>5. Init => IInv
  BY LoopInit, TableInitInv, Zenon
<1>6. IInv /\ LoopOK /\ [Next]_vars => IInv'
  BY LoopRefines, TableNextInv, Zenon
<1>7. IInv => TypeOK
  BY Zenon DEF IInv
<1> QED BY <1>1, <1>2, <1>3, <1>4, <1>5, <1>6, <1>7, PTL DEF Spec

-----------------------------------------------------------------------------
(* Reclaiming sockets: the last use of one is never before its last session *)

\* What a call of the table may do to the last use of a data socket.
LastKept ==
    \A t \in DOMAIN ports' \ DnsTarget :
       /\ FlowsOn(t) # {} /\ FlowsOn(t)' = {} => ports'[t].last = now /\ now' = now
       /\ FlowsOn(t) = {} => ports'[t].last = now \/ (t \in DOMAIN ports /\ ports'[t].last = ports[t].last)

LEMMA AdmitPortPorts ==
    ASSUME NEW target, NEW shed, AdmitPort(target, shed)
    PROVE /\ target \notin DOMAIN ports
          /\ \/ ports' = Put(ports, target, NewPort)
             \/ \E u \in ReclaimCandidates : ports' = Put(Without(ports, {u}), target, NewPort)
BY Zenon DEF AdmitPort

LEMMA AdmitPortLast == ASSUME IInv, NEW target \in Target, NEW shed, AdmitPort(target, shed) PROVE LastKept
<1>1. flows' = flows /\ \A t : FlowsOn(t)' = FlowsOn(t)
  BY Zenon DEF AdmitPort, FlowsOn
<1>2. \A t \in DOMAIN ports' : IF t = target THEN ports'[t].last = now ELSE t \in DOMAIN ports /\ ports'[t] = ports[t]
  <2>1. CASE ports' = Put(ports, target, NewPort)
    BY <2>1, Zenon DEF Put, NewPort
  <2>2. ASSUME NEW u \in ReclaimCandidates, ports' = Put(Without(ports, {u}), target, NewPort)
        PROVE \A t \in DOMAIN ports' : IF t = target THEN ports'[t].last = now ELSE t \in DOMAIN ports /\ ports'[t] = ports[t]
    BY <2>2, Zenon DEF Put, Without, Restrict, NewPort
  <2>3. ports' = Put(ports, target, NewPort) \/ \E u \in ReclaimCandidates : ports' = Put(Without(ports, {u}), target, NewPort)
    BY AdmitPortPorts, Zenon
  <2> QED BY <2>1, <2>2, <2>3, Zenon
<1> QED BY <1>1, <1>2, Zenon DEF LastKept

LEMMA EndedLast == ASSUME IInv, NEW f \in Flow, NEW g, Ended(f, g) PROVE LastKept
<1>1. CASE UNCHANGED tableVars
  <2>1. \A t : FlowsOn(t)' = FlowsOn(t)
    BY <1>1, Zenon DEF tableVars, FlowsOn
  <2> QED BY <1>1, <2>1, Zenon DEF tableVars, LastKept
<1>2. CASE Remove(f)
  <2>1. \A t \in DOMAIN ports' : t \in DOMAIN ports /\ IF t = f.target THEN ports'[t].last = now ELSE ports'[t] = ports[t]
    BY <1>2, Zenon DEF Remove, Released
  <2>2. \A t : t # f.target => FlowsOn(t)' = FlowsOn(t)
    BY <1>2, Zenon DEF Remove, Without, Restrict, FlowsOn
  <2>3. now' = now
    BY <1>2, Zenon DEF Remove
  <2> QED BY <2>1, <2>2, <2>3, Zenon DEF LastKept
<1> QED BY <1>1, <1>2, Zenon DEF Ended

LEMMA ExpireLast == ASSUME IInv, Expire PROVE LastKept
<1>1. DOMAIN ports' = DOMAIN ports \ StalePorts /\ \A t \in DOMAIN ports' : ports'[t] = ports[t]
  BY Zenon DEF Expire, Without, Restrict
<1>2. \A t : t \notin StalePorts => FlowsOn(t)' = FlowsOn(t)
  BY Zenon DEF Expire, Without, Restrict, FlowsOn, StaleFlows
<1> QED BY <1>1, <1>2, Zenon DEF LastKept

LEMMA OpenLast == ASSUME IInv, NEW f \in Flow, NEW shed, OpenSession(f, shed) PROVE LastKept
<1>1. \A t : FlowsOn(t) \subseteq FlowsOn(t)'
  BY Zenon DEF OpenSession, Put, FlowsOn
<1>2. \A t \in DOMAIN ports : ports[t] \in [last : Nat, sessions : Nat]
  BY Zenon DEF IInv, TypeOK
<1>3. \A t \in DOMAIN ports' : t \in DOMAIN ports /\ ports'[t].last = ports[t].last
  BY <1>2, Zenon DEF OpenSession
<1> QED BY <1>1, <1>3, Zenon DEF LastKept

LEMMA TableLast == ASSUME IInv, [TableNext]_tableVars PROVE LastKept /\ now' \in Nat /\ now' >= now
<1>0. now \in Nat
  BY Zenon DEF IInv, TypeOK
<1>1. CASE \E t \in Target, shed \in BOOLEAN : AdmitPort(t, shed)
  <2>1. PICK t \in Target, shed \in BOOLEAN : AdmitPort(t, shed)
    BY <1>1, Zenon
  <2>2. now' = now
    BY <2>1, Zenon DEF AdmitPort
  <2> QED BY <1>0, <2>1, <2>2, AdmitPortLast
<1>2. CASE \E T \in SUBSET Target : Touch(T)
  <2>1. \A t : FlowsOn(t)' = FlowsOn(t)
    BY <1>2, Zenon DEF Touch, FlowsOn
  <2>2. \A t \in DOMAIN ports : ports[t] \in [last : Nat, sessions : Nat]
    BY Zenon DEF IInv, TypeOK
  <2>3. \A t \in DOMAIN ports' : t \in DOMAIN ports /\ ports'[t].last \in {now, ports[t].last}
    BY <1>2, <2>2, Zenon DEF Touch
  <2>4. now' = now
    BY <1>2, Zenon DEF Touch
  <2> QED BY <1>0, <2>1, <2>3, <2>4 DEF LastKept
<1>3. CASE \E f \in Flow, shed \in BOOLEAN : OpenSession(f, shed)
  <2>1. PICK f \in Flow, shed \in BOOLEAN : OpenSession(f, shed)
    BY <1>3, Zenon
  <2>2. now' = now
    BY <2>1, Zenon DEF OpenSession
  <2> QED BY <1>0, <2>1, <2>2, OpenLast
<1>4. CASE \E f \in Flow, g \in 1..nextGeneration : Ended(f, g)
  <2>1. PICK f \in Flow, g \in 1..nextGeneration : Ended(f, g)
    BY <1>4, Zenon
  <2>2. now' = now
    BY <2>1, Zenon DEF Ended, Remove, tableVars
  <2> QED BY <1>0, <2>1, <2>2, EndedLast
<1>5. CASE Expire
  BY <1>0, <1>5, ExpireLast DEF Expire
<1>6. CASE Purge
  BY <1>0, <1>6 DEF Purge, LastKept
<1>7. CASE UNCHANGED <<flows, ports>> /\ now' \in Nat /\ now' >= now
  <2>1. \A t : FlowsOn(t)' = FlowsOn(t)
    BY <1>7, Zenon DEF FlowsOn
  <2> QED BY <1>7, <2>1, Zenon DEF LastKept
<1>8. CASE (\E f \in Flow : Notice(f)) \/ Tick \/ UNCHANGED tableVars
  BY <1>0, <1>7, <1>8 DEF Notice, Tick, Advance, tableVars
<1> QED BY <1>1, <1>2, <1>3, <1>4, <1>5, <1>6, <1>8, Zenon DEF TableNext

\* A data socket without sessions was last used when it last had one, or later.
BusyInv ==
    /\ IInv /\ LoopOK
    /\ busyAt \in [Target \ DnsTarget -> Nat]
    /\ \A t \in Target \ DnsTarget : busyAt[t] <= now
    /\ \A t \in DOMAIN ports \ DnsTarget : FlowsOn(t) = {} => busyAt[t] <= ports[t].last

LEMMA BusyStep == BusyInv /\ [Next /\ Busy]_busyVars => BusyInv'
<1> SUFFICES ASSUME BusyInv, [Next /\ Busy]_busyVars PROVE BusyInv'
  BY Zenon
<1>1. CASE UNCHANGED busyVars
  <2>1. UNCHANGED vars /\ busyAt' = busyAt
    BY <1>1, Zenon DEF busyVars
  <2>2. UNCHANGED <<flows, ports, now>>
    BY <2>1, Zenon DEF vars, tableVars
  <2>3. \A t : FlowsOn(t)' = FlowsOn(t)
    BY <2>2, Zenon DEF FlowsOn
  <2>4. [TableNext]_tableVars /\ LoopOK'
    BY <2>1, LoopRefines, Zenon DEF BusyInv
  <2>5. IInv'
    BY <2>4, TableNextInv, Zenon DEF BusyInv
  <2> QED BY <2>1, <2>2, <2>3, <2>4, <2>5, Zenon DEF BusyInv
<1>2. CASE Next /\ Busy
  <2>1. [TableNext]_tableVars /\ LoopOK'
    BY <1>2, LoopRefines, Zenon DEF BusyInv
  <2>2. IInv' /\ LastKept /\ now' \in Nat /\ now' >= now /\ now \in Nat
    BY <2>1, TableNextInv, TableLast, Zenon DEF BusyInv, IInv, TypeOK
  <2>3. /\ busyAt' = [t \in Target \ DnsTarget |-> IF FlowsOn(t) # {} \/ FlowsOn(t)' # {} THEN now' ELSE busyAt[t]]
        /\ \A t \in Target \ DnsTarget : busyAt[t] \in Nat /\ busyAt[t] <= now
    BY <1>2, Zenon DEF Busy, BusyInv
  <2>4. busyAt' \in [Target \ DnsTarget -> Nat] /\ \A t \in Target \ DnsTarget : busyAt'[t] <= now'
    BY <2>2, <2>3
  <2>5. ASSUME NEW t \in DOMAIN ports' \ DnsTarget, FlowsOn(t)' = {} PROVE busyAt'[t] <= ports'[t].last
    <3>1. t \in Target
      BY <2>2, <2>5, Zenon DEF IInv, TypeOK
    <3>2. CASE FlowsOn(t) # {}
      BY <2>2, <2>3, <2>5, <3>1, <3>2, Zenon DEF LastKept
    <3>3. CASE FlowsOn(t) = {}
      <4>1. busyAt'[t] = busyAt[t]
        BY <2>3, <2>5, <3>1, <3>3, Zenon
      <4>2. CASE ports'[t].last = now
        BY <2>3, <3>1, <4>1, <4>2, Zenon
      <4>3. CASE t \in DOMAIN ports /\ ports'[t].last = ports[t].last
        BY <3>3, <4>1, <4>3, Zenon DEF BusyInv
      <4> QED BY <2>2, <3>3, <4>2, <4>3, Zenon DEF LastKept
    <3> QED BY <3>2, <3>3, Zenon
  <2> QED BY <2>1, <2>2, <2>4, <2>5, Zenon DEF BusyInv
<1> QED BY <1>1, <1>2, Zenon

\* reclaim_port takes the socket of another target only when that has had no
\* session for REUSE_AFTER, for every order of datagrams, replies and ends of
\* sessions: replies in flight still find it.
THEOREM LoopReclaimSparesRecent == BusySpec => ReclaimSparesRecent
<1> DEFINE A == \A t \in DOMAIN ports \ DOMAIN ports' :
                   DOMAIN ports' \ DOMAIN ports # {} =>
                      /\ FlowsOn(t) = {}
                      /\ t \notin DnsTarget
                      /\ busyAt[t] # 0 => now - busyAt[t] >= ReuseAfter
<1>1. BusyInit => BusyInv
  <2> SUFFICES ASSUME BusyInit PROVE BusyInv
    BY Zenon
  <2>1. IInv /\ LoopOK /\ DOMAIN ports = {} /\ now \in Nat
    BY LoopInit, TableInitInv, Zenon DEF BusyInit, TableInit, IInv, TypeOK
  <2> QED BY <2>1 DEF BusyInit, BusyInv
<1>2. BusyInv /\ [Next /\ Busy]_busyVars => [A]_busyVars
  <2> SUFFICES ASSUME BusyInv, Next, NEW t \in DOMAIN ports \ DOMAIN ports', NEW u \in DOMAIN ports' \ DOMAIN ports
               PROVE FlowsOn(t) = {} /\ t \notin DnsTarget /\ now - busyAt[t] >= ReuseAfter
    BY Zenon
  <2>1. [TableNext]_tableVars /\ IInv
    BY LoopRefines, Zenon DEF BusyInv
  <2>2. PICK target \in Target, shed \in BOOLEAN : AdmitPort(target, shed)
    <3>1. (\E T \in SUBSET Target : Touch(T)) => DOMAIN ports' = DOMAIN ports
      BY Zenon DEF Touch
    <3>2. (\E f \in Flow, shed \in BOOLEAN : OpenSession(f, shed)) => DOMAIN ports' = DOMAIN ports
      BY Zenon DEF OpenSession
    <3>3. (\E f \in Flow, g \in 1..nextGeneration : Ended(f, g)) => DOMAIN ports' = DOMAIN ports
      BY Zenon DEF Ended, Remove, tableVars
    <3>4. Expire \/ Purge => DOMAIN ports' \subseteq DOMAIN ports
      BY Zenon DEF Expire, Purge, Without, Restrict
    <3>5. (\E f \in Flow : Notice(f)) \/ Tick \/ UNCHANGED tableVars => ports' = ports
      BY Zenon DEF Notice, Tick, tableVars
    <3> QED BY <2>1, <3>1, <3>2, <3>3, <3>4, <3>5, Zenon DEF TableNext
  <2>3. t \in ReclaimCandidates
    <3>1. ports' # Put(ports, target, NewPort)
      BY Zenon DEF Put
    <3>2. PICK v \in ReclaimCandidates : ports' = Put(Without(ports, {v}), target, NewPort)
      BY <2>2, <3>1, AdmitPortPorts, Zenon
    <3>3. DOMAIN ports' = (DOMAIN ports \ {v}) \cup {target}
      BY <3>2, Zenon DEF Put, Without, Restrict
    <3> QED BY <3>3, Zenon
  <2>4. t \in DOMAIN ports /\ ports[t].sessions = 0 /\ t \notin DnsTarget /\ now - ports[t].last >= ReuseAfter
    BY <2>3, Zenon DEF ReclaimCandidates, Reclaimable
  <2>5. FlowsOn(t) = {}
    <3>1. Cardinality(FlowsOn(t)) = 0 /\ IsFiniteSet(FlowsOn(t))
      BY <2>1, <2>4, Finiteness, Zenon DEF IInv, CountsAgree
    <3> QED BY <3>1, FS_EmptySet, Zenon
  <2>6. busyAt[t] <= ports[t].last /\ busyAt[t] \in Nat /\ ports[t].last \in Nat /\ now \in Nat
    BY <2>1, <2>4, <2>5, Zenon DEF BusyInv, IInv, TypeOK
  <2> QED BY <2>4, <2>5, <2>6
<1> QED BY <1>1, <1>2, BusyStep, PTL DEF BusySpec, ReclaimSparesRecent
=============================================================================
