--------------------------- MODULE ContractProofs ---------------------------
(***************************************************************************)
(* The handles of host.rs keep the contract of clyntis.h, for every set of *)
(* handles and host threads and every capacity: each step of HostHandle is *)
(* a step of CApi under the mapping of HostContract, or one no host sees.  *)
(* CInv of HostProofs supplies what the steps need: a waiting call is tied *)
(* to its request, and a reply tells what the core did.                    *)
(***************************************************************************)
EXTENDS HostProofs, HostContract

USE HandleAssumption, CallbackAssumption, LogCapAssumption

-----------------------------------------------------------------------------
(* What the host sees *)

\* Known and alive handles.
LEMMA LifeIs ==
  ASSUME CInv, NEW h \in Handle
  PROVE  /\ Api!Known(h) <=> h \in registry
         /\ Api!Alive(h) <=> h \in registry /\ worker[h] \notin Exited /\ ~stop[h]
         /\ h \in registry => h < next
         /\ worker[h] \notin Exited \union {"none"} => h \in registry
         /\ worker[h] \in Exited => Life(h) \in {"joined", "destroyed"}
<1>1. LifeOK(h) /\ WorkerOK(h) /\ h \in Nat /\ next \in Nat
  BY Zenon DEF CInv, ContractInv, IInv, HandleInv, HandleTypeOK
<1>2. h >= next <=> ~(h < next)
  BY <1>1
<1>3. h \in registry => h < next
  BY <1>1, Zenon DEF LifeOK
<1>4. [g \in Handle |-> Life(g)][h] = Life(h)
  BY Zenon
<1>5. Api!Known(h) <=> Life(h) \notin {"unborn", "destroyed"}
  BY Zenon DEF Api!Known
<1>6. Api!Alive(h) <=> Life(h) \in {"created", "started"}
  BY Zenon DEF Api!Alive
<1>7. Api!Known(h) <=> h \in registry
  BY <1>2, <1>3, <1>5, Zenon DEF Life
<1>8. Api!Alive(h) <=> h \in registry /\ worker[h] \notin Exited /\ ~stop[h]
  BY <1>2, <1>3, <1>6, Zenon DEF Life
<1>9. worker[h] \notin Exited \union {"none"} => h \in registry
  BY <1>1, Zenon DEF WorkerOK
<1>10. worker[h] \in Exited => Life(h) \in {"joined", "destroyed"}
  <2>1. worker[h] \in Exited => ~(h >= next)
    BY <1>1, Zenon DEF WorkerOK, Exited
  <2> QED BY <2>1, Zenon DEF Life
<1> QED BY <1>3, <1>7, <1>8, <1>9, <1>10, Zenon

\* The handles look as before.
LEMMA HandlesSame ==
  ASSUME \A h \in Handle : Life(h)' = Life(h), \A h \in Handle : Running(h)' = Running(h),
         UNCHANGED <<running, fd, changed>>
  PROVE  UNCHANGED Api!handleVars
BY Zenon DEF Api!handleVars

LEMMA PacketsSame ==
  ASSUME UNCHANGED <<pending, output, lastRead>>,
         \A h \in Handle : reader'[h] = "none" <=> reader[h] = "none"
  PROVE  UNCHANGED Api!packetVars
BY Zenon DEF Api!packetVars, Readable

\* A handle whose core and place in the registry are as before.
LEMMA LifeSame ==
  ASSUME NEW h \in Handle, h \in registry' <=> h \in registry, h >= next' <=> h >= next,
         worker'[h] \in Exited <=> worker[h] \in Exited,
         h \in registry /\ worker[h] \notin Exited => stop'[h] = stop[h] /\ running'[h] = running[h]
  PROVE  Life(h)' = Life(h)
BY Zenon DEF Life

LEMMA SeenIs ==
  ASSUME NEW c
  PROVE  /\ Seen(c).fn = c.fn /\ Seen(c).h = c.h /\ Seen(c).status = c.status
         /\ Seen(c).at = IF c.at = "idle" THEN "idle"
                         ELSE IF c.fn = "start" /\ c.reply = "ok" THEN "granted" ELSE "pending"
         /\ Seen(c) = [fn |-> c.fn, h |-> c.h, at |-> Seen(c).at, status |-> c.status]
BY Zenon DEF Seen

\* The call of one thread changes.
LEMMA SeenSet ==
  ASSUME CInv, NEW t \in Thread, NEW r, call' = [call EXCEPT ![t] = r]
  PROVE  Api!Set(t, r.fn, r.h, Seen(r).at, r.status)
<1>1. call'[t] = r /\ \A u \in Thread \ {t} : call'[u] = call[u]
  BY Zenon DEF CInv, IInv, HandleInv, HandleTypeOK, CallsTypeOK
<1> DEFINE n == [fn |-> r.fn, h |-> r.h, at |-> Seen(r).at, status |-> r.status]
<1>2. Seen(call'[t]) = n /\ n.fn = r.fn
  BY <1>1, SeenIs, Zenon
<1> HIDE DEF n
<1>3. \A u \in Thread : Seen(call'[u]) = IF u = t THEN n ELSE Seen(call[u])
  BY <1>1, <1>2
<1>4. [u \in Thread |-> Seen(call'[u])] = [[u \in Thread |-> Seen(call[u])] EXCEPT ![t] = n]
  BY <1>3, Zenon
<1>5. [u \in Thread |-> Seen(call'[u])][t].fn = r.fn
  BY <1>2, Zenon
<1> QED BY <1>4, <1>5, Zenon DEF Api!Set, n

LEMMA EnterSeen ==
  ASSUME CInv, NEW t \in Thread, NEW f, NEW h, NEW place, NEW s, NEW k, Enter(t, f, h, place, s, k)
  PROVE  Api!Idle(t) /\ Api!Set(t, f, h, IF place = "idle" THEN "idle" ELSE "pending", s)
<1> DEFINE r == [fn |-> f, h |-> h, at |-> place, status |-> s, reply |-> "none", ticket |-> k]
<1>1. /\ r.fn = f /\ r.h = h /\ r.status = s
      /\ Seen(r).at = IF place = "idle" THEN "idle" ELSE "pending"
  BY Zenon DEF Seen
<1>2. call' = [call EXCEPT ![t] = r] /\ call[t].at = "idle"
  BY Zenon DEF Enter, MayCall
<1> HIDE DEF r
<1>3. Api!Set(t, r.fn, r.h, Seen(r).at, r.status)
  BY <1>2, SeenSet, Zenon
<1>4. Api!Idle(t)
  BY <1>2, SeenIs, Zenon DEF Api!Idle
<1> QED BY <1>1, <1>3, <1>4, Zenon

LEMMA ReturnSeen ==
  ASSUME CInv, NEW t \in Thread, NEW s, Return(t, s)
  PROVE  Api!Set(t, call[t].fn, call[t].h, "idle", s)
<1> DEFINE r == Ended(call[t], s)
<1>1. r.fn = call[t].fn /\ r.h = call[t].h /\ r.status = s /\ r.at = "idle"
  <2>1. CallOver(Ended(call[t], s), call[t], s)
    BY EndedFields, Zenon
  <2> QED BY <2>1, Zenon DEF CallOver
<1>2. call' = [call EXCEPT ![t] = r]
  BY Zenon DEF Return
<1> HIDE DEF r
<1>3. Api!Set(t, r.fn, r.h, Seen(r).at, r.status) /\ Seen(r).at = "idle"
  BY <1>1, <1>2, SeenSet, SeenIs, Zenon
<1> QED BY <1>1, <1>3, Zenon

\* A call that moves on looks as before.
LEMMA MoveSeen ==
  ASSUME CInv, NEW t \in Thread, NEW place \in {"joining", "joined"}, MoveTo(t, place),
         call[t].at \in {"locking", "joining"}
  PROVE  \A u \in Thread : Seen(call'[u]) = Seen(call[u])
<1> TAKE u \in Thread
<1>1. IsCall(call[t]) /\ DOMAIN call = Thread
  BY Zenon DEF CInv, IInv, HandleInv, HandleTypeOK, CallsTypeOK
<1> DEFINE r == At(call[t], place)
<1>2. r.fn = call[t].fn /\ r.h = call[t].h /\ r.status = call[t].status /\ r.at = place /\ r.reply = call[t].reply
  <2>1. CallAt(At(call[t], place), call[t], place)
    BY <1>1, AtFields, Zenon
  <2> QED BY <2>1, Zenon DEF CallAt
<1>3. call'[t] = r /\ (u # t => call'[u] = call[u])
  BY <1>1, Zenon DEF MoveTo
<1> HIDE DEF r
<1>4. Seen(r) = Seen(call[t])
  BY <1>2, Zenon DEF Seen
<1> QED BY <1>3, <1>4, Zenon

\* So does one that gets a reply, unless its start succeeded.
LEMMA ReplySeen ==
  ASSUME CInv, NEW u \in Thread, NEW r, call[u].fn = "start" => r # "ok" /\ call[u].reply # "ok"
  PROVE  Seen(WithReply(call[u], r)) = Seen(call[u])
<1>1. IsCall(call[u])
  BY Zenon DEF CInv, IInv, HandleInv, HandleTypeOK, CallsTypeOK
<1> DEFINE w == WithReply(call[u], r)
<1>2. /\ w.fn = call[u].fn /\ w.h = call[u].h /\ w.at = call[u].at
      /\ w.status = call[u].status /\ w.reply = r
  <2>1. CallReplied(WithReply(call[u], r), call[u], r)
    BY <1>1, ReplyFields, Zenon
  <2> QED BY <2>1, Zenon DEF CallReplied
<1> HIDE DEF w
<1>3. Seen(w) = Seen(call[u])
  BY <1>2, Zenon DEF Seen
<1> QED BY <1>3, Zenon DEF w

LEMMA RepliedSeen ==
  ASSUME CInv, NEW h \in Handle, NEW d \in Asked(h), NEW r, call' = Replied(d, r),
         d.fn = "start" => r # "ok"
  PROVE  \A u \in Thread : Seen(call'[u]) = Seen(call[u])
<1> TAKE u \in Thread
<1>1. AskedOK(h, d)
  BY AskedFacts, Zenon
<1>2. CASE call'[u] = call[u]
  BY <1>2, Zenon
<1>3. CASE call'[u] = WithReply(call[u], r) /\ call[u].ticket = d.ticket
  <2>1. call[u].fn = "start" => r # "ok" /\ call[u].reply # "ok"
    BY <1>1, <1>3, Zenon DEF AskedOK
  <2> QED BY <1>3, <2>1, ReplySeen, Zenon
<1> QED BY <1>2, <1>3, Zenon DEF Replied

LEMMA Stutters ==
  ASSUME \A u \in Thread : Seen(call'[u]) = Seen(call[u]),
         UNCHANGED Api!handleVars, UNCHANGED Api!packetVars, UNCHANGED logs
  PROVE  Api!Next
BY Zenon DEF Api!Next, Api!apiVars

\* Nothing but calls changed.
LEMMA OnlyCalls ==
  ASSUME UNCHANGED <<regVars, coreVars, workerVars, bridgeVars>>
  PROVE  UNCHANGED Api!handleVars /\ UNCHANGED Api!packetVars
<1> USE DEF regVars, coreVars, workerVars, bridgeVars
<1>1. ASSUME NEW h \in Handle PROVE Life(h)' = Life(h) /\ Running(h)' = Running(h)
  BY Zenon DEF Life, Running
<1>2. UNCHANGED Api!handleVars
  BY <1>1, HandlesSame, Zenon
<1>3. UNCHANGED Api!packetVars
  BY PacketsSame, Zenon
<1> QED BY <1>2, <1>3, Zenon

LEMMA CallSeen ==
  ASSUME CInv, NEW t \in Thread, NEW f, NEW h, NEW s, Call(t, f, h, s)
  PROVE  Api!Idle(t) /\ Api!Set(t, f, h, "idle", s)
BY EnterSeen, Zenon DEF Call

LEMMA WrittenIs == Written \subseteq Api!CallerBuffer
BY DEF Written, Output, Api!CallerBuffer, Api!Status

LEMMA StatelessKeeps ==
  ASSUME CInv, NEW t \in Thread, NEW f, NEW statuses, Stateless(t, f, statuses)
  PROVE  Api!Plain(t, f, statuses)
<1>1. PICK s \in statuses : Call(t, f, 0, s)
  BY Zenon DEF Stateless
<1>2. UNCHANGED Api!handleVars /\ UNCHANGED Api!packetVars /\ UNCHANGED logs
  BY OnlyCalls, Zenon DEF Stateless, logVars
<1>3. Api!Idle(t) /\ Api!Set(t, f, 0, "idle", s)
  BY <1>1, CallSeen, Zenon
<1> QED BY <1>2, <1>3, Zenon DEF Api!Plain

LEMMA ConvertKeeps ==
  ASSUME CInv, NEW t \in Thread, NEW f,
         \/ f \in Conversions /\ Convert(t, f)
         \/ f \in Transfers /\ CheckOrTransfer(t, f)
  PROVE  Api!Next
<1>1. CASE f \in Conversions /\ Convert(t, f)
  <2>1. Api!Plain(t, f, Written)
    BY <1>1, StatelessKeeps, Zenon DEF Convert
  <2>2. Api!Plain(t, f, Api!CallerBuffer)
    BY <2>1, WrittenIs, Zenon DEF Api!Plain
  <2>3. Api!Function(t)
    BY <1>1, <2>2, Zenon DEF Conversions, Api!Function, Api!meta_decrypt_config_v1,
       Api!meta_encrypt_config_v1,
       Api!meta_custom_rule_targets_v1, Api!meta_custom_rules_apply_v1, Api!meta_overrides_apply_v1,
       Api!meta_yaml_check_v1, Api!meta_cos_target_v1, Api!meta_error_v1
  <2> QED BY <2>3, Zenon DEF Api!Next
<1>2. CASE f \in Transfers /\ CheckOrTransfer(t, f)
  <2>1. Api!Plain(t, f, {"OK", "ERROR"})
    BY <1>2, StatelessKeeps, Zenon DEF CheckOrTransfer
  <2>2. Api!Function(t)
    BY <1>2, <2>1, Zenon DEF Transfers, Api!Function, Api!meta_custom_rule_validate_v1,
       Api!meta_cos_put_v1,
       Api!meta_prefetch_resources_v1, Api!meta_resources_state_v1
  <2> QED BY <2>2, Zenon DEF Api!Next
<1> QED BY <1>1, <1>2, Zenon

LEMMA DrainLogsKeeps ==
  ASSUME CInv, NEW t \in Thread, DrainLogs(t)
  PROVE  Api!Next
<1>1. PICK s \in Written : Call(t, "drain_logs", 0, s) /\ logs' = KeepLogs(s)
  BY Zenon DEF DrainLogs
<1>2. UNCHANGED Api!handleVars /\ UNCHANGED Api!packetVars
  BY OnlyCalls, Zenon DEF DrainLogs
<1>3. Api!Idle(t) /\ Api!Set(t, "drain_logs", 0, "idle", s)
  BY <1>1, CallSeen, Zenon
<1>4. s \in Api!CallerBuffer /\ logs' = IF s = "OK" THEN <<>> ELSE logs
  BY <1>1, WrittenIs, Zenon DEF KeepLogs
<1>5. Api!meta_drain_logs_v1(t)
  BY <1>2, <1>3, <1>4, Zenon DEF Api!meta_drain_logs_v1
<1> QED BY <1>5, Zenon DEF Api!Next, Api!Function

LEMMA ImmediateKeeps ==
  ASSUME CInv, NEW t \in Thread, NEW f, NEW h \in Handle, NEW statuses, Immediate(t, f, h, statuses)
  PROVE  Api!Behind(t, f, h, statuses)
<1>1. PICK s \in IF h \in registry THEN statuses ELSE {"ERROR"} : Call(t, f, h, s)
  BY Zenon DEF Immediate
<1>2. UNCHANGED Api!handleVars /\ UNCHANGED Api!packetVars /\ UNCHANGED logs
  BY OnlyCalls, Zenon DEF Immediate, logVars
<1>3. Api!Idle(t) /\ Api!Set(t, f, h, "idle", s)
  BY <1>1, CallSeen, Zenon
<1>4. s \in IF Api!Known(h) THEN statuses ELSE {"ERROR"}
  BY LifeIs, Zenon
<1> QED BY <1>2, <1>3, <1>4, Zenon DEF Api!Behind

LEMMA BehindKeeps ==
  ASSUME CInv, NEW t \in Thread, NEW h \in Handle,
         \/ Snapshot(t, h) \/ StatusOf(t, h) \/ Update(t, h) \/ Select(t, h) \/ SetNetwork(t, h)
         \/ CloseConnections(t, h) \/ CloseConnection(t, h) \/ DnsAudit(t, h)
  PROVE  Api!Next
<1>1. ASSUME NEW f, Immediate(t, f, h, Written) PROVE Api!Behind(t, f, h, Api!CallerBuffer)
  <2>1. Api!Behind(t, f, h, Written)
    BY <1>1, ImmediateKeeps, Zenon
  <2> QED BY <2>1, WrittenIs, Zenon DEF Api!Behind
<1>2. \/ Api!meta_snapshot_v1(t, h) \/ Api!meta_status_v1(t, h) \/ Api!Behind(t, "dns_audit", h, Api!CallerBuffer)
      \/ Api!meta_update_v1(t, h) \/ Api!meta_select_v1(t, h) \/ Api!meta_set_network_v1(t, h)
      \/ Api!meta_close_connections_v1(t, h) \/ Api!meta_close_connection_v1(t, h)
  BY <1>1, ImmediateKeeps, Zenon DEF Snapshot, StatusOf, Update, Select, SetNetwork, CloseConnections,
     CloseConnection,
     DnsAudit, Api!meta_snapshot_v1, Api!meta_status_v1, Api!meta_update_v1, Api!meta_select_v1,
     Api!meta_set_network_v1, Api!meta_close_connections_v1, Api!meta_close_connection_v1
<1>3. Api!Function(t)
  BY <1>2, Zenon DEF Api!Function, Api!meta_dns_leak_v1
<1> QED BY <1>3, Zenon DEF Api!Next

LEMMA NetworkChangedKeeps ==
  ASSUME CInv, NEW t \in Thread, NEW h \in Handle, NetworkChanged(t, h)
  PROVE  Api!Next
<1> USE DEF regVars, coreVars, workerVars, bridgeVars
<1>1. UNCHANGED <<registry, next, worker, stop, running, fd, sender, protecting, pending, output, reader, lastRead, logs>>
  BY Zenon DEF NetworkChanged, logVars
<1>2. \A g \in Handle : Life(g)' = Life(g) /\ Running(g)' = Running(g)
  BY <1>1, Zenon DEF Life, Running
<1>3. UNCHANGED Api!packetVars
  BY <1>1, PacketsSame, Zenon
<1>4. changed \in [Handle -> BOOLEAN]
  BY Zenon DEF CInv, ContractInv, CoreTypeOK
<1>5. CASE h \in registry /\ CheckLifecycle(t) /\ ~stop[h]
  <2>1. Call(t, "network_changed", h, "OK") /\ changed' = [changed EXCEPT ![h] = TRUE]
    BY <1>5, Zenon DEF NetworkChanged
  <2>2. {g \in Handle : changed'[g]} = {g \in Handle : changed[g]} \union {h}
    BY <1>4, <2>1, Zenon
  <2>3. Api!Idle(t) /\ Api!Set(t, "network_changed", h, "idle", "OK")
    BY <2>1, CallSeen, Zenon
  <2>4. Api!Known(h) /\ Life(h) # "stopped" /\ t # Callback
    BY <1>5, LifeIs, Zenon DEF CheckLifecycle, Life
  <2>5. Api!meta_network_changed_v1(t, h)
    BY <1>1, <1>2, <1>3, <2>2, <2>3, <2>4, ZenonT(60) DEF Api!meta_network_changed_v1
  <2> QED BY <2>5, Zenon DEF Api!Next, Api!Function
<1>6. CASE ~(h \in registry /\ CheckLifecycle(t) /\ ~stop[h])
  <2>1. Call(t, "network_changed", h, "ERROR") /\ changed' = changed
    BY <1>6, Zenon DEF NetworkChanged
  <2>2. Api!Idle(t) /\ Api!Set(t, "network_changed", h, "idle", "ERROR")
    BY <2>1, CallSeen, Zenon
  <2>3. Api!Alive(h) => t = Callback
    BY <1>6, LifeIs, Zenon DEF CheckLifecycle
  <2>4. Api!meta_network_changed_v1(t, h)
    BY <1>1, <1>2, <1>3, <2>1, <2>2, <2>3, ZenonT(60) DEF Api!meta_network_changed_v1
  <2> QED BY <2>4, Zenon DEF Api!Next, Api!Function
<1> QED BY <1>5, <1>6, Zenon

LEMMA WritePacketKeeps ==
  ASSUME CInv, NEW t \in Thread, NEW h \in Handle, WritePacket(t, h)
  PROVE  Api!Next
<1> USE DEF regVars, coreVars, workerVars, bridgeVars
<1>1. UNCHANGED <<registry, next, worker, stop, running, fd, changed, sender, protecting, pending, output, reader, lastRead, logs>>
  BY Zenon DEF WritePacket, logVars
<1>2. \A g \in Handle : Life(g)' = Life(g) /\ Running(g)' = Running(g)
  BY <1>1, Zenon DEF Life, Running
<1>3. UNCHANGED Api!packetVars /\ UNCHANGED Api!handleVars
  BY <1>1, <1>2, PacketsSame, HandlesSame, Zenon
<1>4. PICK s \in {"OK", "WOULD_BLOCK", "ERROR"} :
         /\ Call(t, "write_packet", h, s)
         /\ s # "ERROR" => h \in registry /\ ~stop[h] /\ sender[h] # "gone"
  BY Zenon DEF WritePacket
<1>5. Api!Idle(t) /\ Api!Set(t, "write_packet", h, "idle", s)
  BY <1>4, CallSeen, Zenon
<1>6. WorkerOK(h)
  BY Zenon DEF CInv, IInv, HandleInv
<1>7. s # "ERROR" => Api!Alive(h) /\ ~fd[h]
  BY <1>4, <1>6, LifeIs, Zenon DEF WorkerOK
<1>8. Api!meta_write_packet_v1(t, h)
  BY <1>1, <1>3, <1>4, <1>5, <1>7, ZenonT(60) DEF Api!meta_write_packet_v1
<1> QED BY <1>8, Zenon DEF Api!Next, Api!Function

\* What the contract sees of a handle.
coreSeen == <<registry, next, worker, stop, running>>
restSeen == <<fd, changed, sender, protecting>>
packetSeen == <<pending, output, reader, lastRead>>

LEMMA SeenSame ==
  ASSUME UNCHANGED <<coreSeen, restSeen, packetSeen>>
  PROVE  UNCHANGED Api!handleVars /\ UNCHANGED Api!packetVars
<1>1. \A h \in Handle : Life(h)' = Life(h)
  BY Zenon DEF Life, coreSeen
<1>2. \A h \in Handle : Running(h)' = Running(h)
  BY Zenon DEF Running, restSeen
<1>3. UNCHANGED Api!handleVars
  BY <1>1, <1>2, HandlesSame, Zenon DEF coreSeen, restSeen
<1>4. UNCHANGED Api!packetVars
  BY PacketsSame, Zenon DEF packetSeen
<1> QED BY <1>3, <1>4, Zenon

\* The life of one handle changes.
LEMMA LifeOne ==
  ASSUME NEW h \in Handle, NEW v, Life(h)' = v, \A g \in Handle \ {h} : Life(g)' = Life(g)
  PROVE  [g \in Handle |-> Life(g)]' = [[g \in Handle |-> Life(g)] EXCEPT ![h] = v]
<1>1. \A g \in Handle : Life(g)' = IF g = h THEN v ELSE Life(g)
  BY Zenon
<1> QED BY <1>1, Zenon

\* A core is cancelled.
LEMMA StopSets ==
  ASSUME CInv, NEW h \in Handle, stop' = [stop EXCEPT ![h] = TRUE],
         UNCHANGED <<registry, next, running>>,
         \A g \in Handle : worker'[g] \in Exited <=> worker[g] \in Exited
  PROVE  /\ Api!Alive(h) => [g \in Handle |-> Life(g)]' = [[g \in Handle |-> Life(g)] EXCEPT ![h] = "stopped"]
         /\ ~Api!Alive(h) => [g \in Handle |-> Life(g)]' = [g \in Handle |-> Life(g)]
         /\ Life(h)' # "created"
<1>1. stop'[h] = TRUE /\ \A g \in Handle \ {h} : stop'[g] = stop[g]
  BY Zenon DEF CInv, ContractInv, CoreTypeOK
<1>2. \A g \in Handle \ {h} : Life(g)' = Life(g)
  BY <1>1, LifeSame, Zenon
<1>3. Life(h)' # "created"
  BY <1>1, Zenon DEF Life
<1>4. h \in Nat /\ next \in Nat /\ (h \in registry => h < next)
  BY LifeIs, Zenon DEF CInv, IInv, HandleInv, HandleTypeOK
<1>5. Api!Alive(h) => Life(h)' = "stopped"
  <2>1. Api!Alive(h) => h \in registry /\ worker[h] \notin Exited /\ ~(h >= next)
    BY <1>4, LifeIs
  <2> QED BY <1>1, <2>1, Zenon DEF Life
<1>6. ~Api!Alive(h) => Life(h)' = Life(h)
  <2>1. ~Api!Alive(h) => h \notin registry \/ worker[h] \in Exited \/ stop[h]
    BY LifeIs, Zenon
  <2> QED BY <1>1, <2>1, Zenon DEF Life
<1>7. Api!Alive(h) => [g \in Handle |-> Life(g)]' = [[g \in Handle |-> Life(g)] EXCEPT ![h] = "stopped"]
  BY <1>2, <1>5, LifeOne, Zenon
<1>8. ~Api!Alive(h) => [g \in Handle |-> Life(g)]' = [g \in Handle |-> Life(g)]
  BY <1>2, <1>6, Zenon
<1> QED BY <1>3, <1>7, <1>8, Zenon

-----------------------------------------------------------------------------
(* Calls that begin *)

LEMMA SameCardinality == \A S : Api!Cardinality(S) = Cardinality(S)
BY Zenon DEF Cardinality, Api!Cardinality

LEMMA CreateKeeps ==
  ASSUME CInv, NEW t \in Thread, NEW f \in Creates, Create(t, f)
  PROVE  Api!Next
<1> USE DEF regVars, coreVars, bridgeVars, logVars
<1>1. UNCHANGED <<stop, running, fd, changed, sender, protecting, pending, output, reader, lastRead, logs>>
  BY Zenon DEF Create
<1>2. /\ \A g \in Handle : Running(g)' = Running(g)
      /\ UNCHANGED Api!packetVars
  BY <1>1, PacketsSame, Zenon DEF Running
<1>3. next \in Nat /\ worker \in [Handle -> WorkerState]
  BY Zenon DEF CInv, IInv, HandleInv, HandleTypeOK
<1>4. Api!Create(t, f)
  <2>1. CASE Call(t, f, 0, "ERROR") /\ UNCHANGED <<registry, next, worker>>
    <3>1. Api!Idle(t) /\ Api!Set(t, f, 0, "idle", "ERROR")
      BY <2>1, CallSeen, Zenon
    <3>2. \A g \in Handle : Life(g)' = Life(g)
      BY <1>1, <2>1, Zenon DEF Life
    <3> QED BY <1>1, <1>2, <3>1, <3>2, Zenon DEF Api!Create
  <2>2. CASE /\ CheckLifecycle(t) /\ Cardinality(registry) < Capacity /\ next \in Handle
             /\ next' = next + 1
             /\ \/ Call(t, f, 0, "ERROR") /\ UNCHANGED <<registry, worker>>
                \/ /\ Call(t, f, next, "OK") /\ registry' = registry \union {next}
                   /\ worker' = [worker EXCEPT ![next] = "select"]
    <3>1. PICK n \in Handle : n = next
      BY <2>2, Zenon
    <3>2. {g \in Handle : Api!Known(g)} = registry
      BY LifeIs, Zenon DEF CInv, IInv, HandleInv, HandleTypeOK
    <3>a. Api!Cardinality({g \in Handle : Api!Known(g)}) < Capacity /\ t # Callback
      BY <2>2, <3>2, SameCardinality, Zenon DEF CheckLifecycle
    <3>b. /\ UNCHANGED <<{g \in Handle : running[g]}, {g \in Handle : fd[g]}, {g \in Handle : changed[g]}>>
          /\ [g \in Handle |-> Running(g)]' = [g \in Handle |-> Running(g)]
      BY <1>1, <1>2, Zenon
    <3>3. \A k \in Handle : [g \in Handle |-> Life(g)][k] = "unborn" <=> k >= n
      BY <3>1, Zenon DEF Life
    <3>4. /\ \A g \in Handle : g >= next' <=> (g >= next /\ g # n)
          /\ n \in Nat /\ n >= next /\ n \notin registry
      BY <1>3, <2>2, <3>1, LifeIs
    <3>5. worker[n] = "none" /\ ~stop[n] /\ ~running[n]
      BY <3>4, Zenon DEF CInv, IInv, HandleInv, WorkerOK, ContractInv, LifeOK
    <3>6. CASE Call(t, f, 0, "ERROR") /\ UNCHANGED <<registry, worker>>
      <4>1. Api!Idle(t) /\ Api!Set(t, f, 0, "idle", "ERROR")
        BY <3>6, CallSeen, Zenon
      <4>2. Life(n)' = "destroyed" /\ \A g \in Handle \ {n} : Life(g)' = Life(g)
        BY <1>1, <3>4, <3>6, Zenon DEF Life
      <4>3. [g \in Handle |-> Life(g)]' = [[g \in Handle |-> Life(g)] EXCEPT ![n] = "destroyed"]
        BY <4>2, LifeOne, Zenon
      <4> QED BY <1>1, <1>2, <3>a, <3>b, <3>3, <4>1, <4>3, ZenonT(60) DEF Api!Create
    <3>7. CASE /\ Call(t, f, next, "OK") /\ registry' = registry \union {next}
               /\ worker' = [worker EXCEPT ![next] = "select"]
      <4>1. Api!Idle(t) /\ Api!Set(t, f, n, "idle", "OK")
        BY <3>1, <3>7, CallSeen, Zenon
      <4>2. worker'[n] = "select" /\ \A g \in Handle \ {n} : worker'[g] = worker[g]
        BY <1>3, <3>1, <3>7, Zenon
      <4>3. Life(n)' = "created"
        BY <1>1, <3>1, <3>4, <3>5, <3>7, <4>2, ZenonT(60) DEF Life, Exited
      <4>4. \A g \in Handle \ {n} : Life(g)' = Life(g)
        BY <1>1, <3>1, <3>4, <3>7, <4>2, ZenonT(60) DEF Life
      <4>5. [g \in Handle |-> Life(g)]' = [[g \in Handle |-> Life(g)] EXCEPT ![n] = "created"]
        BY <4>3, <4>4, LifeOne, Zenon
      <4> QED BY <1>1, <1>2, <3>a, <3>b, <3>3, <4>1, <4>5, ZenonT(60) DEF Api!Create
    <3> QED BY <2>2, <3>6, <3>7, Zenon
  <2>3. CASE Call(t, f, 0, "ERROR") /\ UNCHANGED <<regVars, worker>>
    BY <2>1, <2>3, Zenon
  <2> QED BY <2>2, <2>3, Zenon DEF Create
<1>5. Api!Function(t)
  BY <1>4, Zenon DEF Creates, Api!Function, Api!meta_create_v1, Api!meta_create_packet_tunnel_v1
<1> QED BY <1>5, Zenon DEF Api!Next

LEMMA WaitBegins ==
  ASSUME CInv, NEW t \in Thread, NEW f, NEW h \in Handle, NEW allowed,
         \/ allowed /\ Enqueue(t, f, h)
         \/ Call(t, f, h, "ERROR"),
         UNCHANGED <<coreSeen, restSeen, packetSeen, logs>>
  PROVE  Api!Enter(t, f, h, allowed)
<1>1. UNCHANGED Api!handleVars /\ UNCHANGED Api!packetVars
  BY SeenSame, Zenon
<1>2. CASE allowed /\ Enqueue(t, f, h)
  <2>1. Api!Idle(t) /\ Api!Set(t, f, h, "pending", "none")
    <3>1. Enter(t, f, h, "waiting", "none", tickets + 1)
      BY <1>2, Zenon DEF Enqueue
    <3> QED BY <3>1, EnterSeen, Zenon
  <2> QED BY <1>1, <1>2, <2>1, Zenon DEF Api!Enter
<1>3. CASE Call(t, f, h, "ERROR")
  <2>1. Api!Idle(t) /\ Api!Set(t, f, h, "idle", "ERROR")
    BY <1>3, CallSeen, Zenon
  <2> QED BY <1>1, <2>1, Zenon DEF Api!Enter
<1> QED BY <1>2, <1>3, Zenon

LEMMA RequestKeeps ==
  ASSUME CInv, NEW t \in Thread, NEW f, NEW h \in Handle,
         \/ f \in Commands /\ Command(t, f, h)
         \/ f \in Queries /\ Query(t, f, h)
  PROVE  Api!Next
<1>1. UNCHANGED <<coreSeen, restSeen, packetSeen, logs>>
  BY Zenon DEF Command, Query, regVars, coreVars, bridgeVars, logVars, coreSeen, restSeen, packetSeen
<1>2. CASE f \in Commands /\ Command(t, f, h)
  <2>1. \/ h \in registry /\ CheckLifecycle(t) /\ ~stop[h] /\ QueueOpen(h) /\ Enqueue(t, f, h)
        \/ Call(t, f, h, "ERROR")
    BY <1>2, Zenon DEF Command
  <2>2. \/ (Api!Alive(h) /\ t # Callback) /\ Enqueue(t, f, h)
        \/ Call(t, f, h, "ERROR")
    BY <2>1, LifeIs, Zenon DEF CheckLifecycle, QueueOpen
  <2>3. Api!Enter(t, f, h, Api!Alive(h) /\ t # Callback)
    BY <1>1, <2>2, WaitBegins, Zenon
  <2>4. Api!Function(t)
    BY <1>2, <2>3, Zenon DEF Commands, Api!Function, Api!meta_start_v1, Api!meta_set_tun_fd_v1
  <2> QED BY <2>4, Zenon DEF Api!Next
<1>3. CASE f \in Queries /\ Query(t, f, h)
  <2>1. \/ Api!Known(h) /\ Enqueue(t, f, h)
        \/ Call(t, f, h, "ERROR")
    BY <1>3, LifeIs, Zenon DEF Query
  <2>2. Api!Enter(t, f, h, Api!Known(h))
    BY <1>1, <2>1, WaitBegins, Zenon
  <2>3. \A statuses : Api!Blocking(t, f, statuses)
    BY <2>2, Zenon DEF Api!Blocking
  <2>4. Api!Function(t)
    BY <1>3, <2>3, Zenon DEF Queries, Api!Function, Api!meta_probe_v1, Api!meta_test_route_v1,
       Api!meta_dns_leak_v1
  <2> QED BY <2>4, Zenon DEF Api!Next
<1> QED BY <1>2, <1>3, Zenon

LEMMA ShutdownKeeps ==
  ASSUME CInv, NEW t \in Thread, NEW f \in Stops, NEW h \in Handle, Shutdown(t, f, h)
  PROVE  Api!Next
<1>1. UNCHANGED <<registry, next, worker, running, fd, changed, sender, protecting, logs>> /\ UNCHANGED packetSeen
  BY Zenon DEF Shutdown, regVars, workerVars, bridgeVars, logVars, packetSeen
<1>2. /\ \A g \in Handle : Running(g)' = Running(g)
      /\ UNCHANGED Api!packetVars
  BY <1>1, PacketsSame, Zenon DEF Running, packetSeen
<1>3. Api!Stop(t, f)
  <2>1. CASE h \in registry /\ CheckLifecycle(t)
    <3>1. Enter(t, f, h, "locking", "none", 0) /\ stop' = [stop EXCEPT ![h] = TRUE]
      BY <2>1, Zenon DEF Shutdown
    <3>2. Api!Idle(t) /\ Api!Set(t, f, h, "pending", "none")
      BY <3>1, EnterSeen, Zenon
    <3>3. [g \in Handle |-> Life(g)]'
             = [[g \in Handle |-> Life(g)] EXCEPT ![h] = IF Api!Alive(h) THEN "stopped" ELSE @]
      <4>1. CASE Api!Alive(h)
        BY <1>1, <3>1, <4>1, StopSets, Zenon
      <4>2. CASE ~Api!Alive(h)
        <5>1. [g \in Handle |-> Life(g)]' = [g \in Handle |-> Life(g)]
          BY <1>1, <3>1, <4>2, StopSets, Zenon
        <5> QED BY <4>2, <5>1, Zenon
      <4> QED BY <4>1, <4>2, Zenon
    <3>4. Api!Known(h) /\ t # Callback
      BY <2>1, LifeIs, Zenon DEF CheckLifecycle
    <3> QED BY <1>1, <1>2, <3>2, <3>3, <3>4, ZenonT(60) DEF Api!Stop
  <2>2. CASE ~(h \in registry /\ CheckLifecycle(t))
    <3>1. Call(t, f, h, "ERROR") /\ UNCHANGED stop
      BY <2>2, Zenon DEF Shutdown
    <3>2. Api!Idle(t) /\ Api!Set(t, f, h, "idle", "ERROR")
      BY <3>1, CallSeen, Zenon
    <3>3. Api!Known(h) => t = Callback
      BY <2>2, LifeIs, Zenon DEF CheckLifecycle
    <3>4. \A g \in Handle : Life(g)' = Life(g)
      BY <1>1, <3>1, Zenon DEF Life
    <3> QED BY <1>1, <1>2, <3>2, <3>3, <3>4, Zenon DEF Api!Stop
  <2> QED BY <2>1, <2>2, ZenonT(60)
<1>4. Api!Function(t)
  BY <1>3, Zenon DEF Stops, Api!Function, Api!meta_stop_v1, Api!meta_destroy_v1
<1> QED BY <1>4, Zenon DEF Api!Next

-----------------------------------------------------------------------------
(* Calls that end *)

\* A waiting call as its host sees it.
LEMMA WaitSeen ==
  ASSUME CInv, NEW t \in Thread, call[t].at # "idle"
  PROVE  /\ [u \in Thread |-> Seen(call[u])][t].h = call[t].h
         /\ ~(call[t].fn = "start" /\ call[t].reply = "ok") => Api!Pending(t, call[t].fn)
         /\ call[t].fn = "start" /\ call[t].reply = "ok" =>
               /\ [u \in Thread |-> Seen(call[u])][t].fn = "start"
               /\ [u \in Thread |-> Seen(call[u])][t].at = "granted"
<1>1. [u \in Thread |-> Seen(call[u])][t] = Seen(call[t])
  BY Zenon
<1>2. /\ Seen(call[t]).fn = call[t].fn /\ Seen(call[t]).h = call[t].h
      /\ Seen(call[t]).at = IF call[t].fn = "start" /\ call[t].reply = "ok" THEN "granted" ELSE "pending"
  BY SeenIs, Zenon
<1> QED BY <1>1, <1>2, Zenon DEF Api!Pending

LEMMA AnsweredKeeps ==
  ASSUME CInv, NEW t \in Thread, Answered(t)
  PROVE  Api!Next
<1>1. UNCHANGED <<coreSeen, restSeen, packetSeen, logs>>
  BY Zenon DEF Answered, regVars, coreVars, workerVars, logVars, coreSeen, restSeen, packetSeen
<1>2. UNCHANGED Api!handleVars /\ UNCHANGED Api!packetVars
  BY <1>1, SeenSame, Zenon
<1>3. /\ call[t].at = "waiting" /\ call[t].reply \in {"ok", "error"} /\ call[t].fn \in Commands \union Queries
      /\ call[t].h \in Handle /\ ReplyOK(call[t])
  BY Zenon DEF Answered, CInv, ContractInv, WaitOK
<1>4. PICK s : /\ s \in IF call[t].reply = "error" THEN {"ERROR"}
                        ELSE IF call[t].fn \in {"test_route", "dns_leak"} THEN Written ELSE {"OK"}
               /\ Return(t, s)
  BY Zenon DEF Answered
<1>5. Api!Set(t, call[t].fn, call[t].h, "idle", s)
  BY <1>4, ReturnSeen, Zenon
<1>6. PICK h \in Handle : h = call[t].h
  BY <1>3, Zenon
<1>7. [u \in Thread |-> Seen(call[u])][t].h = h
  BY <1>3, <1>6, WaitSeen, Zenon
<1>8. CASE call[t].fn = "start" /\ call[t].reply = "ok"
  <2>1. /\ [u \in Thread |-> Seen(call[u])][t].fn = "start"
        /\ [u \in Thread |-> Seen(call[u])][t].at = "granted"
    BY <1>3, <1>8, WaitSeen, Zenon
  <2>2. h \in {g \in Handle : running[g]} /\ s = "OK"
    BY <1>3, <1>4, <1>6, <1>8, Zenon DEF ReplyOK
  <2>3. Api!meta_start_v1(t)
    BY <1>1, <1>2, <1>5, <1>6, <1>7, <1>8, <2>1, <2>2, ZenonT(60) DEF Api!meta_start_v1
  <2> QED BY <2>3, Zenon DEF Api!Next, Api!Function
<1>9. CASE call[t].fn = "start" /\ call[t].reply = "error"
  <2>1. Api!Pending(t, "start") /\ s = "ERROR"
    BY <1>3, <1>4, <1>9, WaitSeen, Zenon
  <2>2. Life(h) # "created"
    BY <1>3, <1>6, <1>9, Zenon DEF ReplyOK, Life
  <2>3. /\ [g \in Handle |-> Life(g)]' = [g \in Handle |-> Life(g)]
        /\ ([g \in Handle |-> Life(g)]')[h] # "created"
    BY <1>2, <2>2, Zenon DEF Api!handleVars
  <2>4. Api!meta_start_v1(t)
    BY <1>1, <1>2, <1>5, <1>6, <1>7, <1>9, <2>1, <2>3, ZenonT(60)
       DEF Api!meta_start_v1, Api!MayStop, Api!handleVars
  <2> QED BY <2>4, Zenon DEF Api!Next, Api!Function
<1>10. CASE call[t].fn = "set_fd"
  <2>1. Api!Pending(t, "set_fd") /\ s \in {"OK", "ERROR"}
    BY <1>3, <1>4, <1>10, WaitSeen, Zenon
  <2>2. s = "OK" => h \in {g \in Handle : fd[g]}
    BY <1>3, <1>4, <1>6, <1>10, Zenon DEF ReplyOK
  <2>3. Api!meta_set_tun_fd_v1(t)
    BY <1>1, <1>2, <1>5, <1>6, <1>7, <1>10, <2>1, <2>2 DEF Api!meta_set_tun_fd_v1, Api!MayStop,
       Api!handleVars
  <2> QED BY <2>3, ZenonT(60) DEF Api!Next, Api!Function
<1>11. CASE call[t].fn \in Queries
  <2>1. Api!Pending(t, call[t].fn)
    BY <1>3, <1>11, WaitSeen, Zenon DEF Queries
  <2>2. /\ s \in Api!CallerBuffer
        /\ call[t].fn = "probe" => s \in {"OK", "ERROR"}
    BY <1>3, <1>4, WrittenIs, Zenon DEF Api!CallerBuffer, Api!Status
  <2>3. \A statuses : s \in statuses => Api!Blocking(t, call[t].fn, statuses)
    BY <1>1, <1>2, <1>5, <1>6, <1>7, <2>1, ZenonT(60) DEF Api!Blocking
  <2>4. Api!Function(t)
    BY <1>11, <2>2, <2>3, ZenonT(60) DEF Queries, Api!Function, Api!meta_probe_v1,
       Api!meta_test_route_v1, Api!meta_dns_leak_v1
  <2> QED BY <2>4, ZenonT(60) DEF Api!Next
<1> QED BY <1>3, <1>8, <1>9, <1>10, <1>11, Zenon DEF Commands

LEMMA UnansweredKeeps ==
  ASSUME CInv, NEW t \in Thread, Unanswered(t)
  PROVE  Api!Next
<1>1. UNCHANGED <<registry, next, worker, running, restSeen, packetSeen, logs>>
  BY ZenonT(60) DEF Unanswered, regVars, workerVars, logVars, bridgeVars, restSeen, packetSeen
<1>2. /\ \A g \in Handle : Running(g)' = Running(g)
      /\ UNCHANGED Api!packetVars
  BY <1>1, PacketsSame, Zenon DEF Running, restSeen, packetSeen
<1>3. /\ call[t].at = "waiting" /\ call[t].reply \in {"none", "dropped"} /\ call[t].fn \in Commands \union Queries
      /\ call[t].h \in Handle /\ Return(t, "ERROR")
      /\ stop' = [stop EXCEPT ![call[t].h] = @ \/ StopsOnTimeout(call[t].fn)]
  BY Zenon DEF Unanswered, CInv, ContractInv, WaitOK
<1>4. Api!Set(t, call[t].fn, call[t].h, "idle", "ERROR")
  BY <1>3, ReturnSeen, Zenon
<1>5. PICK h \in Handle : h = call[t].h
  BY <1>3, ZenonT(60)
<1>6. [u \in Thread |-> Seen(call[u])][t].h = h /\ Api!Pending(t, call[t].fn)
  BY <1>3, <1>5, WaitSeen, Zenon
<1>7. /\ UNCHANGED <<{g \in Handle : running[g]}, {g \in Handle : fd[g]}, {g \in Handle : changed[g]}>>
      /\ [g \in Handle |-> Running(g)]' = [g \in Handle |-> Running(g)]
  BY <1>1, <1>2, Zenon DEF restSeen
<1>8. CASE call[t].fn \in Commands
  <2>1. stop' = [stop EXCEPT ![h] = TRUE]
    BY <1>3, <1>5, <1>8, Zenon DEF StopsOnTimeout
  <2>2. /\ Api!MayStop(h)
        /\ ([g \in Handle |-> Life(g)]')[h] # "created"
    BY <1>1, <2>1, StopSets, Zenon DEF Api!MayStop
  <2>3. Api!meta_start_v1(t) \/ Api!meta_set_tun_fd_v1(t)
    BY <1>1, <1>2, <1>4, <1>5, <1>6, <1>7, <1>8, <2>2, ZenonT(60)
       DEF Commands, Api!meta_start_v1, Api!meta_set_tun_fd_v1
  <2> QED BY <2>3, Zenon DEF Api!Next, Api!Function
<1>9. CASE call[t].fn \in Queries
  <2>1. stop' = stop
    BY <1>3, <1>5, <1>9, Zenon DEF StopsOnTimeout, Commands, Queries, CInv, ContractInv, CoreTypeOK
  <2>2. UNCHANGED Api!handleVars /\ UNCHANGED Api!packetVars
    BY <1>1, <2>1, SeenSame, Zenon DEF coreSeen
  <2>3. \A statuses : "ERROR" \in statuses => Api!Blocking(t, call[t].fn, statuses)
    BY <1>1, <1>4, <1>5, <1>6, <2>2, ZenonT(60) DEF Api!Blocking
  <2>4. "ERROR" \in Api!CallerBuffer /\ "ERROR" \in {"OK", "ERROR"}
    BY Zenon DEF Api!CallerBuffer, Api!Status
  <2>5. Api!Function(t)
    BY <1>9, <2>3, <2>4, ZenonT(60) DEF Queries, Api!Function, Api!meta_probe_v1,
       Api!meta_test_route_v1, Api!meta_dns_leak_v1
  <2> QED BY <2>5, Zenon DEF Api!Next
<1> QED BY <1>3, <1>8, <1>9, Zenon

\* A worker that exited runs no callback.
LEMMA ExitedQuiet ==
  ASSUME CInv, NEW h \in Handle, worker[h] \in Exited
  PROVE  Life(h) \in {"joined", "destroyed"} /\ Running(h) = {}
<1>1. Life(h) \in {"joined", "destroyed"}
  BY LifeIs, Zenon
<1>2. sender[h] = "gone" /\ protecting[h] = {}
  BY Zenon DEF CInv, IInv, HandleInv, WorkerOK
<1> QED BY <1>1, <1>2, Zenon DEF Running

LEMMA StopsKeep ==
  ASSUME CInv, NEW t \in Thread, LockWorker(t) \/ Join(t) \/ Stopped(t)
  PROVE  Api!Next
<1> USE DEF regVars, coreVars, workerVars, logVars, bridgeVars
<1>1. /\ UNCHANGED <<next, worker, stop, running, restSeen, packetSeen, logs>>
      /\ call[t].at \in {"locking", "joining", "joined"} /\ call[t].at # "idle"
  BY ZenonT(60) DEF LockWorker, Join, Stopped, restSeen, packetSeen
<1>2. PICK h \in Handle : h = call[t].h
  BY <1>1, Zenon DEF CInv, IInv, HandleInv, CallOK
<1>3. call[t].fn \in Stops /\ (call[t].at = "joined" => worker[h] \in Exited)
  BY <1>1, <1>2, Zenon DEF CInv, IInv, HandleInv, CallOK, ContractInv, WaitOK
<1>4. /\ \A g \in Handle : Running(g)' = Running(g)
      /\ UNCHANGED Api!packetVars
  BY <1>1, PacketsSame, Zenon DEF Running, restSeen, packetSeen
<1>5. /\ UNCHANGED <<{g \in Handle : running[g]}, {g \in Handle : fd[g]}, {g \in Handle : changed[g]}>>
      /\ [g \in Handle |-> Running(g)]' = [g \in Handle |-> Running(g)]
  BY <1>1, <1>4, Zenon DEF restSeen
<1>6. Api!Pending(t, call[t].fn) /\ [u \in Thread |-> Seen(call[u])][t].h = h
  BY <1>1, <1>2, <1>3, WaitSeen, ZenonT(60) DEF Stops
<1>7. ASSUME NEW s \in {"OK", "ERROR"}, Return(t, s), worker[h] \in Exited,
             registry' = IF call[t].fn = "destroy" /\ s = "OK" THEN registry \ {h} ELSE registry
      PROVE  Api!Next
  <2>1. Api!Set(t, call[t].fn, h, "idle", s)
    BY <1>2, <1>7, ReturnSeen, Zenon
  <2>2. /\ [g \in Handle |-> Life(g)][h] \in {"joined", "destroyed"}
        /\ [g \in Handle |-> Running(g)][h] = {}
    BY <1>7, ExitedQuiet, Zenon
  <2>3. [g \in Handle |-> Life(g)]'
           = IF call[t].fn = "destroy" /\ s = "OK"
             THEN [[g \in Handle |-> Life(g)] EXCEPT ![h] = "destroyed"] ELSE [g \in Handle |-> Life(g)]
    <3>1. CASE call[t].fn = "destroy" /\ s = "OK"
      <4>1. h < next /\ next \in Nat /\ h \in Nat
        BY <1>7 DEF CInv, IInv, HandleInv, HandleTypeOK, WorkerOK, Exited
      <4>2. ~(h >= next') /\ h \notin registry'
        BY <1>1, <1>7, <3>1, <4>1
      <4>3. Life(h)' = "destroyed"
        BY <4>2, ZenonT(60) DEF Life
      <4>4. \A g \in Handle \ {h} : Life(g)' = Life(g)
        BY <1>1, <1>7, <3>1, Zenon DEF Life
      <4> QED BY <3>1, <4>3, <4>4, LifeOne, ZenonT(60)
    <3>2. CASE ~(call[t].fn = "destroy" /\ s = "OK")
      <4>1. \A g \in Handle : Life(g)' = Life(g)
        BY <1>1, <1>7, <3>2, Zenon DEF Life
      <4> QED BY <3>2, <4>1, Zenon
    <3> QED BY <3>1, <3>2, Zenon
  <2>4. Api!Stop(t, call[t].fn)
    BY <1>1, <1>4, <1>5, <1>6, <1>7, <2>1, <2>2, <2>3, Zenon DEF Api!Stop
  <2>5. Api!Function(t)
    BY <1>3, <2>4, ZenonT(60) DEF Stops, Api!Function, Api!meta_stop_v1, Api!meta_destroy_v1
  <2> QED BY <2>5, ZenonT(60) DEF Api!Next
<1>8. ASSUME NEW place \in {"joining", "joined"}, MoveTo(t, place), call[t].at \in {"locking", "joining"},
             UNCHANGED registry
      PROVE  Api!Next
  <2>1. UNCHANGED Api!handleVars /\ UNCHANGED Api!packetVars
    BY <1>1, <1>8, SeenSame, Zenon DEF coreSeen
  <2>2. \A u \in Thread : Seen(call'[u]) = Seen(call[u])
    BY <1>8, MoveSeen, Zenon
  <2> QED BY <1>1, <2>1, <2>2, Stutters, Zenon
<1>9. CASE LockWorker(t)
  BY <1>8, <1>9, Zenon DEF LockWorker
<1>10. CASE Join(t)
  <2>1. UNCHANGED registry /\ worker[h] \in Exited /\ call[t].at = "joining"
    BY <1>2, <1>10, Zenon DEF Join
  <2>2. Return(t, "ERROR") \/ MoveTo(t, "joined")
    BY <1>10, Zenon DEF Join
  <2>3. CASE Return(t, "ERROR")
    BY <1>7, <2>1, <2>3, Zenon
  <2>4. CASE MoveTo(t, "joined")
    BY <1>8, <2>1, <2>4, Zenon
  <2> QED BY <2>2, <2>3, <2>4, Zenon
<1>11. CASE Stopped(t)
  BY <1>2, <1>3, <1>7, <1>11, ZenonT(60) DEF Stopped
<1> QED BY <1>9, <1>10, <1>11, Zenon

-----------------------------------------------------------------------------
(* The worker *)

\* Lives and callbacks are as before.
LEMMA CoreSame ==
  ASSUME UNCHANGED <<registry, next, stop, running, protecting>>,
         \A g \in Handle : worker'[g] \in Exited <=> worker[g] \in Exited,
         \A g \in Handle : sender'[g] = "callback" <=> sender[g] = "callback"
  PROVE  \A g \in Handle : Life(g)' = Life(g) /\ Running(g)' = Running(g)
<1> TAKE g \in Handle
<1>1. Life(g)' = Life(g)
  BY LifeSame, Zenon
<1>2. Running(g)' = Running(g)
  BY ZenonT(60) DEF Running
<1> QED BY <1>1, <1>2, Zenon

\* A step the host does not see.
LEMMA QuietKeeps ==
  ASSUME UNCHANGED <<registry, next, stop, running, fd, changed, protecting, packetSeen, logs>>,
         \A g \in Handle : worker'[g] \in Exited <=> worker[g] \in Exited,
         \A g \in Handle : sender'[g] = "callback" <=> sender[g] = "callback",
         \A u \in Thread : Seen(call'[u]) = Seen(call[u])
  PROVE  Api!Next
<1>1. \A g \in Handle : Life(g)' = Life(g) /\ Running(g)' = Running(g)
  BY CoreSame, Zenon
<1>2. UNCHANGED Api!handleVars
  BY <1>1, HandlesSame, Zenon
<1>3. UNCHANGED Api!packetVars
  BY PacketsSame, Zenon DEF packetSeen
<1> QED BY <1>2, <1>3, Stutters, Zenon

\* The core is cancelled, by itself: the host sees it stop, unless it was stopped.
LEMMA CancelKeeps ==
  ASSUME CInv, NEW h \in Handle, stop' = [stop EXCEPT ![h] = TRUE],
         UNCHANGED <<registry, next, running, restSeen, packetSeen, logs>>,
         \A g \in Handle : worker'[g] \in Exited <=> worker[g] \in Exited,
         \A u \in Thread : Seen(call'[u]) = Seen(call[u])
  PROVE  Api!Next
<1>1. \A g \in Handle : Running(g)' = Running(g)
  BY Zenon DEF Running, restSeen
<1>2. UNCHANGED Api!packetVars
  BY PacketsSame, Zenon DEF packetSeen
<1>3. /\ UNCHANGED <<{g \in Handle : running[g]}, {g \in Handle : fd[g]}, {g \in Handle : changed[g]}>>
      /\ [g \in Handle |-> Running(g)]' = [g \in Handle |-> Running(g)]
      /\ [u \in Thread |-> Seen(call[u])]' = [u \in Thread |-> Seen(call[u])]
  BY <1>1, Zenon DEF restSeen
<1>4. CASE Api!Alive(h)
  <2>1. [g \in Handle |-> Life(g)]' = [[g \in Handle |-> Life(g)] EXCEPT ![h] = "stopped"]
    BY <1>4, StopSets, Zenon
  <2>2. Api!Stops(h)
    BY <1>2, <1>3, <1>4, <2>1, ZenonT(60) DEF Api!Stops
  <2> QED BY <2>2, Zenon DEF Api!Next
<1>5. CASE ~Api!Alive(h)
  <2>1. [g \in Handle |-> Life(g)]' = [g \in Handle |-> Life(g)]
    BY <1>5, StopSets, Zenon
  <2>2. UNCHANGED Api!handleVars
    BY <1>3, <2>1, Zenon DEF Api!handleVars
  <2> QED BY <1>2, <2>2, Stutters, Zenon
<1> QED BY <1>4, <1>5, Zenon

\* A handle whose worker runs.
LEMMA WorkerRuns ==
  ASSUME CInv, NEW h \in Handle, worker[h] \notin Exited \union {"none"}
  PROVE  /\ Api!Alive(h) \/ [g \in Handle |-> Life(g)][h] = "stopped"
         /\ Life(h) = IF stop[h] THEN "stopped" ELSE IF running[h] THEN "started" ELSE "created"
<1>1. h \in registry /\ ~(h >= next)
  <2>1. h \in registry /\ h < next /\ h \in Nat /\ next \in Nat
    BY LifeIs, Zenon DEF CInv, IInv, HandleInv, HandleTypeOK
  <2> QED BY <2>1
<1>2. Life(h) = IF stop[h] THEN "stopped" ELSE IF running[h] THEN "started" ELSE "created"
  BY <1>1, ZenonT(60) DEF Life
<1> QED BY <1>1, <1>2, LifeIs, Zenon

LEMMA WorkerQuietKeeps ==
  ASSUME CInv, NEW h \in Handle, TakeStop(h) \/ ChangeDone(h) \/ SpawnPackets(h)
  PROVE  Api!Next
<1> USE DEF regVars, coreVars, workerVars, logVars, bridgeVars
<1>1. UNCHANGED <<registry, next, stop, running, fd, changed, protecting, packetSeen, logs, call>>
  BY Zenon DEF TakeStop, ChangeDone, SpawnPackets, packetSeen
<1>2. worker \in [Handle -> WorkerState] /\ sender \in [Handle -> SenderState]
  BY Zenon DEF CInv, IInv, HandleInv, HandleTypeOK, BridgeInv, BridgeTypeOK
<1>3. \A g \in Handle : worker'[g] \in Exited <=> worker[g] \in Exited
  BY <1>2, Zenon DEF TakeStop, ChangeDone, SpawnPackets, Exited
<1>4. \A g \in Handle : sender'[g] = "callback" <=> sender[g] = "callback"
  BY <1>2, Zenon DEF TakeStop, ChangeDone, SpawnPackets
<1> QED BY <1>1, <1>3, <1>4, QuietKeeps, Zenon

LEMMA TakeChangeKeeps ==
  ASSUME CInv, NEW h \in Handle, TakeChange(h)
  PROVE  Api!Next
<1> USE DEF regVars, coreVars, workerVars, logVars, bridgeVars
<1>1. /\ UNCHANGED <<registry, next, stop, running, fd, protecting, sender, packetSeen, logs, call>>
      /\ worker[h] = "select" /\ ~stop[h] /\ worker' = [worker EXCEPT ![h] = "changing"]
      /\ changed' = [changed EXCEPT ![h] = FALSE]
  BY Zenon DEF TakeChange, packetSeen
<1>2. worker \in [Handle -> WorkerState] /\ changed \in [Handle -> BOOLEAN]
  BY Zenon DEF CInv, IInv, HandleInv, HandleTypeOK, ContractInv, CoreTypeOK
<1>3. \A g \in Handle : worker'[g] \in Exited <=> worker[g] \in Exited
  BY <1>1, <1>2, Zenon DEF Exited
<1>4. \A g \in Handle : Life(g)' = Life(g) /\ Running(g)' = Running(g)
  BY <1>1, <1>3, CoreSame, Zenon
<1>5. {g \in Handle : changed'[g]} = {g \in Handle : changed[g]} \ {h}
  BY <1>1, <1>2, Zenon
<1>6. Api!Alive(h)
  BY <1>1, LifeIs, Zenon DEF Exited
<1>7. UNCHANGED Api!packetVars
  BY <1>1, PacketsSame, Zenon DEF packetSeen
<1>8. Api!TakesChange(h)
  BY <1>1, <1>4, <1>5, <1>6, <1>7, Zenon DEF Api!TakesChange
<1> QED BY <1>8, Zenon DEF Api!Next

LEMMA TakeStartKeeps ==
  ASSUME CInv, NEW h \in Handle, NEW c, TakeStart(h, c) \/ TakeQuery(h, c)
  PROVE  Api!Next
<1> USE DEF regVars, coreVars, workerVars, logVars, bridgeVars
<1>1. /\ UNCHANGED <<registry, next, stop, running, fd, changed, protecting, sender, packetSeen, logs>>
      /\ Receive(h, c)
  BY ZenonT(60) DEF TakeStart, TakeQuery, packetSeen
<1>2. c \in Asked(h) /\ worker[h] = "select" /\ worker \in [Handle -> WorkerState]
  BY <1>1, ReceiveFacts, Zenon DEF CInv, IInv, HandleInv, HandleTypeOK
<1>3. \A g \in Handle : worker'[g] \in Exited <=> worker[g] \in Exited
  BY <1>2, Zenon DEF TakeStart, TakeQuery, Exited
<1>4. \A u \in Thread : Seen(call'[u]) = Seen(call[u])
  <2>1. UNCHANGED call \/ call' = Replied(c, "error")
    BY Zenon DEF TakeStart, TakeQuery
  <2>2. CASE call' = Replied(c, "error")
    BY <1>2, <2>2, RepliedSeen, Zenon
  <2> QED BY <2>1, <2>2, Zenon
<1> QED BY <1>1, <1>3, <1>4, QuietKeeps, Zenon

LEMMA TakeFdKeeps ==
  ASSUME CInv, NEW h \in Handle, NEW c, TakeFd(h, c)
  PROVE  Api!Next
<1> USE DEF regVars, coreVars, workerVars, logVars, bridgeVars
<1>1. /\ UNCHANGED <<registry, next, worker, stop, running, changed, protecting, packetSeen, logs>>
      /\ Receive(h, c) /\ c.fn = "set_fd"
  BY ZenonT(60) DEF TakeFd, packetSeen
<1>2. c \in Asked(h) /\ worker[h] = "select" /\ ~stop[h]
  BY <1>1, ReceiveFacts, Zenon
<1>3. PICK r \in {"ok", "error"} : call' = Replied(c, r)
  BY ZenonT(60) DEF TakeFd
<1>4. \A u \in Thread : Seen(call'[u]) = Seen(call[u])
  BY <1>1, <1>2, <1>3, RepliedSeen, ZenonT(60)
<1>5. CASE UNCHANGED <<fd, sender>>
  BY <1>1, <1>4, <1>5, QuietKeeps, Zenon
<1>6. CASE /\ ~running[h] /\ fd' = [fd EXCEPT ![h] = TRUE] /\ sender' = [sender EXCEPT ![h] = "gone"]
  <2>1. sender \in [Handle -> SenderState] /\ fd \in [Handle -> BOOLEAN] /\ LifeOK(h)
    BY ZenonT(60) DEF CInv, IInv, HandleInv, HandleTypeOK, BridgeInv, BridgeTypeOK, ContractInv
  <2>2. sender[h] # "callback"
    BY <1>2, <1>6, <2>1, Zenon DEF LifeOK, Active
  <2>3. \A g \in Handle : sender'[g] = "callback" <=> sender[g] = "callback"
    BY <1>6, <2>1, <2>2, Zenon
  <2>4. \A g \in Handle : Life(g)' = Life(g) /\ Running(g)' = Running(g)
    BY <1>1, <2>3, CoreSame, Zenon
  <2>5. {g \in Handle : fd'[g]} = {g \in Handle : fd[g]} \union {h}
    BY <1>6, <2>1, Zenon
  <2>6. [g \in Handle |-> Life(g)][h] = "created" /\ h \notin {g \in Handle : running[g]}
    BY <1>2, <1>6, WorkerRuns, Zenon DEF Exited
  <2>7. UNCHANGED Api!packetVars
    BY <1>1, PacketsSame, Zenon DEF packetSeen
  <2>8. Api!Moved(h)
    BY <1>1, <1>4, <2>4, <2>5, <2>6, <2>7, ZenonT(60) DEF Api!Moved
  <2> QED BY <2>8, Zenon DEF Api!Next
<1> QED BY <1>5, <1>6, Zenon DEF TakeFd

LEMMA StartOkKeeps ==
  ASSUME CInv, NEW h \in Handle, StartOk(h)
  PROVE  Api!Next
<1> USE DEF regVars, coreVars, workerVars, logVars, bridgeVars
<1>1. /\ UNCHANGED <<registry, next, stop, restSeen, packetSeen, logs>>
      /\ worker[h] = "starting" /\ worker' = [worker EXCEPT ![h] = "select"]
      /\ running' = [running EXCEPT ![h] = TRUE] /\ call' = Replied(job[h][1], "ok")
  BY Zenon DEF StartOk, restSeen, packetSeen
<1>2. /\ worker \in [Handle -> WorkerState] /\ running \in [Handle -> BOOLEAN] /\ LifeOK(h) /\ QueueOK(h)
      /\ DOMAIN call = Thread
  BY ZenonT(60) DEF CInv, IInv, HandleInv, HandleTypeOK, CallsTypeOK, ContractInv, CoreTypeOK
<1>3. /\ worker'[h] = "select" /\ running'[h] = TRUE /\ ~running[h]
      /\ \A g \in Handle \ {h} : worker'[g] = worker[g] /\ running'[g] = running[g]
  BY <1>1, <1>2, Zenon DEF LifeOK
<1>4. PICK d : d = job[h][1]
  BY ZenonT(60)
<1>5. d \in Asked(h) /\ d.fn = "start"
  BY <1>1, <1>2, <1>4, Zenon DEF QueueOK, Serving, Asked
<1>6. AskedOK(h, d) /\ d \in Request
  BY <1>5, AskedFacts, ZenonT(60)
<1>7. Life(h) = IF stop[h] THEN "stopped" ELSE "created"
  BY <1>1, <1>3, WorkerRuns, Zenon DEF Exited
<1>8. Life(h)' = IF Life(h) = "created" THEN "started" ELSE Life(h)
  <2>1. h \in registry /\ ~(h >= next)
    <3>1. h \in registry /\ h < next /\ h \in Nat /\ next \in Nat
      BY <1>1, LifeIs, Zenon DEF CInv, IInv, HandleInv, HandleTypeOK, Exited
    <3> QED BY <3>1
  <2> QED BY <1>1, <1>3, <1>7, <2>1, Zenon DEF Life, Exited
<1>9. \A g \in Handle \ {h} : Life(g)' = Life(g)
  BY <1>1, <1>3, LifeSame, Zenon
<1>10. [g \in Handle |-> Life(g)]'
         = [[g \in Handle |-> Life(g)] EXCEPT ![h] = IF @ = "created" THEN "started" ELSE @]
  BY <1>8, <1>9, Zenon
<1>11. \A g \in Handle : Running(g)' = Running(g)
  BY <1>1, Zenon DEF Running, restSeen
<1>12. {g \in Handle : running'[g]} = {g \in Handle : running[g]} \union {h}
  BY <1>2, <1>3, Zenon
<1>13. UNCHANGED Api!packetVars
  BY <1>1, PacketsSame, ZenonT(60) DEF packetSeen
<1>14. /\ UNCHANGED <<{g \in Handle : fd[g]}, {g \in Handle : changed[g]}>>
       /\ [g \in Handle |-> Running(g)]' = [g \in Handle |-> Running(g)]
       /\ [g \in Handle |-> Life(g)][h] \in {"created", "stopped"} /\ h \notin {g \in Handle : running[g]}
  BY <1>1, <1>3, <1>7, <1>11, Zenon DEF restSeen
<1>15. CASE call[d.thread].ticket = d.ticket
  <2>1. PICK t \in Thread : t = d.thread
    BY <1>6, ZenonT(60) DEF Request
  <2>2. /\ call[t].at = "waiting" /\ call[t].h = h /\ call[t].fn = "start" /\ call[t].reply = "none"
        /\ call[t].status = "none" /\ IsCall(call[t])
    BY <1>5, <1>6, <1>15, <2>1, ZenonT(60) DEF AskedOK, CInv, ContractInv, WaitOK, IInv, HandleInv,
       HandleTypeOK, CallsTypeOK
  <2> DEFINE w == WithReply(call[t], "ok")
  <2>3. w.fn = "start" /\ w.h = h /\ w.at = "waiting" /\ w.status = "none" /\ w.reply = "ok"
    <3>1. CallReplied(WithReply(call[t], "ok"), call[t], "ok")
      BY <2>2, ReplyFields, Zenon
    <3> QED BY <2>2, <3>1, Zenon DEF CallReplied
  <2>4. call' = [call EXCEPT ![t] = w]
    BY <1>1, <1>2, <1>4, <1>15, <2>1, ZenonT(60) DEF Replied
  <2> HIDE DEF w
  <2>5. Api!Set(t, "start", h, "granted", "none")
    <3>1. Api!Set(t, w.fn, w.h, Seen(w).at, w.status)
      BY <2>4, SeenSet, Zenon
    <3>2. Seen(w).at = "granted"
      BY <2>3, SeenIs, Zenon
    <3> QED BY <2>3, <3>1, <3>2, Zenon
  <2>6. Api!Pending(t, "start") /\ [u \in Thread |-> Seen(call[u])][t].h = h
    BY <2>2, WaitSeen, Zenon
  <2>7. Api!Started(h)
    BY <1>1, <1>10, <1>12, <1>13, <1>14, <2>5, <2>6, ZenonT(60) DEF Api!Started
  <2> QED BY <2>7, Zenon DEF Api!Next
<1>16. CASE call[d.thread].ticket # d.ticket
  <2>1. stop[h]
    BY <1>5, <1>6, <1>16, Zenon DEF AskedOK
  <2>2. \A u \in Thread : call'[u] = call[u]
    BY <1>1, <1>4, <1>16, Zenon DEF Replied
  <2>3. [u \in Thread |-> Seen(call[u])]' = [u \in Thread |-> Seen(call[u])]
    BY <2>2, Zenon
  <2>4. [g \in Handle |-> Life(g)][h] = "stopped"
    BY <1>7, <2>1, Zenon
  <2>5. Api!Started(h)
    BY <1>1, <1>10, <1>12, <1>13, <1>14, <2>3, <2>4, ZenonT(60) DEF Api!Started
  <2> QED BY <2>5, ZenonT(60) DEF Api!Next
<1> QED BY <1>15, <1>16, Zenon

\* The start under way ends with an error or without a reply.
LEMMA ServedSeen ==
  ASSUME CInv, NEW h \in Handle, job[h] # <<>>, NEW r \in {"error", "dropped"}, call' = Replied(job[h][1], r)
  PROVE  \A u \in Thread : Seen(call'[u]) = Seen(call[u])
<1>1. job[h][1] \in Asked(h) /\ r # "ok"
  BY Zenon DEF Asked, Serving
<1> QED BY <1>1, RepliedSeen, Zenon

LEMMA StartFailedKeeps ==
  ASSUME CInv, NEW h \in Handle, StartFailed(h)
  PROVE  Api!Next
<1> USE DEF regVars, coreVars, workerVars, logVars, bridgeVars
<1>1. /\ UNCHANGED <<registry, next, running, restSeen, packetSeen, logs>>
      /\ worker[h] = "starting" /\ worker' = [worker EXCEPT ![h] = "select"]
      /\ stop' = [stop EXCEPT ![h] = TRUE] /\ call' = Replied(job[h][1], "error")
  BY Zenon DEF StartFailed, restSeen, packetSeen
<1>2. worker \in [Handle -> WorkerState] /\ job[h] # <<>>
  BY <1>1, Zenon DEF CInv, IInv, HandleInv, HandleTypeOK, ContractInv, QueueOK
<1>3. \A g \in Handle : worker'[g] \in Exited <=> worker[g] \in Exited
  BY <1>1, <1>2, Zenon DEF Exited
<1>4. \A u \in Thread : Seen(call'[u]) = Seen(call[u])
  BY <1>1, <1>2, ServedSeen, Zenon
<1> QED BY <1>1, <1>3, <1>4, CancelKeeps, Zenon

LEMMA PanicKeeps ==
  ASSUME CInv, NEW h \in Handle, WorkerPanics(h)
  PROVE  Api!Next
<1> USE DEF regVars, coreVars, workerVars, logVars, bridgeVars
<1>1. /\ UNCHANGED <<registry, next, running, restSeen, packetSeen, logs>>
      /\ worker[h] \in {"starting", "changing"} /\ worker' = [worker EXCEPT ![h] = "unwinding"]
      /\ stop' = [stop EXCEPT ![h] = @ \/ running[h]]
      /\ call' = IF job[h] = <<>> THEN call ELSE Replied(job[h][1], "dropped")
  BY Zenon DEF WorkerPanics, restSeen, packetSeen
<1>2. worker \in [Handle -> WorkerState] /\ stop \in [Handle -> BOOLEAN] /\ running \in [Handle -> BOOLEAN]
  BY Zenon DEF CInv, IInv, HandleInv, HandleTypeOK, ContractInv, CoreTypeOK
<1>3. \A g \in Handle : worker'[g] \in Exited <=> worker[g] \in Exited
  BY <1>1, <1>2, Zenon DEF Exited
<1>4. \A u \in Thread : Seen(call'[u]) = Seen(call[u])
  <2>1. CASE job[h] = <<>>
    BY <1>1, <2>1, Zenon
  <2>2. CASE job[h] # <<>>
    BY <1>1, <2>2, ServedSeen, Zenon
  <2> QED BY <2>1, <2>2, Zenon
<1>5. CASE running[h]
  <2>1. stop' = [stop EXCEPT ![h] = TRUE]
    BY <1>1, <1>2, <1>5, ZenonT(60)
  <2> QED BY <1>1, <1>3, <1>4, <2>1, CancelKeeps, Zenon
<1>6. CASE ~running[h]
  <2>1. stop' = stop
    BY <1>1, <1>2, <1>6, ZenonT(60)
  <2> QED BY <1>1, <1>3, <1>4, <2>1, QuietKeeps, Zenon DEF restSeen
<1> QED BY <1>5, <1>6, Zenon

LEMMA ExitKeeps ==
  ASSUME CInv, NEW h \in Handle, WorkerExits(h)
  PROVE  Api!Next
<1> USE DEF regVars, coreVars, workerVars, logVars, bridgeVars
<1>1. /\ UNCHANGED <<registry, next, stop, running, fd, changed, protecting, packetSeen, logs>>
      /\ worker[h] \in {"dropping", "unwinding"} /\ queries[h] = {} /\ sender[h] \in {"off", "idle", "gone"}
      /\ worker' = [worker EXCEPT ![h] = IF @ = "dropping" THEN "gone" ELSE "panicked"]
      /\ sender' = [sender EXCEPT ![h] = "gone"]
      /\ call' = [t \in Thread |->
                     IF \E i \in DOMAIN commands[h] : commands[h][i].ticket = call[t].ticket
                     THEN WithReply(call[t], "dropped") ELSE call[t]]
  BY Zenon DEF WorkerExits, RuntimeJoined, packetSeen
<1>2. /\ worker \in [Handle -> WorkerState] /\ sender \in [Handle -> SenderState] /\ protecting[h] \subseteq queries[h]
      /\ commands[h] \in Seq(Request)
  BY Zenon DEF CInv, IInv, HandleInv, HandleTypeOK, WorkerOK, BridgeInv, BridgeTypeOK, ContractInv,
     RequestsTypeOK
<1>3. worker'[h] \in Exited /\ worker[h] \notin Exited \union {"none"} /\ \A g \in Handle \ {h} : worker'[g] = worker[g]
  BY <1>1, <1>2, Zenon DEF Exited
<1>4. \A g \in Handle : sender'[g] = "callback" <=> sender[g] = "callback"
  BY <1>1, <1>2, Zenon
<1>5. Running(h) = {} /\ \A g \in Handle : Running(g)' = Running(g)
  BY <1>1, <1>2, <1>4, Zenon DEF Running
<1>6. \A g \in Handle \ {h} : Life(g)' = Life(g)
  BY <1>1, <1>3, LifeSame, Zenon
<1>7. Life(h)' = "joined"
  <2>1. h \in registry /\ ~(h >= next)
    <3>1. h \in registry /\ h < next /\ h \in Nat /\ next \in Nat
      BY <1>3, LifeIs, Zenon DEF CInv, IInv, HandleInv, HandleTypeOK
    <3> QED BY <3>1
  <2> QED BY <1>1, <1>3, <2>1, ZenonT(60) DEF Life
<1>8. [g \in Handle |-> Life(g)]' = [[g \in Handle |-> Life(g)] EXCEPT ![h] = "joined"]
  BY <1>6, <1>7, LifeOne, Zenon
<1>9. \A u \in Thread : Seen(call'[u]) = Seen(call[u])
  <2> TAKE u \in Thread
  <2>1. CASE \E i \in DOMAIN commands[h] : commands[h][i].ticket = call[u].ticket
    <3>1. PICK i \in DOMAIN commands[h] : commands[h][i].ticket = call[u].ticket
      BY <2>1, Zenon
    <3>2. PICK c : c = commands[h][i]
      BY Zenon
    <3>3. c \in Asked(h)
      BY <1>2, <3>2 DEF Asked, Queue, Members
    <3>4. AskedOK(h, c)
      BY <3>3, AskedFacts, ZenonT(60)
    <3>5. call[u].fn = "start" => "dropped" # "ok" /\ call[u].reply # "ok"
      BY <3>1, <3>2, <3>4, Zenon DEF AskedOK
    <3> QED BY <1>1, <2>1, <3>5, ReplySeen, Zenon
  <2>2. CASE ~(\E i \in DOMAIN commands[h] : commands[h][i].ticket = call[u].ticket)
    BY <1>1, <2>2, Zenon
  <2> QED BY <2>1, <2>2, Zenon
<1>10. UNCHANGED Api!packetVars
  BY <1>1, PacketsSame, Zenon DEF packetSeen
<1>11. /\ UNCHANGED <<{g \in Handle : running[g]}, {g \in Handle : fd[g]}, {g \in Handle : changed[g]}>>
       /\ [g \in Handle |-> Running(g)]' = [g \in Handle |-> Running(g)]
       /\ [g \in Handle |-> Running(g)][h] = {}
       /\ [u \in Thread |-> Seen(call[u])]' = [u \in Thread |-> Seen(call[u])]
  BY <1>1, <1>5, <1>9, Zenon
<1>12. Api!Alive(h) \/ [g \in Handle |-> Life(g)][h] = "stopped"
  BY <1>3, WorkerRuns, Zenon
<1>13. Api!Stops(h)
  BY <1>1, <1>8, <1>10, <1>11, <1>12, ZenonT(60) DEF Api!Stops
<1> QED BY <1>13, Zenon DEF Api!Next

LEMMA QueryDoneKeeps ==
  ASSUME CInv, NEW h \in Handle, NEW q \in queries[h], QueryDone(h, q)
  PROVE  Api!Next
<1> USE DEF regVars, coreVars, workerVars, logVars, bridgeVars
<1>1. UNCHANGED <<registry, next, worker, stop, running, fd, changed, protecting, sender, packetSeen, logs>>
  BY Zenon DEF QueryDone, packetSeen
<1>2. PICK r : call' = Replied(q, r)
  BY Zenon DEF QueryDone
<1>3. q \in Asked(h) /\ q.fn # "start"
  BY ZenonT(60) DEF Asked, CInv, ContractInv, QueueOK, Queries
<1>4. \A u \in Thread : Seen(call'[u]) = Seen(call[u])
  BY <1>2, <1>3, RepliedSeen, Zenon
<1> QED BY <1>1, <1>4, QuietKeeps, Zenon

-----------------------------------------------------------------------------
(* Callbacks *)

LEMMA CallbackKeeps ==
  ASSUME CInv, NEW h \in Handle, worker[h] \notin Exited \union {"none"},
         UNCHANGED <<coreSeen, fd, changed, packetSeen, logs, call>>,
         \A g \in Handle \ {h} : Running(g)' = Running(g),
         NEW k \in {"protect_socket", "packet_ready"},
         \/ Running(h)' = Running(h)
         \/ k \notin Running(h) /\ Running(h)' = Running(h) \union {k}
         \/ k \in Running(h) /\ Running(h)' = Running(h) \ {k}
  PROVE  Api!Next
<1>1. \A g \in Handle : Life(g)' = Life(g)
  BY Zenon DEF Life, coreSeen
<1>2. UNCHANGED Api!packetVars
  BY PacketsSame, ZenonT(60) DEF packetSeen
<1>3. CASE Running(h)' = Running(h)
  <2>1. \A g \in Handle : Running(g)' = Running(g)
    BY <1>3, ZenonT(60)
  <2>2. UNCHANGED Api!handleVars
    BY <1>1, <2>1, HandlesSame, Zenon DEF coreSeen
  <2> QED BY <1>2, <2>2, Stutters, Zenon
<1>4. CASE Running(h)' = (Running(h) \union {k}) \ (Running(h) \intersect {k})
  <2>1. \A g \in Handle : Running(g)' = IF g = h THEN (Running(h) \union {k}) \ (Running(h) \intersect {k}) ELSE Running(g)
    BY <1>4, Zenon
  <2>2. [g \in Handle |-> Running(g)]'
          = [[g \in Handle |-> Running(g)] EXCEPT ![h] = (@ \union {k}) \ (@ \intersect {k})]
    BY <2>1, Zenon
  <2>3. /\ UNCHANGED <<{g \in Handle : running[g]}, {g \in Handle : fd[g]}, {g \in Handle : changed[g]}>>
        /\ [g \in Handle |-> Life(g)]' = [g \in Handle |-> Life(g)]
        /\ [u \in Thread |-> Seen(call[u])]' = [u \in Thread |-> Seen(call[u])]
    BY <1>1, Zenon DEF coreSeen
  <2>4. Api!Alive(h) \/ [g \in Handle |-> Life(g)][h] = "stopped"
    BY WorkerRuns, Zenon
  <2>5. k \in Api!Hook
    BY Zenon DEF Api!Hook
  <2>6. Api!CallbackRuns(h)
    BY <1>2, <2>2, <2>3, <2>4, <2>5, ZenonT(60) DEF Api!CallbackRuns
  <2> QED BY <2>6, Zenon DEF Api!Next
<1>5. CASE k \notin Running(h) /\ Running(h)' = Running(h) \union {k}
  <2>1. (Running(h) \union {k}) \ (Running(h) \intersect {k}) = Running(h) \union {k}
    BY <1>5, ZenonT(60)
  <2> QED BY <1>4, <1>5, <2>1, Zenon
<1>6. CASE k \in Running(h) /\ Running(h)' = Running(h) \ {k}
  <2>1. (Running(h) \union {k}) \ (Running(h) \intersect {k}) = Running(h) \ {k}
    BY <1>6, ZenonT(60)
  <2> QED BY <1>4, <1>6, <2>1, Zenon
<1> QED BY <1>3, <1>5, <1>6, Zenon

LEMMA ProtectKeeps ==
  ASSUME CInv, NEW h \in Handle, NEW q \in queries[h], Protect(h, q) \/ Protected(h, q)
  PROVE  Api!Next
<1> USE DEF regVars, coreVars, workerVars, logVars, bridgeVars
<1>1. UNCHANGED <<coreSeen, fd, changed, sender, packetSeen, logs, call>>
  BY Zenon DEF Protect, Protected, coreSeen, packetSeen
<1>2. DOMAIN protecting = Handle /\ worker[h] \notin Exited \union {"none"}
  BY Zenon DEF CInv, IInv, HandleInv, HandleTypeOK, WorkerOK, ContractInv, LifeOK
<1>3. /\ protecting'[h] = protecting[h] \union {q} \/ protecting'[h] = protecting[h] \ {q}
      /\ \A g \in Handle \ {h} : protecting'[g] = protecting[g]
  BY <1>2, ZenonT(60) DEF Protect, Protected
<1>4. \A g \in Handle \ {h} : Running(g)' = Running(g)
  BY <1>1, <1>3, Zenon DEF Running
<1>5. \/ Running(h)' = Running(h)
      \/ "protect_socket" \notin Running(h) /\ Running(h)' = Running(h) \union {"protect_socket"}
      \/ "protect_socket" \in Running(h) /\ Running(h)' = Running(h) \ {"protect_socket"}
  BY <1>1, <1>3, Zenon DEF Running
<1> QED BY <1>1, <1>2, <1>4, <1>5, CallbackKeeps, ZenonT(60)

LEMMA ReadyKeeps ==
  ASSUME CInv, NEW h \in Handle, Queued(h) \/ PacketReady(h),
         UNCHANGED <<regVars, coreVars, workerVars, logVars, call, tickets>>
  PROVE  Api!Next
<1> USE DEF regVars, coreVars, workerVars, logVars
<1>1. UNCHANGED <<coreSeen, fd, changed, protecting, packetSeen, logs, call>>
  BY Zenon DEF Queued, PacketReady, coreSeen, packetSeen
<1>2. /\ sender \in [Handle -> SenderState] /\ sender[h] \in {"queued", "callback"} /\ WorkerOK(h)
  BY ZenonT(60) DEF Queued, PacketReady, CInv, IInv, HandleInv, BridgeInv, BridgeTypeOK
<1>3. worker[h] \notin Exited \union {"none"}
  BY <1>2, Zenon DEF WorkerOK
<1>4. /\ \A g \in Handle \ {h} : sender'[g] = sender[g]
      /\ \/ sender[h] = "queued" /\ sender'[h] \in {"callback", "idle"}
         \/ sender[h] = "callback" /\ sender'[h] = "idle"
  BY <1>2, ZenonT(60) DEF Queued, PacketReady
<1>5. \A g \in Handle \ {h} : Running(g)' = Running(g)
  BY <1>1, <1>4, Zenon DEF Running
<1>6. \/ Running(h)' = Running(h)
      \/ "packet_ready" \notin Running(h) /\ Running(h)' = Running(h) \union {"packet_ready"}
      \/ "packet_ready" \in Running(h) /\ Running(h)' = Running(h) \ {"packet_ready"}
  BY <1>1, <1>4, Zenon DEF Running
<1> QED BY <1>1, <1>3, <1>5, <1>6, CallbackKeeps, ZenonT(60)

LEMMA PacketsInKeep ==
  ASSUME CInv, NEW h \in Handle, RecvPacket(h) \/ WriterTimeout(h)
  PROVE  Api!Next
<1> USE DEF regVars, coreVars, workerVars, logVars, bridgeVars
<1>1. UNCHANGED <<registry, next, worker, running, restSeen, packetSeen, logs, call>>
  BY ZenonT(60) DEF RecvPacket, WriterTimeout, restSeen, packetSeen
<1>2. CASE RecvPacket(h)
  <2>1. UNCHANGED stop
    BY <1>2, ZenonT(60) DEF RecvPacket
  <2> QED BY <1>1, <2>1, QuietKeeps, Zenon DEF restSeen
<1>3. CASE WriterTimeout(h)
  <2>1. stop' = [stop EXCEPT ![h] = TRUE]
    BY <1>3, Zenon DEF WriterTimeout
  <2> QED BY <1>1, <2>1, CancelKeeps, ZenonT(60)
<1> QED BY <1>2, <1>3, Zenon

-----------------------------------------------------------------------------
(* Packets *)

\* The packet out of the channel comes before the ones in it.
LEMMA FirstPacket ==
  ASSUME NEW p \in Seq(Nat), NEW o \in Seq(Nat), Len(p) <= 1, p \o o # <<>>
  PROVE  /\ <<>> \o (IF p = <<>> THEN Tail(o) ELSE o) = Tail(p \o o)
         /\ <<Head(p \o o)>> \o (IF p = <<>> THEN Tail(o) ELSE o) = p \o o
         /\ p # <<>> => Head(p \o o) = Head(p)
<1>1. CASE p = <<>>
  <2>1. p \o o = o /\ o # <<>>
    BY <1>1, JoinedEmpty, ZenonT(60)
  <2>2. <<>> \o Tail(o) = Tail(o) /\ <<Head(o)>> \o Tail(o) = o
    <3>1. Tail(o) \in Seq(Nat)
      BY <2>1, HeadAndTail, ZenonT(60)
    <3> QED BY <2>1, <3>1, JoinedEmpty, HeadJoined, ZenonT(60)
  <2> QED BY <1>1, <2>1, <2>2, ZenonT(60)
<1>2. CASE p # <<>>
  <2>1. PICK e \in Nat : p = <<e>> /\ Head(p) = e
    BY <1>2, OnlyHead
  <2>2. Head(p \o o) = e /\ Tail(p \o o) = o /\ <<>> \o o = o
    BY <2>1, JoinedHead, JoinedEmpty, Zenon
  <2> QED BY <1>2, <2>1, <2>2, ZenonT(60)
<1> QED BY <1>1, <1>2, Zenon

\* A packet that joins the channel is the last one to come out.
LEMMA LastPacket ==
  ASSUME NEW p \in Seq(Nat), NEW o \in Seq(Nat), NEW x \in Nat
  PROVE  /\ p \o Append(o, x) = Append(p \o o, x)
         /\ Len(p \o Append(o, x)) = Len(p \o o) + 1
         /\ (p \o Append(o, x))[Len(p \o o) + 1] = x
<1>1. p \o o \in Seq(Nat)
  BY Joined, Zenon
<1>2. p \o Append(o, x) = Append(p \o o, x)
  BY JoinedAppend
<1>3. Len(Append(p \o o, x)) = Len(p \o o) + 1 /\ Append(p \o o, x)[Len(p \o o) + 1] = x
  BY <1>1, Appended, ZenonT(60)
<1> QED BY <1>2, <1>3, Zenon

LEMMA SendKeeps ==
  ASSUME CInv, NEW h \in Handle, Send(h), UNCHANGED <<regVars, coreVars, workerVars, logVars, call, tickets>>
  PROVE  Api!Next
<1> USE DEF regVars, coreVars, workerVars, logVars
<1>1. UNCHANGED <<coreSeen, fd, changed, protecting, pending, reader, lastRead, logs, call>>
  BY Zenon DEF Send, coreSeen
<1>2. /\ sender \in [Handle -> SenderState] /\ sent \in [Handle -> Nat] /\ WorkerOK(h)
      /\ output \in [Handle -> Seq(Nat)] /\ pending \in [Handle -> Seq(Nat)]
  BY ZenonT(60) DEF CInv, IInv, HandleInv, BridgeInv, BridgeTypeOK
<1>3. PICK x \in Nat : x = sent'[h]
  <2>1. sent' = [sent EXCEPT ![h] = @ + 1] /\ sent[h] \in Nat
    BY <1>2, Zenon DEF Send
  <2>2. sent'[h] = sent[h] + 1
    BY <1>2, <2>1, Zenon
  <2> QED BY <2>1, <2>2
<1>4. /\ output'[h] = Append(output[h], x) /\ \A g \in Handle \ {h} : output'[g] = output[g]
      /\ sender[h] = "idle" /\ sender'[h] = "queued" /\ \A g \in Handle \ {h} : sender'[g] = sender[g]
  BY <1>2, <1>3, ZenonT(60) DEF Send
<1>5. \A g \in Handle : Life(g)' = Life(g) /\ Running(g)' = Running(g)
  BY <1>1, <1>4, Zenon DEF Life, Running, coreSeen
<1>6. UNCHANGED Api!handleVars
  BY <1>1, <1>5, HandlesSame, Zenon DEF coreSeen
<1>7. worker[h] \notin Exited \union {"none"}
  BY <1>2, <1>4, Zenon DEF WorkerOK
<1>8. Api!Alive(h) \/ [g \in Handle |-> Life(g)][h] = "stopped"
  BY <1>7, WorkerRuns, Zenon
<1>9. /\ Readable(h)' = Append(Readable(h), x) /\ Len(Readable(h)') = Len(Readable(h)) + 1
      /\ (Readable(h)')[Len(Readable(h)) + 1] = x
  <2>1. pending[h] \in Seq(Nat) /\ output[h] \in Seq(Nat)
    BY <1>2, Zenon
  <2>2. /\ pending[h] \o Append(output[h], x) = Append(pending[h] \o output[h], x)
        /\ Len(pending[h] \o Append(output[h], x)) = Len(pending[h] \o output[h]) + 1
        /\ (pending[h] \o Append(output[h], x))[Len(pending[h] \o output[h]) + 1] = x
    BY <2>1, LastPacket, ZenonT(60)
  <2>3. Readable(h)' = pending[h] \o Append(output[h], x)
    BY <1>1, <1>4, Zenon DEF Readable
  <2> QED BY <2>2, <2>3, ZenonT(60) DEF Readable
<1>10. \A g \in Handle \ {h} : Readable(g)' = Readable(g)
  BY <1>1, <1>4, Zenon DEF Readable
<1>11. /\ Len(([g \in Handle |-> Readable(g)]')[h]) = Len([g \in Handle |-> Readable(g)][h]) + 1
       /\ ([g \in Handle |-> Readable(g)]')[h][Len([g \in Handle |-> Readable(g)][h]) + 1] = x
       /\ [g \in Handle |-> Readable(g)]' = [[g \in Handle |-> Readable(g)] EXCEPT ![h] = Append(@, x)]
  BY <1>9, <1>10, Zenon
<1>12. Api!Arrives(h)
  BY <1>1, <1>6, <1>8, <1>11, ZenonT(60) DEF Api!Arrives
<1> QED BY <1>12, ZenonT(60) DEF Api!Next

\* What a read leaves alone.
LEMMA ReadHandles ==
  ASSUME CInv, UNCHANGED <<regVars, coreVars, workerVars, sender>>
  PROVE  UNCHANGED Api!handleVars
<1>1. \A g \in Handle : Life(g)' = Life(g) /\ Running(g)' = Running(g)
  BY Zenon DEF Life, Running, regVars, coreVars, workerVars
<1> QED BY <1>1, HandlesSame, Zenon DEF regVars, coreVars, workerVars

\* A read hands out the first packet, or its length.
LEMMA CopyKeeps ==
  ASSUME CInv, NEW h \in Handle, NEW fits \in BOOLEAN, Readable(h) # <<>>,
         CopyOut(h, Head(Readable(h)), fits),
         output' = [output EXCEPT ![h] = IF pending[h] = <<>> THEN Tail(@) ELSE @],
         reader' = [reader EXCEPT ![h] = "none"], h \in registry \/ reader[h] # "none",
         UNCHANGED <<regVars, coreVars, workerVars, sender, logs, call>>
  PROVE  Api!Next
<1>1. UNCHANGED Api!handleVars
  BY ReadHandles, Zenon
<1>2. /\ output \in [Handle -> Seq(Nat)] /\ pending \in [Handle -> Seq(Nat)] /\ Len(pending[h]) <= 1
      /\ reader \in [Handle -> ReaderState]
  BY Zenon DEF CInv, IInv, BridgeInv, BridgeTypeOK, ContractInv, LifeOK
<1>3. {g \in Handle : reader'[g] # "none"} = {g \in Handle : reader[g] # "none"} \ {h}
  BY <1>2, Zenon
<1>4. Api!Known(h) \/ h \in {g \in Handle : reader[g] # "none"}
  BY LifeIs, Zenon
<1>5. /\ output'[h] = IF pending[h] = <<>> THEN Tail(output[h]) ELSE output[h]
      /\ \A g \in Handle \ {h} : output'[g] = output[g] /\ pending'[g] = pending[g]
      /\ pending'[h] = IF fits THEN <<>> ELSE <<Head(Readable(h))>>
  BY <1>2, ZenonT(60) DEF CopyOut
<1>6. Readable(h)' = IF fits THEN Tail(Readable(h)) ELSE Readable(h)
  <2>1. pending[h] \in Seq(Nat) /\ output[h] \in Seq(Nat) /\ pending[h] \o output[h] # <<>>
    BY <1>2, ZenonT(60) DEF Readable
  <2>2. /\ <<>> \o (IF pending[h] = <<>> THEN Tail(output[h]) ELSE output[h]) = Tail(pending[h] \o output[h])
        /\ <<Head(pending[h] \o output[h])>> \o (IF pending[h] = <<>> THEN Tail(output[h]) ELSE output[h])
             = pending[h] \o output[h]
    BY <1>2, <2>1, FirstPacket, Zenon
  <2>3. CASE fits
    BY <1>5, <2>2, <2>3, Zenon DEF Readable
  <2>4. CASE ~fits
    BY <1>5, <2>2, <2>4, Zenon DEF Readable
  <2> QED BY <2>3, <2>4, Zenon
<1>7. \A g \in Handle \ {h} : Readable(g)' = Readable(g)
  BY <1>5, Zenon DEF Readable
<1>8. [u \in Thread |-> Seen(call[u])]' = [u \in Thread |-> Seen(call[u])]
  BY Zenon
<1>9. [g \in Handle |-> Readable(g)][h] # <<>>
  BY Zenon
<1>10. CASE fits
  <2>1. [g \in Handle |-> Readable(g)]' = [[g \in Handle |-> Readable(g)] EXCEPT ![h] = Tail(@)]
    BY <1>6, <1>7, <1>10, ZenonT(60)
  <2>2. lastRead' = [lastRead EXCEPT ![h] = [status |-> "OK", packet |-> Head([g \in Handle |-> Readable(g)][h])]]
    BY <1>10, Zenon DEF CopyOut
  <2>3. Api!meta_read_packet_v1(h)
    BY <1>1, <1>3, <1>4, <1>8, <1>9, <2>1, <2>2, Zenon DEF Api!meta_read_packet_v1
  <2> QED BY <2>3, ZenonT(60) DEF Api!Next
<1>11. CASE ~fits
  <2>1. [g \in Handle |-> Readable(g)]' = [g \in Handle |-> Readable(g)]
    BY <1>6, <1>7, <1>11, Zenon
  <2>2. lastRead' = [lastRead EXCEPT ![h] = [status |-> "TOO_SMALL", packet |-> 0]]
    BY <1>11, Zenon DEF CopyOut
  <2>3. "TOO_SMALL" \in Api!Status \ {"OK"} /\ "TOO_SMALL" # "WOULD_BLOCK" /\ "TOO_SMALL" # "ERROR"
    BY Zenon DEF Api!Status
  <2>4. Api!meta_read_packet_v1(h)
    BY <1>1, <1>3, <1>4, <1>8, <1>9, <2>1, <2>2, <2>3, ZenonT(60) DEF Api!meta_read_packet_v1
  <2> QED BY <2>4, Zenon DEF Api!Next
<1> QED BY <1>10, <1>11, Zenon

LEMMA HandOutKeeps ==
  ASSUME CInv, NEW h \in Handle, NEW fits \in BOOLEAN,
         \/ h \in registry /\ ReadReady(h, fits)
         \/ Draining(h, fits),
         UNCHANGED <<regVars, coreVars, workerVars, logVars, call, tickets>>
  PROVE  Api!Next
<1>1. /\ output \in [Handle -> Seq(Nat)] /\ pending \in [Handle -> Seq(Nat)] /\ Len(pending[h]) <= 1
      /\ reader \in [Handle -> ReaderState] /\ BridgeOK(h)
  BY Zenon DEF CInv, IInv, BridgeInv, BridgeTypeOK, ContractInv, LifeOK
<1>2. UNCHANGED <<sender, logs>>
  BY ZenonT(60) DEF ReadReady, Draining, logVars
<1>3. CASE h \in registry /\ ReadReady(h, fits)
  <2>1. reader' = [reader EXCEPT ![h] = "none"]
    BY <1>1, <1>3, Zenon DEF ReadReady
  <2>2. /\ Readable(h) # <<>> /\ CopyOut(h, Head(Readable(h)), fits)
        /\ output' = [output EXCEPT ![h] = IF pending[h] = <<>> THEN Tail(@) ELSE @]
    BY <1>3, ZenonT(60) DEF ReadReady
  <2> QED BY <1>2, <1>3, <2>1, <2>2, CopyKeeps, Zenon
<1>4. CASE Draining(h, fits)
  <2>1. reader[h] = "found" /\ reader' = [reader EXCEPT ![h] = "none"] /\ UNCHANGED output /\ pending[h] # <<>>
    BY <1>1, <1>4, Zenon DEF Draining, BridgeOK
  <2>2. pending[h] \in Seq(Nat) /\ output[h] \in Seq(Nat)
    BY <1>1, ZenonT(60)
  <2>3. pending[h] \o output[h] # <<>>
    BY <2>1, <2>2, JoinedNothing, Zenon
  <2>4. Head(pending[h] \o output[h]) = Head(pending[h])
    BY <1>1, <2>1, <2>2, <2>3, FirstPacket, ZenonT(60)
  <2>5. Readable(h) # <<>> /\ CopyOut(h, Head(Readable(h)), fits)
    BY <1>4, <2>3, <2>4, ZenonT(60) DEF Draining, Readable
  <2>6. output' = [output EXCEPT ![h] = IF pending[h] = <<>> THEN Tail(@) ELSE @]
    BY <1>1, <2>1, Zenon
  <2> QED BY <1>2, <2>1, <2>5, <2>6, CopyKeeps, ZenonT(60)
<1> QED BY <1>3, <1>4, Zenon

\* A read ends without a packet.
LEMMA EndTurnKeeps ==
  ASSUME CInv, NEW h \in Handle, NEW s \in {"ERROR", "WOULD_BLOCK"}, EndTurn(h, s),
         \/ s = "WOULD_BLOCK" /\ Readable(h) = <<>> /\ reader[h] # "none"
         \/ s = "ERROR" /\ (h \notin registry \/ fd[h] \/ worker[h] \in Exited),
         UNCHANGED <<regVars, coreVars, workerVars, logVars, call, tickets>>
  PROVE  Api!Next
<1>1. UNCHANGED Api!handleVars
  BY ReadHandles, ZenonT(60) DEF EndTurn
<1>2. /\ reader \in [Handle -> ReaderState] /\ UNCHANGED <<pending, output, logs>>
      /\ lastRead' = [lastRead EXCEPT ![h] = [status |-> s, packet |-> 0]]
      /\ reader' = [reader EXCEPT ![h] = "none"]
  BY Zenon DEF CInv, IInv, BridgeInv, BridgeTypeOK, EndTurn, logVars
<1>3. {g \in Handle : reader'[g] # "none"} = {g \in Handle : reader[g] # "none"} \ {h}
  BY <1>2, ZenonT(60)
<1>4. /\ [g \in Handle |-> Readable(g)]' = [g \in Handle |-> Readable(g)]
      /\ [u \in Thread |-> Seen(call[u])]' = [u \in Thread |-> Seen(call[u])]
  BY <1>2, Zenon DEF Readable
<1>5. CASE s = "WOULD_BLOCK" /\ Readable(h) = <<>> /\ reader[h] # "none"
  <2>1. /\ h \in {g \in Handle : reader[g] # "none"} /\ [g \in Handle |-> Readable(g)][h] = <<>>
        /\ s \in Api!Status \ {"OK"} /\ s # "TOO_SMALL" /\ s # "ERROR"
    BY <1>5, Zenon DEF Api!Status
  <2>2. Api!meta_read_packet_v1(h)
    BY <1>1, <1>2, <1>3, <1>4, <2>1, ZenonT(60) DEF Api!meta_read_packet_v1
  <2> QED BY <2>2, ZenonT(60) DEF Api!Next
<1>6. CASE s = "ERROR" /\ (h \notin registry \/ fd[h])
  <2>1. ~Api!Known(h) \/ h \in {g \in Handle : fd[g]}
    BY <1>6, LifeIs, Zenon
  <2>2. Api!ReadFails(h)
    BY <1>1, <1>2, <1>3, <1>4, <1>6, <2>1, ZenonT(60) DEF Api!ReadFails
  <2> QED BY <2>2, ZenonT(60) DEF Api!Next
<1>7. CASE s = "ERROR" /\ h \in registry /\ worker[h] \in Exited
  <2>1. Api!Known(h) /\ Life(h) = "joined"
    <3>1. Api!Known(h) /\ Life(h) \in {"joined", "destroyed"}
      BY <1>7, LifeIs, Zenon
    <3> QED BY <3>1, ZenonT(60) DEF Api!Known
  <2>2. /\ [g \in Handle |-> Life(g)][h] = "joined"
        /\ s \in Api!Status \ {"OK"} /\ s # "TOO_SMALL" /\ s # "WOULD_BLOCK"
    BY <1>7, <2>1, Zenon DEF Api!Status
  <2>3. Api!meta_read_packet_v1(h)
    BY <1>1, <1>2, <1>3, <1>4, <2>1, <2>2, ZenonT(60) DEF Api!meta_read_packet_v1
  <2> QED BY <2>3, Zenon DEF Api!Next
<1> QED BY <1>5, <1>6, <1>7, Zenon

LEMMA DrainKeeps ==
  ASSUME CInv, NEW h \in Handle, DrainStep(h)
  PROVE  Api!Next
<1>1. UNCHANGED <<regVars, coreVars, workerVars, logVars, call, tickets>>
  BY Zenon DEF DrainStep
<1>2. /\ output \in [Handle -> Seq(Nat)] /\ pending \in [Handle -> Seq(Nat)]
      /\ reader \in [Handle -> ReaderState] /\ BridgeOK(h) /\ LifeOK(h) /\ BridgeTypeOK
  BY Zenon DEF CInv, IInv, BridgeInv, BridgeTypeOK, ContractInv
<1>3. ASSUME UNCHANGED <<pending, output, lastRead, sender>>,
             \A g \in Handle : reader'[g] = "none" <=> reader[g] = "none"
      PROVE  Api!Next
  <2>1. UNCHANGED Api!handleVars
    BY <1>1, <1>3, ReadHandles, Zenon
  <2>2. UNCHANGED Api!packetVars
    BY <1>3, PacketsSame, Zenon
  <2> QED BY <1>1, <2>1, <2>2, Stutters, ZenonT(60) DEF logVars
<1>4. CASE StartTurn(h)
  BY <1>3, <1>4, Zenon DEF StartTurn
<1>5. CASE ReadRefused(h)
  BY <1>1, <1>5, EndTurnKeeps, Zenon DEF ReadRefused
<1>6. CASE h \in registry /\ ~fd[h] /\ ReadEmpty(h)
  <2>1. CASE sender[h] = "gone"
    <3>1. EndTurn(h, "ERROR") /\ worker[h] \in Exited
      BY <1>2, <1>6, <2>1, Zenon DEF ReadEmpty, LifeOK
    <3> QED BY <1>1, <3>1, EndTurnKeeps, Zenon
  <2>2. CASE sender[h] # "gone"
    <3>1. reader' = [reader EXCEPT ![h] = "empty"] /\ UNCHANGED <<pending, output, lastRead, sender>>
      BY <1>6, <2>2, Zenon DEF ReadEmpty
    <3>2. {g \in Handle : reader'[g] # "none"} = {g \in Handle : reader[g] # "none"} \union {h}
      BY <1>2, <3>1, Zenon
    <3>3. UNCHANGED Api!handleVars /\ Api!Known(h) /\ UNCHANGED logs
      BY <1>1, <1>6, <3>1, ReadHandles, LifeIs, ZenonT(60) DEF logVars
    <3>4. /\ [g \in Handle |-> Readable(g)]' = [g \in Handle |-> Readable(g)]
          /\ [u \in Thread |-> Seen(call[u])]' = [u \in Thread |-> Seen(call[u])]
      BY <1>1, <3>1, Zenon DEF Readable
    <3>5. Api!meta_read_packet_v1(h)
      BY <3>1, <3>2, <3>3, <3>4, ZenonT(60) DEF Api!meta_read_packet_v1
    <3> QED BY <3>5, ZenonT(60) DEF Api!Next
  <2> QED BY <2>1, <2>2, Zenon
<1>7. ASSUME NEW fits \in BOOLEAN, (h \in registry /\ ReadReady(h, fits)) \/ Draining(h, fits)
      PROVE  Api!Next
  BY <1>1, <1>7, HandOutKeeps, Zenon
<1>8. CASE Rearm(h)
  BY <1>2, <1>3, <1>8, Zenon DEF Rearm
<1>9. CASE Recheck(h)
  <2>0. reader[h] = "rearmed" /\ pending[h] = <<>>
    BY <1>2, <1>9, ZenonT(60) DEF Recheck, BridgeOK
  <2>1. CASE StillEmpty(h)
    <3>1. EndTurn(h, IF sender[h] = "gone" THEN "ERROR" ELSE "WOULD_BLOCK")
      BY <1>9, <2>1, Zenon DEF Recheck
    <3>2. Readable(h) = <<>>
      BY <1>2, <2>0, <2>1, ReadableWaiting, ZenonT(60) DEF StillEmpty, Waiting
    <3>3. CASE sender[h] = "gone"
      BY <1>1, <1>2, <3>1, <3>3, EndTurnKeeps, ZenonT(60) DEF LifeOK
    <3>4. CASE sender[h] # "gone"
      BY <1>1, <2>0, <3>1, <3>2, <3>4, EndTurnKeeps, ZenonT(60)
    <3> QED BY <3>3, <3>4, ZenonT(60)
  <2>2. CASE ~StillEmpty(h)
    <3>1. /\ pending' = [pending EXCEPT ![h] = <<Head(output[h])>>] /\ output' = [output EXCEPT ![h] = Tail(@)]
          /\ reader' = [reader EXCEPT ![h] = "found"] /\ UNCHANGED <<sender, lastRead>> /\ output[h] # <<>>
      BY <1>9, <2>2, Zenon DEF Recheck, StillEmpty
    <3>2. output[h] \in Seq(Nat) /\ <<>> \in Seq(Nat) /\ Len(<<>>) <= 1
      BY <1>2
    <3>3. <<>> \o output[h] = output[h]
      BY <3>2, JoinedEmpty, ZenonT(60)
    <3>4. <<Head(output[h])>> \o Tail(output[h]) = output[h]
      <4>1. <<Head(<<>> \o output[h])>> \o (IF <<>> = <<>> THEN Tail(output[h]) ELSE output[h]) = <<>> \o output[h]
        BY <3>1, <3>2, <3>3, FirstPacket, Zenon
      <4> QED BY <3>3, <4>1, Zenon
    <3>5. /\ pending'[h] = <<Head(output[h])>> /\ output'[h] = Tail(output[h])
          /\ \A g \in Handle \ {h} : pending'[g] = pending[g] /\ output'[g] = output[g]
      BY <1>2, <3>1, Zenon
    <3>6. Readable(h)' = Readable(h)
      BY <2>0, <3>3, <3>4, <3>5, Zenon DEF Readable
    <3>7. \A g \in Handle \ {h} : Readable(g)' = Readable(g)
      BY <3>5, ZenonT(60) DEF Readable
    <3>8. {g \in Handle : reader'[g] # "none"} = {g \in Handle : reader[g] # "none"}
      BY <1>2, <2>0, <3>1, Zenon
    <3>9. [g \in Handle |-> Readable(g)]' = [g \in Handle |-> Readable(g)]
      BY <3>6, <3>7, Zenon
    <3>10. UNCHANGED Api!packetVars
      BY <3>1, <3>8, <3>9, Zenon DEF Api!packetVars
    <3>11. UNCHANGED Api!handleVars
      BY <1>1, <3>1, ReadHandles, Zenon
    <3> QED BY <1>1, <3>10, <3>11, Stutters, Zenon DEF logVars
  <2> QED BY <2>1, <2>2, Zenon
<1> QED BY <1>4, <1>5, <1>6, <1>7, <1>8, <1>9, ZenonT(60) DEF DrainStep

LEMMA LogKeeps ==
  ASSUME CInv, Log
  PROVE  Api!Next
<1> DEFINE kept == IF Len(logs) = LogCap THEN Tail(logs) ELSE logs
<1>1. logged' \in Nat /\ logs \in Seq(Nat)
  BY DEF Log, CInv, ContractInv, CoreTypeOK
<1>2. kept \in Seq(Nat)
  <2>1. CASE Len(logs) = LogCap
    <3>1. logs # <<>>
      BY <2>1, Zenon
    <3> QED BY <1>1, <2>1, <3>1, HeadAndTail, ZenonT(60)
  <2> QED BY <1>1, <2>1, ZenonT(60)
<1>3. logs' = Append(kept, logged')
  BY Zenon DEF Log
<1> HIDE DEF kept
<1>4. PICK x \in Nat : x = logged'
  BY <1>1, ZenonT(60)
<1>5. Len(Append(kept, x)) = Len(kept) + 1 /\ Append(kept, x)[Len(kept) + 1] = x /\ Append(kept, x) # <<>>
  BY <1>2, Appended
<1>6. logs' # <<>> /\ logs' = Append(kept, logs'[Len(logs')])
  BY <1>3, <1>4, <1>5, ZenonT(60)
<1>7. UNCHANGED Api!handleVars /\ UNCHANGED Api!packetVars
  BY OnlyCalls, Zenon DEF Log
<1>8. UNCHANGED call
  BY Zenon DEF Log
<1>9. Api!Logs
  BY <1>6, <1>7, <1>8, Zenon DEF Api!Logs, kept
<1> QED BY <1>9, ZenonT(60) DEF Api!Next

-----------------------------------------------------------------------------
(* Every step *)

LEMMA ContractNext ==
  ASSUME CInv, [HostNext]_hostVars
  PROVE  [Api!Next]_Api!apiVars
<1>1. ASSUME NEW t \in Thread, CallStep(t) PROVE Api!Next
  BY <1>1, AnsweredKeeps, UnansweredKeeps, StopsKeep, ZenonT(60) DEF CallStep
<1>2. ASSUME NEW h \in Handle, WorkerStep(h) \/ WorkerPanics(h) \/ QueryStep(h) PROVE Api!Next
  <2>1. ASSUME NEW c, TakeStart(h, c) \/ TakeFd(h, c) \/ TakeQuery(h, c) PROVE Api!Next
    BY <2>1, TakeStartKeeps, TakeFdKeeps, ZenonT(60)
  <2>2. ASSUME NEW q \in queries[h], Protected(h, q) \/ QueryDone(h, q) PROVE Api!Next
    BY <2>2, ProtectKeeps, QueryDoneKeeps, ZenonT(60)
  <2> QED BY <1>2, <2>1, <2>2, WorkerQuietKeeps, TakeChangeKeeps, StartOkKeeps, StartFailedKeeps,
             ExitKeeps,
             PanicKeeps, ZenonT(60) DEF WorkerStep, QueryStep
<1>3. ASSUME NEW h \in Handle, NEW q \in queries[h], Protect(h, q) PROVE Api!Next
  BY <1>3, ProtectKeeps, ZenonT(60)
<1>4. ASSUME NEW h \in Handle, RecvPacket(h) \/ WriterTimeout(h) \/ WriterStep(h) \/ DrainStep(h) PROVE Api!Next
  BY <1>4, PacketsInKeep, DrainKeeps, SendKeeps, ReadyKeeps, ZenonT(60) DEF WriterStep
<1>5. ASSUME NEW t \in Thread, NEW f \in Functions, Calls(t, f) PROVE Api!Next
  <2>1. ASSUME NEW h \in Handle, HandleCall(t, f, h) PROVE Api!Next
    BY <2>1, BehindKeeps, NetworkChangedKeeps, WritePacketKeeps, RequestKeeps, ShutdownKeeps,
       ZenonT(60) DEF HandleCall
  <2> QED BY <1>5, <2>1, CreateKeeps, DrainLogsKeeps, ConvertKeeps, ZenonT(60) DEF Calls
<1>6. CASE UNCHANGED hostVars
  <2>1. UNCHANGED Api!handleVars /\ UNCHANGED Api!packetVars
    BY <1>6, OnlyCalls, Zenon DEF hostVars
  <2>2. Api!Next
    BY <1>6, <2>1, Stutters, Zenon DEF hostVars, logVars
  <2> QED BY <2>2, ZenonT(60)
<1> QED BY <1>1, <1>2, <1>3, <1>4, <1>5, <1>6, LogKeeps, ZenonT(60) DEF HostNext, HostStep

LEMMA ContractInit == HostInit => Api!Init
<1> SUFFICES ASSUME HostInit PROVE Api!Init
  BY ZenonT(60)
<1>1. ASSUME NEW h \in Handle PROVE Life(h) = "unborn" /\ Running(h) = {} /\ Readable(h) = <<>>
  <2>1. /\ h >= next /\ sender[h] = "off" /\ protecting[h] = {}
        /\ pending[h] = <<>> /\ output[h] = <<>>
    BY DEF HostInit, BridgeInit
  <2>2. <<>> \o <<>> = <<>>
    BY JoinedEmpty, EmptyQueue, Zenon
  <2> QED BY <2>1, <2>2, Zenon DEF Life, Running, Readable
<1>2. ASSUME NEW t \in Thread PROVE Seen(call[t]) = [fn |-> "none", h |-> 0, at |-> "idle", status |-> "none"]
  BY Zenon DEF HostInit, NoCall, Seen
<1>3. /\ {h \in Handle : running[h]} = {} /\ {h \in Handle : fd[h]} = {} /\ {h \in Handle : changed[h]} = {}
      /\ {h \in Handle : reader[h] # "none"} = {}
      /\ lastRead = [h \in Handle |-> [status |-> "none", packet |-> 0]] /\ logs = <<>>
  BY Zenon DEF HostInit, BridgeInit
<1> QED BY <1>1, <1>2, <1>3, Zenon DEF Api!Init

\* The handles of host.rs keep the contract of clyntis.h: every step of a call,
\* of the worker, of its callbacks and of the packet bridge is a step a host may
\* see by that contract, or one it does not see.
THEOREM HostKeepsContract == HostSpec => Contract
<1>1. HostInit => Api!Init
  BY ContractInit, Zenon
<1>2. CInv /\ [HostNext]_hostVars => [Api!Next]_Api!apiVars
  BY ContractNext, Zenon
<1> QED BY <1>1, <1>2, ContractInvariant, PTL DEF HostSpec, Contract, Api!Spec
=============================================================================
