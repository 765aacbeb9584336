-------------------------------- MODULE CApi --------------------------------
(***************************************************************************)
(* What crates/ffi/include/clyntis.h promises to a host: one action per    *)
(* declared function, over the state a host can tell apart.  How the calls *)
(* are served (queues, the worker thread, replies) is not visible here;    *)
(* HostHandle is shown to implement this contract.                         *)
(***************************************************************************)
EXTENDS Naturals, Sequences, FiniteSets

CONSTANTS
    Handle,     \* identifiers handed out, in order
    Thread,     \* calling threads
    Callback,   \* the thread of a host callback, a member of Thread
    Capacity,   \* handles that can exist at a time
    LogCap      \* lines kept between drains

VARIABLES
    life,       \* handle -> unborn, created, started, stopped, joined or destroyed
    granted,    \* handles whose start succeeded
    callbacks,  \* handle -> the host callbacks running on its behalf
    calls,      \* thread -> the call under way, or the result of the last one
    descriptor, \* handles whose packets go through an Android TUN descriptor
    told,       \* handles with a network change reported and not taken up
    reading,    \* handles whose packets are being read
    readable,   \* handle -> packets the host can still read, in order
    lastRead,   \* handle -> result of the last read and the packet it returned
    logs        \* log lines the host can still drain

handleVars == <<life, granted, callbacks, descriptor, told>>
packetVars == <<reading, readable, lastRead>>
apiVars == <<handleVars, packetVars, calls, logs>>

\* META_OK, META_ERROR, META_WOULD_BLOCK, META_BUFFER_TOO_SMALL
Status == {"OK", "ERROR", "WOULD_BLOCK", "TOO_SMALL"}
\* protect_socket and packet_ready of meta_hooks_v1
Hook == {"protect_socket", "packet_ready"}
\* The outcomes of a function that fills a caller's buffer.
CallerBuffer == Status \ {"WOULD_BLOCK"}

Init ==
    /\ life = [h \in Handle |-> "unborn"] /\ granted = {}
    /\ callbacks = [h \in Handle |-> {}]
    /\ calls = [t \in Thread |-> [fn |-> "none", h |-> 0, at |-> "idle", status |-> "none"]]
    /\ descriptor = {} /\ told = {}
    /\ reading = {} /\ readable = [h \in Handle |-> <<>>]
    /\ lastRead = [h \in Handle |-> [status |-> "none", packet |-> 0]]
    /\ logs = <<>>

\* A handle is a checked ID.
Known(h) == h \in Handle /\ life[h] \notin {"unborn", "destroyed"}
Alive(h) == h \in Handle /\ life[h] \in {"created", "started"}

Set(t, f, h, at, s) ==
    /\ calls'[t].fn = f
    /\ calls' = [calls EXCEPT ![t] = [fn |-> f, h |-> h, at |-> at, status |-> s]]
Idle(t) == calls[t].at = "idle"
Pending(t, f) == calls[t].fn = f /\ calls[t].at = "pending"

-----------------------------------------------------------------------------
(* Functions that need no handle, or only look behind one *)

Plain(t, f, statuses) ==
    /\ Idle(t)
    /\ \E s \in statuses : Set(t, f, 0, "idle", s)
    /\ UNCHANGED <<handleVars, packetVars, logs>>

meta_decrypt_config_v1(t) == Plain(t, "decrypt_config", CallerBuffer)
meta_encrypt_config_v1(t) == Plain(t, "encrypt_config", CallerBuffer)
meta_custom_rule_validate_v1(t) == Plain(t, "custom_rule_validate", {"OK", "ERROR"})
meta_custom_rule_targets_v1(t) == Plain(t, "custom_rule_targets", CallerBuffer)
meta_custom_rules_apply_v1(t) == Plain(t, "custom_rules_apply", CallerBuffer)
meta_overrides_apply_v1(t) == Plain(t, "overrides_apply", CallerBuffer)
meta_yaml_check_v1(t) == Plain(t, "yaml_check", CallerBuffer)
meta_cos_target_v1(t) == Plain(t, "cos_target", CallerBuffer)
meta_cos_put_v1(t) == Plain(t, "cos_put", {"OK", "ERROR"})
meta_prefetch_resources_v1(t) == Plain(t, "prefetch_resources", {"OK", "ERROR"})
meta_resources_state_v1(t) == Plain(t, "resources_state", {"OK", "ERROR"})
meta_error_v1(t) == Plain(t, "error", CallerBuffer)

\* Lines are removed only when they fit.
meta_drain_logs_v1(t) ==
    /\ Idle(t)
    /\ \E s \in CallerBuffer :
          /\ Set(t, "drain_logs", 0, "idle", s)
          /\ logs' = IF s = "OK" THEN <<>> ELSE logs
    /\ UNCHANGED <<handleVars, packetVars>>

Behind(t, f, h, statuses) ==
    /\ Idle(t)
    /\ \E s \in IF Known(h) THEN statuses ELSE {"ERROR"} : Set(t, f, h, "idle", s)
    /\ UNCHANGED <<handleVars, packetVars, logs>>

meta_close_connections_v1(t, h) == Behind(t, "close_connections", h, {"OK"})
meta_set_network_v1(t, h) == Behind(t, "set_network", h, {"OK", "ERROR"})
meta_snapshot_v1(t, h) == Behind(t, "snapshot", h, CallerBuffer)
meta_status_v1(t, h) == Behind(t, "status", h, CallerBuffer)
meta_update_v1(t, h) == Behind(t, "update", h, {"OK", "ERROR"})
meta_select_v1(t, h) == Behind(t, "select", h, {"OK", "ERROR"})
meta_close_connection_v1(t, h) == Behind(t, "close_connection", h, {"OK", "ERROR"})

\* The device network changed: fails only for an unknown or stopped core, and
\* inside a callback.  A core whose worker died has nothing to take it up.
meta_network_changed_v1(t, h) ==
    /\ Idle(t)
    /\ \/ /\ Known(h) /\ life[h] # "stopped" /\ t # Callback
          /\ told' = told \union {h}
          /\ Set(t, "network_changed", h, "idle", "OK")
       \/ /\ Alive(h) => t = Callback
          /\ Set(t, "network_changed", h, "idle", "ERROR")
          /\ UNCHANGED told
    /\ UNCHANGED <<life, granted, callbacks, descriptor, packetVars, logs>>

-----------------------------------------------------------------------------
(* Lifecycle *)

\* A new identifier, or none; the ones of failed calls are not used again.
Create(t, f) ==
    /\ Idle(t)
    /\ \/ Set(t, f, 0, "idle", "ERROR") /\ UNCHANGED life
       \/ /\ t # Callback
          /\ Cardinality({h \in Handle : Known(h)}) < Capacity
          /\ \E h \in Handle :
                /\ \A k \in Handle : life[k] = "unborn" <=> k >= h
                /\ \/ Set(t, f, h, "idle", "OK") /\ life' = [life EXCEPT ![h] = "created"]
                   \/ Set(t, f, 0, "idle", "ERROR") /\ life' = [life EXCEPT ![h] = "destroyed"]
    /\ UNCHANGED <<granted, callbacks, descriptor, told, packetVars, logs>>

meta_create_v1(t) == Create(t, "create")
meta_create_packet_tunnel_v1(t) == Create(t, "create_packet_tunnel")

\* A call that waits: refused at once, or under way.
Enter(t, f, h, allowed) ==
    /\ Idle(t)
    /\ \/ Set(t, f, h, "idle", "ERROR")
       \/ allowed /\ Set(t, f, h, "pending", "none")
    /\ UNCHANGED <<handleVars, packetVars, logs>>

\* The core stops by itself when the call that waited for it fails.
MayStop(h) ==
    \/ UNCHANGED life
    \/ Alive(h) /\ life' = [life EXCEPT ![h] = "stopped"]

\* start is allowed once: it succeeds for one call, and a call that was accepted
\* and failed leaves no core that is still to start.
meta_start_v1(t) ==
    \/ \E h \in Handle : Enter(t, "start", h, Alive(h) /\ t # Callback)
    \/ /\ Pending(t, "start")
       /\ MayStop(calls[t].h)
       /\ life'[calls[t].h] # "created"
       /\ Set(t, "start", calls[t].h, "idle", "ERROR")
       /\ UNCHANGED <<granted, callbacks, descriptor, told, packetVars, logs>>
    \/ /\ calls[t].fn = "start" /\ calls[t].at = "granted"
       /\ calls[t].h \in granted
       /\ Set(t, "start", calls[t].h, "idle", "OK")
       /\ UNCHANGED <<handleVars, packetVars, logs>>

\* The core of h starts: the call that asked for it will return META_OK, unless
\* it has given up, which stopped the core.
Started(h) ==
    /\ life[h] \in {"created", "stopped"} /\ h \notin granted
    /\ life' = [life EXCEPT ![h] = IF @ = "created" THEN "started" ELSE @]
    /\ granted' = granted \union {h}
    /\ \/ \E t \in Thread : Pending(t, "start") /\ calls[t].h = h /\ Set(t, "start", h, "granted", "none")
       \/ life[h] = "stopped" /\ UNCHANGED calls
    /\ UNCHANGED <<callbacks, descriptor, told, packetVars, logs>>

\* Before start, packets are moved to a descriptor.
meta_set_tun_fd_v1(t) ==
    \/ \E h \in Handle : Enter(t, "set_fd", h, Alive(h) /\ t # Callback)
    \/ /\ Pending(t, "set_fd")
       /\ \/ MayStop(calls[t].h) /\ Set(t, "set_fd", calls[t].h, "idle", "ERROR")
          \/ calls[t].h \in descriptor /\ UNCHANGED life /\ Set(t, "set_fd", calls[t].h, "idle", "OK")
       /\ UNCHANGED <<granted, callbacks, descriptor, told, packetVars, logs>>
Moved(h) ==
    /\ life[h] \in {"created", "stopped"} /\ h \notin granted
    /\ descriptor' = descriptor \union {h}
    /\ UNCHANGED <<life, granted, callbacks, told, packetVars, calls, logs>>

\* stop and destroy join the worker and all callbacks, and cannot run inside one.
Stop(t, f) ==
    \/ \E h \in Handle :
          /\ Idle(t)
          /\ \/ (Known(h) => t = Callback) /\ Set(t, f, h, "idle", "ERROR") /\ UNCHANGED life
             \/ /\ Known(h) /\ t # Callback
                /\ Set(t, f, h, "pending", "none")
                /\ life' = [life EXCEPT ![h] = IF Alive(h) THEN "stopped" ELSE @]
          /\ UNCHANGED <<granted, callbacks, descriptor, told, packetVars, logs>>
    \/ /\ Pending(t, f)
       /\ life[calls[t].h] \in {"joined", "destroyed"}
       /\ callbacks[calls[t].h] = {}
       /\ \E s \in {"OK", "ERROR"} :
             /\ Set(t, f, calls[t].h, "idle", s)
             /\ life' = IF f = "destroy" /\ s = "OK" THEN [life EXCEPT ![calls[t].h] = "destroyed"] ELSE life
       /\ UNCHANGED <<granted, callbacks, descriptor, told, packetVars, logs>>
meta_stop_v1(t) == Stop(t, "stop")
meta_destroy_v1(t) == Stop(t, "destroy")

\* The core stops by itself, or its worker and callbacks are done.
Stops(h) ==
    /\ \/ Alive(h) /\ life' = [life EXCEPT ![h] = "stopped"]
       \/ /\ Alive(h) \/ life[h] = "stopped"
          /\ callbacks[h] = {} /\ life' = [life EXCEPT ![h] = "joined"]
    /\ UNCHANGED <<granted, callbacks, descriptor, told, packetVars, calls, logs>>

TakesChange(h) ==
    /\ Alive(h) /\ told' = told \ {h}
    /\ UNCHANGED <<life, granted, callbacks, descriptor, packetVars, calls, logs>>

\* Callbacks run only for a core that was not joined.
CallbackRuns(h) ==
    /\ Alive(h) \/ life[h] = "stopped"
    /\ \E k \in Hook : callbacks' = [callbacks EXCEPT ![h] = (@ \union {k}) \ (@ \intersect {k})]
    /\ UNCHANGED <<life, granted, descriptor, told, packetVars, calls, logs>>

-----------------------------------------------------------------------------
(* Functions that block the caller until the core answers *)

Blocking(t, f, statuses) ==
    \/ \E h \in Handle : Enter(t, f, h, Known(h))
    \/ /\ Pending(t, f)
       /\ \E s \in statuses : Set(t, f, calls[t].h, "idle", s)
       /\ UNCHANGED <<handleVars, packetVars, logs>>

meta_probe_v1(t) == Blocking(t, "probe", {"OK", "ERROR"})
meta_test_route_v1(t) == Blocking(t, "test_route", CallerBuffer)
meta_dns_leak_v1(t) ==
    \/ Blocking(t, "dns_leak", CallerBuffer)
    \/ \E h \in Handle : Behind(t, "dns_audit", h, CallerBuffer)

-----------------------------------------------------------------------------
(* Packets and logs *)

\* A packet is accepted by a core that was not stopped, without its descriptor.
meta_write_packet_v1(t, h) ==
    /\ Idle(t)
    /\ \/ Set(t, "write_packet", h, "idle", "ERROR")
       \/ /\ Alive(h) /\ h \notin descriptor
          /\ \E s \in {"OK", "WOULD_BLOCK"} : Set(t, "write_packet", h, "idle", s)
    /\ UNCHANGED <<handleVars, packetVars, logs>>

\* The core queues a packet for the host.
Arrives(h) ==
    /\ Alive(h) \/ life[h] = "stopped"
    /\ Len(readable'[h]) = Len(readable[h]) + 1
    /\ readable' = [readable EXCEPT ![h] = Append(@, readable'[h][Len(@) + 1])]
    /\ UNCHANGED <<handleVars, reading, lastRead, calls, logs>>

\* The packets come out one by one and in order; one that does not fit stays;
\* a read blocks only when there is none, and fails only when there will be none.
\* A read that found the handle may outlast it.
meta_read_packet_v1(h) ==
    /\ Known(h) \/ h \in reading
    /\ \/ reading' = reading \union {h} /\ UNCHANGED <<readable, lastRead>>
       \/ /\ reading' = reading \ {h}
          /\ \/ /\ readable[h] # <<>>
                /\ readable' = [readable EXCEPT ![h] = Tail(@)]
                /\ lastRead' = [lastRead EXCEPT ![h] = [status |-> "OK", packet |-> Head(readable[h])]]
             \/ /\ UNCHANGED readable
                /\ \E s \in Status \ {"OK"} :
                      /\ lastRead' = [lastRead EXCEPT ![h] = [status |-> s, packet |-> 0]]
                      /\ s = "TOO_SMALL" => readable[h] # <<>>
                      /\ s = "WOULD_BLOCK" => readable[h] = <<>>
                      /\ s = "ERROR" => life[h] = "joined"
    /\ UNCHANGED <<handleVars, calls, logs>>
\* A read of a handle that is not valid, or has no packets for the host, fails.
ReadFails(h) ==
    /\ ~Known(h) \/ h \in descriptor
    /\ reading' = reading \ {h}
    /\ lastRead' = [lastRead EXCEPT ![h] = [status |-> "ERROR", packet |-> 0]]
    /\ UNCHANGED <<handleVars, readable, calls, logs>>

\* A line is logged; the older ones are dropped first.
Logs ==
    /\ logs' # <<>>
    /\ logs' = Append(IF Len(logs) = LogCap THEN Tail(logs) ELSE logs, logs'[Len(logs')])
    /\ UNCHANGED <<handleVars, packetVars, calls>>

-----------------------------------------------------------------------------
Function(t) ==
    \/ meta_decrypt_config_v1(t) \/ meta_encrypt_config_v1(t) \/ meta_custom_rule_validate_v1(t)
    \/ meta_custom_rule_targets_v1(t) \/ meta_custom_rules_apply_v1(t) \/ meta_overrides_apply_v1(t)
    \/ meta_yaml_check_v1(t) \/ meta_cos_target_v1(t) \/ meta_cos_put_v1(t)
    \/ meta_prefetch_resources_v1(t) \/ meta_resources_state_v1(t) \/ meta_error_v1(t)
    \/ meta_drain_logs_v1(t) \/ meta_create_v1(t) \/ meta_create_packet_tunnel_v1(t)
    \/ meta_start_v1(t) \/ meta_set_tun_fd_v1(t) \/ meta_stop_v1(t) \/ meta_destroy_v1(t)
    \/ meta_probe_v1(t) \/ meta_test_route_v1(t) \/ meta_dns_leak_v1(t)
    \/ \E h \in Handle :
          \/ meta_close_connections_v1(t, h) \/ meta_set_network_v1(t, h) \/ meta_snapshot_v1(t, h)
          \/ meta_status_v1(t, h) \/ meta_update_v1(t, h) \/ meta_select_v1(t, h)
          \/ meta_close_connection_v1(t, h) \/ meta_network_changed_v1(t, h) \/ meta_write_packet_v1(t, h)

Next ==
    \/ UNCHANGED apiVars
    \/ \E h \in Handle :
          \/ Started(h) \/ Moved(h) \/ Stops(h) \/ TakesChange(h) \/ CallbackRuns(h)
          \/ Arrives(h) \/ meta_read_packet_v1(h) \/ ReadFails(h)
    \/ \E t \in Thread : Function(t)
    \/ Logs

Spec == Init /\ [][Next]_apiVars
=============================================================================
