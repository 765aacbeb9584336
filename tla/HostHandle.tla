----------------------------- MODULE HostHandle -----------------------------
(***************************************************************************)
(* The C API as it is built (crates/ffi/src/lib.rs and host.rs): a         *)
(* registry of handles, each with a core, a worker thread that owns its    *)
(* runtime, a queue of commands, a watch channel of network changes, and   *)
(* the packet bridge; and the process-wide log buffer (logs.rs).           *)
(*                                                                         *)
(* Host threads call in, wait for replies and time out in any order.       *)
(* Callback is the thread a running packet_ready callback may call from.   *)
(* The look-up of a handle, the checks behind it and the try_send they     *)
(* guard are one step: a stop between them has the effect of a stop after. *)
(***************************************************************************)
EXTENDS PacketBridge, FiniteSets

CONSTANTS
    Thread,     \* host threads
    Callback,   \* the thread inside packet_ready, a member of Thread
    Tunnel,     \* handles with tun.enable, all of meta_create_packet_tunnel_v1 among them
    Capacity,   \* 16 handles
    CommandCap, \* 4 commands
    LogCap      \* 2000 lines

ASSUME HandleAssumption == Handle \subseteq Nat \ {0}
ASSUME CallbackAssumption == Callback \in Thread
ASSUME LogCapAssumption == LogCap \in Nat \ {0}

VARIABLES
    registry,   \* HANDLES: the ids that can be looked up
    next,       \* NEXT
    stop,       \* handle -> Core.stop is cancelled
    started,    \* handle -> Core.lifecycle
    running,    \* handle -> the worker got a Running
    worker,     \* handle -> place of the worker thread
    job,        \* handle -> the Start command being served
    taken,      \* handle -> the JoinHandle was taken
    locker,     \* handle -> threads holding the lock of the JoinHandle
    commands,   \* handle -> commands queued
    queries,    \* handle -> spawned probes, route tests and leak tests
    protecting, \* handle -> the queries inside protect_socket
    changed,    \* handle -> a network change not yet taken by the worker
    fd,         \* handle -> packets go through an Android TUN descriptor
    input,      \* handle -> packets from the host in the channel to the core
    call,       \* thread -> the call under way, or the result of the last one
    tickets,    \* calls that waited for a reply so far, each on a channel of its own
    logs,       \* BUFFER
    logged      \* lines ever logged

coreVars == <<stop, started, running, changed, fd, input>>
workerVars == <<worker, job, taken, locker, commands, queries, protecting>>
regVars == <<registry, next>>
logVars == <<logs, logged>>
hostVars == <<regVars, coreVars, workerVars, logVars, call, tickets, bridgeVars>>

Exited == {"gone", "panicked"}
Commands == {"start", "set_fd"}
Queries == {"probe", "test_route", "dns_leak"}
NoCall == [fn |-> "none", h |-> 0, at |-> "idle", status |-> "none", reply |-> "none", ticket |-> 0]

HostInit ==
    /\ BridgeInit
    /\ registry = {} /\ next = 1
    /\ stop = [h \in Handle |-> FALSE] /\ started = [h \in Handle |-> FALSE]
    /\ running = [h \in Handle |-> FALSE] /\ changed = [h \in Handle |-> FALSE]
    /\ fd = [h \in Handle |-> FALSE] /\ input = [h \in Handle |-> 0]
    /\ worker = [h \in Handle |-> "none"] /\ job = [h \in Handle |-> <<>>]
    /\ taken = [h \in Handle |-> FALSE] /\ locker = [h \in Handle |-> {}]
    /\ commands = [h \in Handle |-> <<>>]
    /\ queries = [h \in Handle |-> {}] /\ protecting = [h \in Handle |-> {}]
    /\ call = [t \in Thread |-> NoCall] /\ tickets = 0
    /\ logs = <<>> /\ logged = 0

-----------------------------------------------------------------------------
(* Entering and leaving the API *)

\* A thread may call: a host thread at any time, Callback while packet_ready runs.
MayCall(t) ==
    /\ call[t].at = "idle"
    /\ t = Callback => \E h \in Handle : sender[h] = "callback"

\* Mutant: lifecycle calls are let through from callbacks.
CheckNothing(t) == TRUE
\* check_lifecycle: the thread is not inside a host callback.
CheckLifecycle(t) == t # Callback

\* A call begins: it returns a status at once, or waits at a place.
Enter(t, f, h, place, s, ticket) ==
    /\ MayCall(t)
    /\ call' = [call EXCEPT ![t] =
          [fn |-> f, h |-> h, at |-> place, status |-> s, reply |-> "none", ticket |-> ticket]]
    /\ tickets' = IF ticket = 0 THEN tickets ELSE ticket
Call(t, f, h, s) == Enter(t, f, h, "idle", s, 0)

\* boundary: the call that waited ends with a status.
Ended(c, s) ==
    [fn |-> c.fn, h |-> c.h, at |-> "idle", status |-> s, reply |-> "none", ticket |-> 0]
Return(t, s) == call' = [call EXCEPT ![t] = Ended(@, s)]
At(c, place) == [c EXCEPT !.at = place]
MoveTo(t, place) == call' = [call EXCEPT ![t] = At(@, place)]
WithReply(c, r) == [c EXCEPT !.reply = r]

\* A call that only reads or changes what lies behind the handle's core.
Immediate(t, f, h, statuses) ==
    /\ \E s \in IF h \in registry THEN statuses ELSE {"ERROR"} : Call(t, f, h, s)
    /\ UNCHANGED <<regVars, coreVars, workerVars, logVars, bridgeVars>>

\* output: n bytes for a buffer of some capacity, which may be null.
Output(n, capacity, null) ==
    IF capacity < n THEN "TOO_SMALL" ELSE IF n > 0 /\ null THEN "ERROR" ELSE "OK"
\* The outcomes of a call that fills a buffer; its input may be invalid.
Written == {Output(n, c, null) : n \in 0..1, c \in 0..1, null \in BOOLEAN} \union {"ERROR"}
Snapshot(t, h) == Immediate(t, "snapshot", h, Written)
StatusOf(t, h) == Immediate(t, "status", h, Written)
Update(t, h) == Immediate(t, "update", h, {"OK", "ERROR"})
Select(t, h) == Immediate(t, "select", h, {"OK", "ERROR"})
SetNetwork(t, h) == Immediate(t, "set_network", h, {"OK", "ERROR"})
CloseConnections(t, h) == Immediate(t, "close_connections", h, {"OK"})
CloseConnection(t, h) == Immediate(t, "close_connection", h, {"OK", "ERROR"})
DnsAudit(t, h) == Immediate(t, "dns_audit", h, Written)

-----------------------------------------------------------------------------
(* Handles *)

\* create: refused by an input, a callback, the hooks or a full registry; the
\* identifier is used up when Handle::new fails.
Create(t, f) ==
    /\ \/ /\ Call(t, f, 0, "ERROR")
          /\ UNCHANGED <<regVars, worker>>
       \/ /\ CheckLifecycle(t)
          /\ Cardinality(registry) < Capacity
          /\ next \in Handle
          /\ f = "create_packet_tunnel" => next \in Tunnel
          /\ next' = next + 1
          /\ \/ Call(t, f, 0, "ERROR") /\ UNCHANGED <<registry, worker>>
             \/ /\ Call(t, f, next, "OK")
                /\ registry' = registry \union {next}
                /\ worker' = [worker EXCEPT ![next] = "select"]
    /\ UNCHANGED <<coreVars, job, taken, locker, commands, queries, protecting, logVars, bridgeVars>>

\* A command or query is queued with a reply channel of its own.
Enqueue(t, f, h) ==
    /\ Enter(t, f, h, "waiting", "none", tickets + 1)
    /\ commands' = [commands EXCEPT ![h] = Append(@, [fn |-> f, thread |-> t, ticket |-> tickets'])]

\* try_send on the command queue
QueueOpen(h) == worker[h] \notin Exited /\ Len(commands[h]) < CommandCap

\* Handle::start and set_fd up to the wait of command_within; the descriptor may
\* be invalid.
Command(t, f, h) ==
    /\ LET ok == h \in registry /\ CheckLifecycle(t) /\ ~stop[h] /\ QueueOpen(h) IN
       \/ ok /\ Enqueue(t, f, h)
       \/ (ok => f = "set_fd") /\ Call(t, f, h, "ERROR") /\ UNCHANGED commands
    /\ UNCHANGED <<regVars, coreVars, worker, job, taken, locker, queries, protecting, logVars, bridgeVars>>

\* Handle::probe, test_route and dns_leak_test up to their wait; the arguments
\* may be invalid.
Query(t, f, h) ==
    /\ \/ h \in registry /\ QueueOpen(h) /\ Enqueue(t, f, h)
       \/ Call(t, f, h, "ERROR") /\ UNCHANGED commands
    /\ UNCHANGED <<regVars, coreVars, worker, job, taken, locker, queries, protecting, logVars, bridgeVars>>

\* The reply arrived.  The host of a tunnel drains once after its start.
Answered(t) ==
    LET c == call[t] IN
    /\ c.at = "waiting" /\ c.reply \in {"ok", "error"}
    /\ \E s \in IF c.reply = "error" THEN {"ERROR"}
                ELSE IF c.fn \in {"test_route", "dns_leak"} THEN Written ELSE {"OK"} :
          Return(t, s)
    /\ turns' = IF c.fn = "start" /\ c.reply = "ok" /\ c.h \in Tunnel
                THEN [turns EXCEPT ![c.h] = @ + 1] ELSE turns
    /\ UNCHANGED <<regVars, coreVars, workerVars, logVars, tickets,
                   sent, output, pending, wake, sender, reader, left, sized, lastRead>>

\* Mutant: a start that timed out leaves the core running.
StopsOnTimeoutNone(f) == FALSE
\* command_within cancels the core when no reply came; the queries do not.
StopsOnTimeout(f) == f \in Commands

\* recv_timeout gives up: the reply is late, or its sender was dropped.
Unanswered(t) ==
    LET c == call[t] IN
    /\ c.at = "waiting" /\ c.reply \in {"none", "dropped"}
    /\ Return(t, "ERROR")
    /\ stop' = [stop EXCEPT ![c.h] = @ \/ StopsOnTimeout(c.fn)]
    /\ UNCHANGED <<regVars, started, running, changed, fd, input, workerVars, logVars, tickets, bridgeVars>>

\* Handle::network_changed
NetworkChanged(t, h) ==
    /\ IF h \in registry /\ CheckLifecycle(t) /\ ~stop[h]
       THEN Call(t, "network_changed", h, "OK") /\ changed' = [changed EXCEPT ![h] = TRUE]
       ELSE Call(t, "network_changed", h, "ERROR") /\ UNCHANGED changed
    /\ UNCHANGED <<regVars, stop, started, running, fd, input, workerVars, logVars, bridgeVars>>

\* Handle::shutdown, begun by meta_stop_v1 and meta_destroy_v1.
Shutdown(t, f, h) ==
    /\ IF h \in registry /\ CheckLifecycle(t)
       THEN Enter(t, f, h, "locking", "none", 0) /\ stop' = [stop EXCEPT ![h] = TRUE]
       ELSE Call(t, f, h, "ERROR") /\ UNCHANGED stop
    /\ UNCHANGED <<regVars, started, running, changed, fd, input, workerVars, logVars, bridgeVars>>

\* ... takes the JoinHandle under its lock, which it keeps while it joins,
LockWorker(t) ==
    LET h == call[t].h IN
    /\ call[t].at = "locking" /\ locker[h] = {}
    /\ MoveTo(t, IF taken[h] THEN "joined" ELSE "joining")
    /\ taken' = [taken EXCEPT ![h] = TRUE]
    /\ locker' = [locker EXCEPT ![h] = IF taken[h] THEN {} ELSE {t}]
    /\ UNCHANGED <<regVars, coreVars, worker, job, commands, queries, protecting, logVars, tickets, bridgeVars>>

\* ... waits for the thread; a panic of the worker fails the call,
Join(t) ==
    LET h == call[t].h IN
    /\ call[t].at = "joining" /\ worker[h] \in Exited
    /\ locker' = [locker EXCEPT ![h] = {}]
    /\ IF worker[h] = "panicked"
       THEN Return(t, "ERROR")
       ELSE MoveTo(t, "joined")
    /\ UNCHANGED <<regVars, coreVars, worker, job, taken, commands, queries, protecting, logVars, tickets, bridgeVars>>

\* ... and meta_destroy_v1 removes the handle.
Stopped(t) ==
    LET h == call[t].h IN
    /\ call[t].at = "joined"
    /\ registry' = IF call[t].fn = "destroy" THEN registry \ {h} ELSE registry
    /\ Return(t, "OK")
    /\ UNCHANGED <<next, coreVars, workerVars, logVars, tickets, bridgeVars>>

-----------------------------------------------------------------------------
(* The worker thread: stop comes before network changes, these before commands *)

\* The call that waits on the reply channel of command c gets a reply.
Replied(c, r) ==
    [t \in Thread |-> IF t = c.thread /\ call[t].ticket = c.ticket
                      THEN WithReply(call[t], r) ELSE call[t]]

TakeStop(h) ==
    /\ worker[h] = "select" /\ stop[h]
    /\ worker' = [worker EXCEPT ![h] = "dropping"]
    /\ UNCHANGED <<regVars, coreVars, job, taken, locker, commands, queries, protecting,
                   logVars, call, tickets, bridgeVars>>

\* Mutant: a change that arrives before start is left for later.
ChangeWhileRunning(h) == changed[h] /\ running[h]
\* network_changes.changed() is ready.
ChangeReady(h) == changed[h]

TakeChange(h) ==
    /\ worker[h] = "select" /\ ~stop[h] /\ ChangeReady(h)
    /\ changed' = [changed EXCEPT ![h] = FALSE]
    /\ worker' = [worker EXCEPT ![h] = "changing"]
    /\ UNCHANGED <<regVars, stop, started, running, fd, input, job, taken, locker, commands,
                   queries, protecting, logVars, call, tickets, bridgeVars>>

ChangeDone(h) ==
    /\ worker[h] = "changing"
    /\ worker' = [worker EXCEPT ![h] = "select"]
    /\ UNCHANGED <<regVars, coreVars, job, taken, locker, commands, queries, protecting,
                   logVars, call, tickets, bridgeVars>>

\* receiver.recv() returns the command c.
Receive(h, c) ==
    /\ worker[h] = "select" /\ ~stop[h] /\ ~ChangeReady(h)
    /\ commands[h] # <<>> /\ c = Head(commands[h])
    /\ commands' = [commands EXCEPT ![h] = Tail(@)]

\* Core::start_with_packets refuses a core that was started.
MayStart(h) == ~started[h]

TakeStart(h, c) ==
    /\ Receive(h, c) /\ c.fn = "start"
    /\ IF MayStart(h)
       THEN /\ started' = [started EXCEPT ![h] = TRUE]
            /\ worker' = [worker EXCEPT ![h] = "starting"]
            /\ job' = [job EXCEPT ![h] = <<c>>]
            /\ UNCHANGED call
       ELSE call' = Replied(c, "error") /\ UNCHANGED <<started, worker, job>>
    /\ UNCHANGED <<regVars, stop, running, changed, fd, input, taken, locker, queries,
                   protecting, logVars, tickets, bridgeVars>>

\* start_inner spawns the packet loop and its writer.
SpawnPackets(h) ==
    /\ worker[h] = "starting" /\ h \in Tunnel /\ sender[h] = "off"
    /\ sender' = [sender EXCEPT ![h] = "idle"]
    /\ UNCHANGED <<regVars, coreVars, workerVars, logVars, call, tickets,
                   sent, output, pending, wake, reader, turns, left, sized, lastRead>>

StartOk(h) ==
    /\ worker[h] = "starting" /\ (h \in Tunnel => sender[h] # "off")
    /\ running' = [running EXCEPT ![h] = TRUE]
    /\ call' = Replied(job[h][1], "ok")
    /\ job' = [job EXCEPT ![h] = <<>>]
    /\ worker' = [worker EXCEPT ![h] = "select"]
    /\ UNCHANGED <<regVars, stop, started, changed, fd, input, taken, locker, commands, queries,
                   protecting, logVars, tickets, bridgeVars>>

\* A failed start cancels the core.
StartFailed(h) ==
    /\ worker[h] = "starting"
    /\ stop' = [stop EXCEPT ![h] = TRUE]
    /\ started' = [started EXCEPT ![h] = FALSE]
    /\ call' = Replied(job[h][1], "error")
    /\ job' = [job EXCEPT ![h] = <<>>]
    /\ worker' = [worker EXCEPT ![h] = "select"]
    /\ UNCHANGED <<regVars, running, changed, fd, input, taken, locker, commands, queries,
                   protecting, logVars, tickets, bridgeVars>>

\* SetFd: the descriptor replaces HostPackets, unless the core runs or the
\* descriptor cannot be used.
TakeFd(h, c) ==
    /\ Receive(h, c) /\ c.fn = "set_fd"
    /\ \/ call' = Replied(c, "error") /\ UNCHANGED <<fd, sender>>
       \/ /\ ~running[h] /\ h \in Tunnel
          /\ fd' = [fd EXCEPT ![h] = TRUE]
          /\ sender' = [sender EXCEPT ![h] = "gone"]
          /\ call' = Replied(c, "ok")
    /\ UNCHANGED <<regVars, stop, started, running, changed, input, worker, job, taken, locker,
                   queries, protecting, logVars, tickets,
                   sent, output, pending, wake, reader, turns, left, sized, lastRead>>

\* Probe, TestRoute and DnsLeakTest run as tasks of their own.
TakeQuery(h, c) ==
    /\ Receive(h, c) /\ c.fn \in Queries
    /\ queries' = [queries EXCEPT ![h] = @ \union {c}]
    /\ UNCHANGED <<regVars, coreVars, worker, job, taken, locker, protecting,
                   logVars, call, tickets, bridgeVars>>

\* A query dials: protect_socket is called and returns.  An aborted task gets no
\* further than the callback it is in.
Protect(h, q) ==
    /\ worker[h] \notin {"dropping", "unwinding"}
    /\ q \notin protecting[h]
    /\ protecting' = [protecting EXCEPT ![h] = @ \union {q}]
    /\ UNCHANGED <<regVars, coreVars, worker, job, taken, locker, commands, queries,
                   logVars, call, tickets, bridgeVars>>

Protected(h, q) ==
    /\ q \in protecting[h]
    /\ protecting' = [protecting EXCEPT ![h] = @ \ {q}]
    /\ UNCHANGED <<regVars, coreVars, worker, job, taken, locker, commands, queries,
                   logVars, call, tickets, bridgeVars>>

\* A query ends with a result, or is aborted with its runtime.
QueryDone(h, q) ==
    /\ q \notin protecting[h]
    /\ queries' = [queries EXCEPT ![h] = @ \ {q}]
    /\ \E r \in {"ok", "error"} \union (IF worker[h] \in {"dropping", "unwinding"} THEN {"dropped"} ELSE {}) :
          call' = Replied(q, r)
    /\ UNCHANGED <<regVars, coreVars, worker, job, taken, locker, commands, protecting,
                   logVars, tickets, bridgeVars>>

\* start or network_changed panics: Running is dropped, which cancels the core,
\* and so is the reply channel.
WorkerPanics(h) ==
    /\ worker[h] \in {"starting", "changing"}
    /\ worker' = [worker EXCEPT ![h] = "unwinding"]
    /\ stop' = [stop EXCEPT ![h] = @ \/ running[h]]
    /\ call' = IF job[h] = <<>> THEN call ELSE Replied(job[h][1], "dropped")
    /\ job' = [job EXCEPT ![h] = <<>>]
    /\ UNCHANGED <<regVars, started, running, changed, fd, input, taken, locker, commands,
                   queries, protecting, logVars, tickets, bridgeVars>>

\* Mutant: the runtime is left to shut down in the background.
RuntimeDetached(h) == TRUE
\* Dropping the runtime waits for its tasks, callbacks included.
RuntimeJoined(h) == queries[h] = {} /\ sender[h] \in {"off", "idle", "gone"}

\* The thread ends: the queued commands and HostPackets are dropped.
WorkerExits(h) ==
    /\ worker[h] \in {"dropping", "unwinding"}
    /\ RuntimeJoined(h)
    /\ worker' = [worker EXCEPT ![h] = IF @ = "dropping" THEN "gone" ELSE "panicked"]
    /\ commands' = [commands EXCEPT ![h] = <<>>]
    /\ call' = [t \in Thread |->
                   IF \E i \in DOMAIN commands[h] : commands[h][i].ticket = call[t].ticket
                   THEN WithReply(call[t], "dropped") ELSE call[t]]
    /\ sender' = [sender EXCEPT ![h] = "gone"]
    /\ UNCHANGED <<regVars, coreVars, job, taken, locker, queries, protecting, logVars, tickets,
                   sent, output, pending, wake, reader, turns, left, sized, lastRead>>

-----------------------------------------------------------------------------
(* Packets *)

\* meta_write_packet_v1
WritePacket(t, h) ==
    /\ IF h \in registry /\ ~stop[h] /\ h \in Tunnel /\ sender[h] # "gone"
       THEN \/ /\ input[h] < QueueCap
               /\ input' = [input EXCEPT ![h] = @ + 1]
               /\ Call(t, "write_packet", h, "OK")
            \/ /\ UNCHANGED input
               /\ Call(t, "write_packet", h, IF input[h] < QueueCap THEN "ERROR" ELSE "WOULD_BLOCK")
       ELSE Call(t, "write_packet", h, "ERROR") /\ UNCHANGED input
    /\ UNCHANGED <<regVars, stop, started, running, changed, fd, workerVars, logVars, bridgeVars>>

\* HostPackets::recv
RecvPacket(h) ==
    /\ sender[h] \in {"idle", "queued", "callback"} /\ input[h] > 0
    /\ input' = [input EXCEPT ![h] = @ - 1]
    /\ UNCHANGED <<regVars, stop, started, running, changed, fd, workerVars, logVars, call, tickets, bridgeVars>>

\* The writer gave a full queue 5 s: its error ends the packet loop, and the core.
WriterTimeout(h) ==
    /\ sender[h] = "idle" /\ Len(output[h]) = QueueCap
    /\ ~stop[h]
    /\ stop' = [stop EXCEPT ![h] = TRUE]
    /\ UNCHANGED <<regVars, started, running, changed, fd, input, workerVars, logVars, call, tickets, bridgeVars>>

\* meta_read_packet_v1 does not reach the queue.
ReadRefused(h) ==
    /\ left[h] > 0 /\ reader[h] = "none"
    /\ h \notin registry \/ fd[h]
    /\ EndTurn(h, "ERROR")

\* The writer of the core; packet_ready returns once its calls have.
WriterStep(h) ==
    /\ Send(h) \/ Queued(h) \/ (PacketReady(h) /\ call[Callback].at = "idle")
    /\ UNCHANGED <<regVars, coreVars, workerVars, logVars, call, tickets>>

\* The tunnel's queue on the host.
DrainStep(h) ==
    /\ \/ StartTurn(h) \/ ReadRefused(h)
       \/ h \in registry /\ ~fd[h] /\ (ReadEmpty(h) \/ \E fits \in BOOLEAN : ReadReady(h, fits))
       \/ Rearm(h) \/ Recheck(h)
       \/ \E fits \in BOOLEAN : Draining(h, fits)
    /\ UNCHANGED <<regVars, coreVars, workerVars, logVars, call, tickets>>

-----------------------------------------------------------------------------
(* Logs, and calls without a handle *)

\* push and record_panic of logs.rs: the oldest line makes room.
Log ==
    /\ logged' = logged + 1
    /\ logs' = Append(IF Len(logs) = LogCap THEN Tail(logs) ELSE logs, logged')
    /\ UNCHANGED <<regVars, coreVars, workerVars, call, tickets, bridgeVars>>

\* logs::drain keeps the lines unless they were copied.
KeepLogs(s) == IF s = "OK" THEN <<>> ELSE logs

DrainLogs(t) ==
    /\ \E s \in Written : Call(t, "drain_logs", 0, s) /\ logs' = KeepLogs(s)
    /\ UNCHANGED <<regVars, coreVars, workerVars, logged, bridgeVars>>

\* Conversions, checks and uploads that touch no handle.
Stateless(t, f, statuses) ==
    /\ \E s \in statuses : Call(t, f, 0, s)
    /\ UNCHANGED <<regVars, coreVars, workerVars, logVars, bridgeVars>>

Conversions == {"decrypt_config", "encrypt_config", "custom_rule_targets", "custom_rules_apply",
                "overrides_apply", "yaml_check", "cos_target", "error"}
Convert(t, f) == Stateless(t, f, Written)
Transfers == {"custom_rule_validate", "cos_put", "prefetch_resources", "resources_state"}
CheckOrTransfer(t, f) == Stateless(t, f, {"OK", "ERROR"})

-----------------------------------------------------------------------------
Creates == {"create", "create_packet_tunnel"}
Stops == {"stop", "destroy"}
Behind == {"snapshot", "status", "update", "select", "set_network", "close_connections",
           "close_connection", "dns_audit", "network_changed", "write_packet"}
Functions == Conversions \union Transfers \union Creates \union Stops \union Behind
               \union Commands \union Queries \union {"drain_logs"}

HandleCall(t, f, h) ==
    \/ f = "snapshot" /\ Snapshot(t, h)
    \/ f = "status" /\ StatusOf(t, h)
    \/ f = "update" /\ Update(t, h)
    \/ f = "select" /\ Select(t, h)
    \/ f = "set_network" /\ SetNetwork(t, h)
    \/ f = "close_connections" /\ CloseConnections(t, h)
    \/ f = "close_connection" /\ CloseConnection(t, h)
    \/ f = "dns_audit" /\ DnsAudit(t, h)
    \/ f = "network_changed" /\ NetworkChanged(t, h)
    \/ f = "write_packet" /\ WritePacket(t, h)
    \/ f \in Commands /\ Command(t, f, h)
    \/ f \in Queries /\ Query(t, f, h)
    \/ f \in Stops /\ Shutdown(t, f, h)

\* Thread t calls the function f.
Calls(t, f) ==
    \/ f \in Creates /\ Create(t, f)
    \/ f = "drain_logs" /\ DrainLogs(t)
    \/ f \in Conversions /\ Convert(t, f)
    \/ f \in Transfers /\ CheckOrTransfer(t, f)
    \/ \E h \in Handle : HandleCall(t, f, h)

WorkerStep(h) ==
    \/ TakeStop(h) \/ TakeChange(h) \/ ChangeDone(h)
    \/ \E c \in {commands[h][i] : i \in DOMAIN commands[h]} : TakeStart(h, c) \/ TakeFd(h, c) \/ TakeQuery(h, c)
    \/ SpawnPackets(h) \/ StartOk(h) \/ StartFailed(h)
    \/ WorkerExits(h)

QueryStep(h) == \E q \in queries[h] : Protected(h, q) \/ QueryDone(h, q)

CallStep(t) == Answered(t) \/ Unanswered(t) \/ LockWorker(t) \/ Join(t) \/ Stopped(t)

\* What happens without a new call.
HostStep ==
    \/ \E t \in Thread : CallStep(t)
    \/ \E h \in Handle :
          \/ WorkerStep(h) \/ WorkerPanics(h) \/ QueryStep(h)
          \/ \E q \in queries[h] : Protect(h, q)
          \/ RecvPacket(h) \/ WriterTimeout(h)
          \/ WriterStep(h) \/ DrainStep(h)
    \/ Log

HostNext == HostStep \/ \E t \in Thread, f \in Functions : Calls(t, f)

HostSpec == HostInit /\ [][HostNext]_hostVars

-----------------------------------------------------------------------------
\* The host callbacks running for h.
Running(h) ==
    (IF sender[h] = "callback" THEN {"packet_ready"} ELSE {})
      \union (IF protecting[h] # {} THEN {"protect_socket"} ELSE {})

\* No callback survives stop and destroy: once a call has returned META_OK no
\* packet_ready and no protect_socket of that handle runs, whoever joined the
\* worker and whatever it was serving.
StopJoinsCallbacks ==
    \A t \in Thread :
       call[t].fn \in Stops /\ call[t].at = "idle" /\ call[t].status = "OK"
          => Running(call[t].h) = {}

\* Nothing waits for ever: every call returns, also the ones racing a stop, a
\* start that hangs, a full queue or a running callback.
CallsReturn == \A t \in Thread : call[t].at # "idle" ~> call[t].at = "idle"

\* A packet the core queued for a host that drains on packet_ready is read, or
\* the core is stopped.
PacketsArrive ==
    \A h \in Hooked : Readable(h) # <<>> /\ ~stop[h] ~> Readable(h) = <<>> \/ stop[h]

\* A reported network change is taken up by the worker, whatever commands are
\* queued or served, unless the core stops or its worker dies.
ChangeTakenUp ==
    \A h \in Handle : changed[h] ~> ~changed[h] \/ stop[h] \/ worker[h] \in Exited
=============================================================================
