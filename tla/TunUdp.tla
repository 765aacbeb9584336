------------------------------- MODULE TunUdp -------------------------------
(***************************************************************************)
(* The UDP side of the TUN packet loop (run in crates/core/src/packet.rs), *)
(* composed of the UDP table, the memory guard, the session tasks and the  *)
(* reply channel.  One iteration of the loop goes through the phases in    *)
(* the code's order; session tasks run on other threads and interleave     *)
(* between any two of them.  Datagrams carry no payload here, so those of  *)
(* one flow in one batch are one datagram.                                 *)
(***************************************************************************)
EXTENDS UdpTable, MemoryGuard, Sequences

CONSTANTS
    RefusedFor,     \* REFUSED_FOR
    IncomingCap,    \* packets the device queue holds
    ReplyCap        \* replies the channel holds, and one iteration handles

ASSUME TunUdpAssumption ==
    /\ RefusedFor \in Nat
    /\ IncomingCap \in Nat
    /\ ReplyCap \in Nat

VARIABLES
    phase,      \* where the loop is in its iteration
    incoming,   \* flows with datagrams in device.incoming
    received,   \* flows with datagrams the sockets hold for this iteration
    handled,    \* replies handled in this iteration
    refused,    \* flows the route rejected: flow -> since
    tasks,      \* the JoinSet: running session tasks and unread results
    replies     \* the reply channel

loopVars == <<phase, incoming, received, handled, refused>>
vars == <<tableVars, guardVars, loopVars, tasks, replies>>

Running == {"dialing", "open"}
Finished == {"done", "rejected"}
Session == [flow : Flow, generation : Nat]
Task == [flow : Flow, generation : Nat, state : Running \cup Finished, aborted : BOOLEAN]

Init ==
    /\ TableInit
    /\ GuardInit
    /\ phase = "select"
    /\ incoming = {}
    /\ received = {}
    /\ handled = 0
    /\ refused = [f \in {} |-> 0]
    /\ tasks = {}
    /\ replies = <<>>

\* AbortHandle::abort on the sessions that leave the table: a task on another
\* thread may still finish its current poll before it sees the request.
Abort(leaving) ==
    tasks' = {IF k.flow \in leaving /\ flows[k.flow] = k.generation /\ k.state \in Running
              THEN [k EXCEPT !.aborted = TRUE] ELSE k : k \in tasks}

-----------------------------------------------------------------------------
(***************************************************************************)
(* The select at the head of the loop.                                     *)
(***************************************************************************)
\* Mutant: a new target always gets a socket.
BindUnlimited(target) ==
    /\ ports' = IF target \in DOMAIN ports THEN ports ELSE Put(ports, target, NewPort)
    /\ UNCHANGED <<flows, dnsSessions, nextGeneration, noticed, now>>

Bind(target) ==
    \/ target \in DOMAIN ports /\ UNCHANGED tableVars
    \/ AdmitPort(target, shedding)

\* A datagram whose target has, or gets, a socket is queued for the stack.
RecvAdmitted(flow) ==
    /\ phase = "select"
    /\ Cardinality(incoming) < IncomingCap
    /\ Bind(flow.target)
    /\ incoming' = incoming \cup {flow}
    /\ phase' = "guard"
    /\ UNCHANGED <<guardVars, received, handled, refused, tasks, replies>>

\* A refused one is answered at most once a window; `continue` returns to the
\* select without the rest of the iteration.
RecvRefused(flow) ==
    /\ phase = "select"
    /\ Cardinality(incoming) < IncomingCap
    /\ PortRefused(flow.target, shedding)
    /\ Notice(flow)
    /\ UNCHANGED <<guardVars, loopVars, tasks, replies>>

Wake ==
    /\ phase = "select"
    /\ phase' = "guard"
    /\ UNCHANGED <<tableVars, guardVars, incoming, received, handled, refused, tasks, replies>>

\* core.stop, or the writer failing: every task is aborted and joined.
Stop ==
    /\ phase = "select"
    /\ phase' = "stopped"
    /\ tasks' = {}
    /\ UNCHANGED <<tableVars, guardVars, incoming, received, handled, refused, replies>>

(***************************************************************************)
(* Housekeeping and the memory guard; each runs when its period is over.   *)
(***************************************************************************)
StillRefused(flow) == flow \in DOMAIN refused /\ now - refused[flow] < RefusedFor

Housekeep ==
    refused' \in {refused, Without(refused, {f \in DOMAIN refused : ~StillRefused(f)})}

GuardIdle ==
    /\ phase = "guard"
    /\ Housekeep
    /\ phase' = "poll"
    /\ UNCHANGED <<tableVars, guardVars, incoming, received, handled, tasks, replies>>

\* A critical reading also releases every session and socket of the loop.
GuardCheck(footprint) ==
    /\ phase = "guard"
    /\ Housekeep
    /\ Decide(footprint)
    /\ IF Closes(footprint)
       THEN Purge /\ Abort(DOMAIN flows)
       ELSE UNCHANGED <<tableVars, tasks>>
    /\ phase' = "poll"
    /\ UNCHANGED <<incoming, received, handled, replies>>

(***************************************************************************)
(* poll: smoltcp moves packets to the sockets, as far as the outgoing      *)
(* queue leaves it room; a packet without a socket is answered by smoltcp. *)
(***************************************************************************)
Poll(taken) ==
    /\ phase = "poll"
    /\ incoming' = incoming \ taken
    /\ received' = {f \in taken : f.target \in DOMAIN ports}
    /\ phase' = "join"
    /\ UNCHANGED <<tableVars, guardVars, handled, refused, tasks, replies>>

(***************************************************************************)
(* Results of finished sessions.                                           *)
(***************************************************************************)
RejectedNow(task) == task.state = "rejected" /\ Current(task.flow, task.generation)

Join(task) ==
    /\ phase = "join"
    /\ task.state \in Finished
    /\ Ended(task.flow, task.generation)
    /\ refused' = IF RejectedNow(task) THEN Put(refused, task.flow, now) ELSE refused
    /\ tasks' = tasks \ {task}
    /\ UNCHANGED <<guardVars, phase, incoming, received, handled, replies>>

\* Nothing left to join: read every socket; its port was used now.
Collect ==
    /\ phase = "join"
    /\ \A k \in tasks : k.state \notin Finished
    /\ Touch({f.target : f \in received})
    /\ phase' = "datagrams"
    /\ UNCHANGED <<guardVars, incoming, received, handled, refused, tasks, replies>>

(***************************************************************************)
(* Datagrams, replies and expiry.                                          *)
(***************************************************************************)
NewTask(flow) ==
    [flow |-> flow, generation |-> NewGeneration,
     state |-> IF IsDns(flow) THEN "open" ELSE "dialing", aborted |-> FALSE]

\* One datagram: refused like its flow, queued for its session, given a new
\* session, or refused by the table.
HandleDatagram(flow) ==
    /\ phase = "datagrams"
    /\ received' = received \ {flow}
    /\ \/ /\ StillRefused(flow) \/ flow \in DOMAIN flows
          /\ UNCHANGED <<tableVars, tasks>>
       \/ /\ ~StillRefused(flow)
          /\ OpenSession(flow, shedding)
          /\ tasks' = tasks \cup {NewTask(flow)}
       \/ /\ ~StillRefused(flow)
          /\ SessionRefused(flow, shedding)
          /\ Notice(flow)
          /\ UNCHANGED tasks
    /\ UNCHANGED <<guardVars, phase, incoming, handled, refused, replies>>

DatagramsDone ==
    /\ phase = "datagrams"
    /\ received = {}
    /\ phase' = "replies"
    /\ handled' = 0
    /\ UNCHANGED <<tableVars, guardVars, incoming, received, refused, tasks, replies>>

ReplyTurn == replies # <<>> /\ handled < ReplyCap

\* A reply of an older session than the flow's current one is dropped; any
\* other goes out through its target's socket, if that still exists.
HandleReply ==
    /\ phase = "replies"
    /\ ReplyTurn
    /\ handled' = handled + 1
    /\ replies' = Tail(replies)
    /\ IF Superseded(Head(replies).flow, Head(replies).generation)
       THEN UNCHANGED tableVars
       ELSE Touch({Head(replies).flow.target})
    /\ UNCHANGED <<guardVars, phase, incoming, received, refused, tasks>>

RepliesDone ==
    /\ phase = "replies"
    /\ replies = <<>> \/ handled = ReplyCap
    /\ phase' = "expire"
    /\ handled' = 0
    /\ UNCHANGED <<tableVars, guardVars, incoming, received, refused, tasks, replies>>

LoopExpire ==
    /\ phase = "expire"
    /\ Expire
    /\ Abort(StaleFlows)
    /\ phase' = "select"
    /\ UNCHANGED <<guardVars, incoming, received, handled, refused, replies>>

-----------------------------------------------------------------------------
(***************************************************************************)
(* Session tasks (udp_session), on any thread.                             *)
(***************************************************************************)
Becomes(task, state) ==
    /\ tasks' = (tasks \ {task}) \cup {[task EXCEPT !.state = state]}
    /\ UNCHANGED <<tableVars, guardVars, loopVars, replies>>

\* datagram_for_source: routed and dialed, rejected by the route, or failed.
Connect(task) == task.state = "dialing" /\ Becomes(task, "open")
Reject(task) == task.state = "dialing" /\ Becomes(task, "rejected")
Finish(task) == task.state \in Running /\ Becomes(task, "done")

\* try_send on the reply channel; a full channel drops the reply.
Reply(task) ==
    /\ task.state = "open"
    /\ Len(replies) < ReplyCap
    /\ replies' = Append(replies, [flow |-> task.flow, generation |-> task.generation])
    /\ UNCHANGED <<tableVars, guardVars, loopVars, tasks>>

\* The abort request is seen; the JoinSet's cancelled result changes nothing.
Cancelled(task) ==
    /\ task.aborted
    /\ task.state \in Running
    /\ tasks' = tasks \ {task}
    /\ UNCHANGED <<tableVars, guardVars, loopVars, replies>>

Elapse ==
    /\ Tick
    /\ UNCHANGED <<guardVars, loopVars, tasks, replies>>

Recv == \E f \in Flow : RecvAdmitted(f) \/ RecvRefused(f)

LoopStep ==
    \/ Wake
    \/ GuardIdle
    \/ \E footprint \in Footprint : GuardCheck(footprint)
    \/ \E taken \in SUBSET incoming : Poll(taken)
    \/ \E k \in tasks : Join(k)
    \/ Collect
    \/ \E f \in received : HandleDatagram(f)
    \/ DatagramsDone
    \/ HandleReply
    \/ RepliesDone
    \/ LoopExpire

SessionStep(k) == Connect(k) \/ Reject(k) \/ Finish(k) \/ Reply(k) \/ Cancelled(k)

Next ==
    \/ Recv
    \/ LoopStep
    \/ Stop
    \/ \E k \in tasks : SessionStep(k)
    \/ Elapse

Spec == Init /\ [][Next]_vars

-----------------------------------------------------------------------------
(***************************************************************************)
(* Properties.                                                             *)
(***************************************************************************)
\* The table and the tasks agree: a session task that nobody aborted has its
\* entry (completions of other generations and purges cannot orphan it), and
\* every entry has a task whose result is still to come (no leaked session).  A
\* flow the route rejected has no session while it is refused: its datagrams are
\* answered at once "instead of a new session (and log line) each".
SessionsMatchTasks ==
    phase # "stopped" =>
       /\ \A k \in tasks : k.state \in Running /\ ~k.aborted => Current(k.flow, k.generation)
       /\ \A f \in DOMAIN flows :
             \E k \in tasks : k.flow = f /\ k.generation = flows[f] /\ ~k.aborted
       /\ \A f \in DOMAIN flows : ~StillRefused(f)

\* After a critical footprint released every flow, no data session and no data
\* socket exists until CLOSE_COOLDOWN is over; only DNS comes back.
ReleasedWhileCooling ==
    (\E at \in closedAt : Cooling(at)) => DataFlows = {} /\ DataPorts = {}
=============================================================================
