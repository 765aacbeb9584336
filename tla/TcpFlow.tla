------------------------------ MODULE TcpFlow ------------------------------
(***************************************************************************)
(* One TCP five-tuple through the packet loop (crates/core/src/packet.rs): *)
(* the client, the smoltcp socket that answers it, the two bounded queues  *)
(* to the session task, the session, and the loop that moves bytes between *)
(* socket and queues, joins ended sessions and retires flows.  The client  *)
(* may use the five-tuple again, so several sessions of it can be known to *)
(* the loop at once.                                                       *)
(*                                                                         *)
(* Bytes are counted; queues hold chunk sizes.  The socket is external: it *)
(* has the states the loop tells apart and lossless buffers (acknowledged  *)
(* and retransmitted segments are not distinguished).                      *)
(***************************************************************************)
EXTENDS Integers, Sequences, FiniteSets

CONSTANTS
    Queue,      \* budget.tcp_queue
    Chunk,      \* CHUNK
    Buffer      \* budget.tcp_buffer

ASSUME SizeAssumption == {Queue, Chunk, Buffer} \subseteq Nat \ {0}

VARIABLES
    client,     \* the peer: connection number, state, bytes sent and got
    wire,       \* packets on their way to the TUN
    flow,       \* the tcp_flows entry of the five-tuple, with its socket
    tasks,      \* sessions the loop has not joined: connection -> session
    phase       \* where the packet loop is

vars == <<client, wire, flow, tasks, phase>>

NoFlow == [socket |-> "none"]
NewFlow(c) == [socket |-> "syn", connection |-> c, rx |-> 0, tx |-> 0, input |-> TRUE, in |-> <<>>,
               out |-> <<>>, pending |-> 0, eof |-> FALSE, wrote |-> 0]
NewTask == [state |-> "running", reading |-> 0, read |-> 0, eof |-> FALSE, shut |-> FALSE]
\* The bytes in a queue of chunk sizes: a chunk and a position in it.
Bytes(queue) == UNION {{i} \X (1..queue[i]) : i \in DOMAIN queue}
Total(queue) == Cardinality(Bytes(queue))
Least2(a, b) == IF a < b THEN a ELSE b

Running(c) == c \in DOMAIN tasks /\ tasks[c].state = "running"
Without(c) == [d \in DOMAIN tasks \ {c} |-> tasks[d]]

Init ==
    /\ client = [connection |-> 0, state |-> "none", sent |-> 0, got |-> 0]
    /\ wire = <<>>
    /\ flow = NoFlow
    /\ tasks = [c \in {} |-> NewTask]
    /\ phase = "select"

-----------------------------------------------------------------------------
(***************************************************************************)
(* The client.                                                             *)
(***************************************************************************)
Connect ==
    /\ client.state \in {"none", "reset", "closed"}
    /\ client' = [connection |-> client.connection + 1, state |-> "syn", sent |-> 0, got |-> 0]
    /\ wire' = Append(wire, "syn")
    /\ UNCHANGED <<flow, tasks, phase>>

Mine == flow # NoFlow /\ flow.connection = client.connection

\* The socket's SYN+ACK arrives; the client's answer is in its next packet.
Connected ==
    /\ client.state = "syn" /\ Mine /\ flow.socket = "syn"
    /\ client' = [client EXCEPT !.state = "open"]
    /\ wire' = Append(wire, "ack")
    /\ UNCHANGED <<flow, tasks, phase>>

DataIn(packets) == Cardinality({i \in DOMAIN packets : packets[i] = "data"})
Unread == DataIn(wire)

\* The window the socket advertises bounds what is on its way.
SendData ==
    /\ client.state \in {"open", "ended"} /\ Mine
    /\ flow.rx + Unread < Buffer
    /\ client' = [client EXCEPT !.sent = @ + 1]
    /\ wire' = Append(wire, "data")
    /\ UNCHANGED <<flow, tasks, phase>>

SendFin ==
    /\ client.state \in {"open", "ended"}
    /\ client' = [client EXCEPT !.state = IF @ = "open" THEN "fin" ELSE "closed"]
    /\ wire' = Append(wire, "fin")
    /\ UNCHANGED <<flow, tasks, phase>>

SendReset ==
    /\ client.state \in {"open", "ended", "fin"}
    /\ client' = [client EXCEPT !.state = "reset"]
    /\ wire' = Append(wire, "rst")
    /\ UNCHANGED <<flow, tasks, phase>>

\* The stack resets a connection that has no socket (left).
ResetSeen ==
    /\ client.state \in {"syn", "open", "ended", "fin"}
    /\ ~Mine \/ flow.socket = "closed"
    /\ wire = <<>>
    /\ client' = [client EXCEPT !.state = "reset"]
    /\ UNCHANGED <<wire, flow, tasks, phase>>

\* Bytes the socket sends, then its FIN, arrive.
DeliverData ==
    /\ Mine /\ flow.tx > 0
    /\ flow.socket \in {"open", "closeWait", "finWait", "lastAck"}
    /\ client.state \in {"open", "fin"}
    /\ flow' = [flow EXCEPT !.tx = @ - 1]
    /\ client' = [client EXCEPT !.got = @ + 1]
    /\ UNCHANGED <<wire, tasks, phase>>

DeliverFin ==
    /\ Mine /\ flow.tx = 0
    /\ \/ flow.socket = "finWait" /\ client.state \in {"open", "fin"} /\ UNCHANGED flow
       \/ flow.socket = "lastAck" /\ client.state = "fin" /\ flow' = [flow EXCEPT !.socket = "closed"]
    /\ client' = [client EXCEPT !.state = IF @ = "open" THEN "ended" ELSE "closed"]
    /\ UNCHANGED <<wire, tasks, phase>>

-----------------------------------------------------------------------------
(***************************************************************************)
(* The session: a ChannelStream read and written by a relay.               *)
(***************************************************************************)
\* Mutant: the rest of a chunk that did not fit the reader is dropped.
RestNone(left, n) == 0
Rest(left, n) == left - n

\* poll_read: what is left of a chunk first, then the next one.
Read(c, n) ==
    /\ Running(c)
    /\ IF tasks[c].reading > 0
       THEN /\ n <= tasks[c].reading
            /\ tasks' = [tasks EXCEPT ![c].reading = Rest(@, n), ![c].read = @ + n]
            /\ UNCHANGED flow
       ELSE /\ flow.in # <<>> /\ n <= Head(flow.in)
            /\ tasks' = [tasks EXCEPT ![c].reading = Rest(Head(flow.in), n), ![c].read = @ + n]
            /\ flow' = [flow EXCEPT !.in = Tail(@)]
    /\ UNCHANGED <<client, wire, phase>>

ReadEof(c) ==
    /\ Running(c) /\ ~tasks[c].eof
    /\ tasks[c].reading = 0 /\ flow.in = <<>> /\ ~flow.input
    /\ tasks' = [tasks EXCEPT ![c].eof = TRUE]
    /\ UNCHANGED <<client, wire, flow, phase>>

RoomOut == Len(flow.out) < Queue

\* poll_write: one chunk into a queue with room.
Write(c, n) ==
    /\ Running(c) /\ ~tasks[c].shut
    /\ RoomOut
    /\ flow' = [flow EXCEPT !.out = Append(@, n), !.wrote = @ + n]
    /\ UNCHANGED <<client, wire, tasks, phase>>

Shutdown(c) ==
    /\ Running(c) /\ ~tasks[c].shut
    /\ tasks' = [tasks EXCEPT ![c].shut = TRUE]
    /\ UNCHANGED <<client, wire, flow, phase>>

\* tcp_session returns: after both directions ended, when it is cancelled, or
\* with an error; both ends of its queues are dropped.
End(c, result) ==
    /\ Running(c)
    /\ tasks' = [tasks EXCEPT ![c].state = result]
    /\ flow' = [flow EXCEPT !.in = <<>>]
    /\ UNCHANGED <<client, wire, phase>>

-----------------------------------------------------------------------------
(***************************************************************************)
(* The packet loop.                                                        *)
(***************************************************************************)
\* A SYN of a five-tuple without a flow opens one, unless the table is full or
\* memory is short; then the stack resets it.
Admit ==
    \/ /\ flow' = NewFlow(client.connection)
       /\ tasks' = [c \in DOMAIN tasks \cup {client.connection} |->
                      IF c = client.connection THEN NewTask ELSE tasks[c]]
    \/ UNCHANGED <<flow, tasks>>

\* What the socket makes of a packet (a first one completes the handshake).
Accepted(socket, p) ==
    LET open == IF socket = "syn" THEN "open" ELSE socket
    IN  CASE p = "rst" -> "closed"
          [] p = "fin" /\ open = "open" -> "closeWait"
          [] p = "fin" /\ open = "finWait" -> "closed"
          [] OTHER -> open

Receive ==
    /\ phase = "select" /\ wire # <<>>
    /\ wire' = Tail(wire)
    /\ IF flow = NoFlow
       THEN IF Head(wire) = "syn" THEN Admit ELSE UNCHANGED <<flow, tasks>>
       ELSE /\ flow' = IF Head(wire) = "syn" THEN flow
                       ELSE [flow EXCEPT !.socket = Accepted(@, Head(wire)),
                                         !.rx = IF Head(wire) = "data" THEN @ + 1 ELSE @]
            /\ UNCHANGED tasks
    /\ phase' = "join"
    /\ UNCHANGED client

\* A wake-up or the tick.
Wake ==
    /\ phase = "select"
    /\ phase' = "join"
    /\ UNCHANGED <<client, wire, flow, tasks>>

Ended == {c \in DOMAIN tasks : tasks[c].state # "running"}
Failed == {c \in Ended : tasks[c].state = "failed"}
Aborted == IF flow = NoFlow THEN NoFlow ELSE [flow EXCEPT !.socket = "closed"]

\* The memory guard closes everything: sessions and sockets are aborted.
MemoryCritical ==
    /\ phase = "join" /\ flow # NoFlow /\ flow.socket # "closed"
    /\ flow' = Aborted
    /\ tasks' = IF Running(flow.connection) THEN Without(flow.connection) ELSE tasks
    /\ UNCHANGED <<client, wire, phase>>

\* Every ended session is joined; the socket of one that failed is aborted.
Join ==
    /\ phase = "join"
    /\ tasks' = [c \in DOMAIN tasks \ Ended |-> tasks[c]]
    /\ flow' = IF Failed = {} THEN flow ELSE Aborted
    /\ phase' = IF flow = NoFlow THEN "select" ELSE "recv"
    /\ UNCHANGED <<client, wire>>

MayReceive == flow.socket \in {"open", "finWait"} \/ flow.rx > 0

InputOver == ~MayReceive /\ flow.socket # "syn"

Taken == Least2(flow.rx, Chunk)

ReceiveChunk ==
    /\ phase = "recv"
    /\ flow.rx > 0 /\ flow.input
    /\ Running(flow.connection) /\ Len(flow.in) < Queue
    /\ flow' = [flow EXCEPT !.in = Append(@, Taken), !.rx = @ - Taken]
    /\ UNCHANGED <<client, wire, tasks, phase>>

\* Data nobody will read any more aborts the connection; so does a handshake
\* that takes more than 30 seconds.
ReceiveAborts ==
    /\ phase = "recv"
    /\ \/ flow.rx > 0 /\ (~flow.input \/ ~Running(flow.connection))
       \/ flow.socket = "syn"
    /\ flow' = Aborted
    /\ phase' = "send"
    /\ UNCHANGED <<client, wire, tasks>>

ReceiveDone ==
    /\ phase = "recv"
    /\ flow.rx = 0 \/ (flow.input /\ Running(flow.connection) /\ Len(flow.in) = Queue)
    /\ flow' = [flow EXCEPT !.input = @ /\ ~InputOver]
    /\ phase' = "send"
    /\ UNCHANGED <<client, wire, tasks>>

CanSend == flow.socket \in {"open", "closeWait"} /\ flow.tx < Buffer
\* Mutant: only a shutdown ends the output, not the end of the session.
DisconnectedShut == IF Running(flow.connection) THEN tasks[flow.connection].shut ELSE FALSE
Disconnected == IF Running(flow.connection) THEN tasks[flow.connection].shut ELSE TRUE

Left(n) == flow.pending - n

SendChunk ==
    /\ phase = "send" /\ CanSend
    /\ \/ /\ flow.pending > 0
          /\ LET n == Least2(flow.pending, Buffer - flow.tx)
             IN  flow' = [flow EXCEPT !.tx = @ + n, !.pending = Left(n)]
       \/ /\ flow.pending = 0 /\ ~flow.eof /\ flow.out # <<>>
          /\ flow' = [flow EXCEPT !.pending = Head(flow.out), !.out = Tail(@)]
       \/ /\ flow.pending = 0 /\ ~flow.eof /\ flow.out = <<>> /\ Disconnected
          /\ flow' = [flow EXCEPT !.eof = TRUE]
    /\ UNCHANGED <<client, wire, tasks, phase>>

\* Mutant: the socket is closed while bytes wait in the queue.
CloseNowAny == flow.eof \/ Disconnected
CloseNow == flow.eof /\ flow.pending = 0

SendDone ==
    /\ phase = "send"
    /\ \/ ~CanSend
       \/ CloseNow
       \/ flow.pending = 0 /\ flow.out = <<>> /\ ~Disconnected
    /\ flow' = [flow EXCEPT !.socket = IF ~(CanSend /\ CloseNow) THEN @
                                       ELSE IF @ = "open" THEN "finWait" ELSE "lastAck"]
    /\ phase' = "retire"
    /\ UNCHANGED <<client, wire, tasks>>

\* A flow whose socket is closed leaves the table, and its session is aborted.
Retire ==
    /\ phase = "retire"
    /\ IF flow.socket = "closed"
       THEN /\ flow' = NoFlow
            /\ tasks' = IF Running(flow.connection) THEN Without(flow.connection) ELSE tasks
       ELSE UNCHANGED <<flow, tasks>>
    /\ phase' = "select"
    /\ UNCHANGED <<client, wire>>

LoopStep ==
    \/ Receive \/ Wake \/ MemoryCritical \/ Join
    \/ ReceiveChunk \/ ReceiveAborts \/ ReceiveDone
    \/ SendChunk \/ SendDone \/ Retire

ClientStep == Connect \/ Connected \/ SendData \/ SendFin \/ SendReset \/ ResetSeen

SessionStep(c) ==
    \/ \E n \in 1..Chunk : Read(c, n) \/ Write(c, n)
    \/ ReadEof(c) \/ Shutdown(c)
    \/ \E result \in {"done", "failed"} : End(c, result)

Next ==
    \/ ClientStep \/ DeliverData \/ DeliverFin
    \/ LoopStep
    \/ \E c \in DOMAIN tasks : SessionStep(c)

Spec == Init /\ [][Next]_vars

-----------------------------------------------------------------------------
Flowing == flow # NoFlow /\ flow.socket # "closed"

\* What the client sent and the session has not read is in the socket, the
\* queue or the rest of a chunk: the retain loop and poll_read lose nothing and
\* deliver nothing twice.  The session reads EOF only after the client's FIN,
\* with everything the client sent before it read.
UploadConserved ==
    /\ Flowing /\ Running(flow.connection) /\ Mine =>
          client.sent = Unread + flow.rx + Total(flow.in)
                          + tasks[flow.connection].reading + tasks[flow.connection].read
    /\ \A c \in DOMAIN tasks : tasks[c].eof /\ Mine /\ Flowing /\ flow.connection = c =>
          /\ client.state # "open"
          /\ client.state \in {"fin", "closed"} => tasks[c].read = client.sent

\* What the session wrote and the client has not got is in the queue, the
\* chunk being sent or the socket, also after the session ended.  The client sees
\* a clean end only with every byte the session wrote.
DownloadConserved ==
    /\ Flowing /\ Mine /\ client.state # "reset" =>
          flow.wrote = Total(flow.out) + flow.pending + flow.tx + client.got
    /\ Mine /\ client.state \in {"ended", "closed"} => client.got = flow.wrote
=============================================================================
