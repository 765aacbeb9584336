------------------------------ MODULE Outbound ------------------------------
(***************************************************************************)
(* Outbound connections over the two multiplexed transports, up to their   *)
(* relay: the pool of gRPC connections (crates/protocol/src/grpc.rs), the  *)
(* Hysteria2 client a proxy keeps in a slot (hysteria2_client and          *)
(* hysteria2_stream in crates/core/src/lib.rs), dialing with its timeout,  *)
(* and network_changed, which cancels the relays and drops both.           *)
(*                                                                         *)
(* One pool key and one Hysteria2 proxy.  A multiplexed connection is      *)
(* bound to the network it was dialed on; whether it still works is up to  *)
(* that network and the peer.                                              *)
(***************************************************************************)
EXTENDS Relay, Functions

CONSTANTS
    Options,        \* GrpcOptions: max connections, min streams, max streams
    None            \* no holder, no connection

ASSUME OutboundAssumption ==
    /\ IsFiniteSet(Conns) /\ None \notin Conns /\ None \notin Nat
    /\ Options \subseteq [maxConnections : Nat, minStreams : Nat, maxStreams : Nat]

VARIABLES
    options,        \* the options of the proxy
    network,        \* the network the device is on
    changing,       \* where network_changed is
    dial,           \* each connection's dial
    holder,         \* per kind, who holds connect_lock, the slot's lock
    links,          \* multiplexed connections: number -> [kind, net, alive, active]
    pool,           \* POOL: the gRPC connections new streams may join
    slot            \* the proxy's entry in Core.hysteria2

outVars == <<options, network, changing, dial, holder, links, pool, slot>>

Kinds == {"grpc", "hysteria2"}
NoDial == [at |-> "idle", kind |-> None, net |-> 0, link |-> None, fresh |-> FALSE]

OutInit ==
    /\ Init
    /\ options \in Options
    /\ network = 1 /\ changing = "no"
    /\ dial = [c \in Conns |-> NoDial]
    /\ holder = [k \in Kinds |-> None]
    /\ links = [i \in {} |-> None] /\ pool = {} /\ slot = None

Alive(i) == i # None /\ links[i].alive
Holds(c) == \E k \in Kinds : holder[k] = c
Free(c) == [k \in Kinds |-> IF holder[k] = c THEN None ELSE holder[k]]

\* A lease or a stream counts in its connection's `active'.
Leased(c) == dial[c].kind = "grpc" /\ dial[c].link # None
Counted(i, n) == [links EXCEPT ![i].active = @ + n]
Released(c) == IF Leased(c) THEN Counted(dial[c].link, -1) ELSE links

NewLink(c) == Cardinality(DOMAIN links) + 1
Linked(c, active) ==
    [i \in DOMAIN links \cup {NewLink(c)} |->
        IF i \in DOMAIN links THEN links[i]
        ELSE [kind |-> dial[c].kind, net |-> dial[c].net, alive |-> TRUE, active |-> active]]

DialIs(c, kind, at) == dial[c].kind = kind /\ dial[c].at = at
To(c, at) == [dial EXCEPT ![c].at = at]

-----------------------------------------------------------------------------
(***************************************************************************)
(* grpc::connect.  The transport stream is dialed first, and dropped when  *)
(* a pooled connection is joined.                                          *)
(***************************************************************************)
Connect(c) ==
    /\ dial[c].at = "idle" /\ ~stopped
    /\ dial' = [dial EXCEPT ![c] = [NoDial EXCEPT !.at = "dialed", !.kind = "grpc", !.net = network]]
    /\ UNCHANGED <<options, network, changing, holder, links, pool, slot>>

\* Mutant: connections are made side by side.
LockFreeAlways(k) == TRUE
LockFree(k) == holder[k] = None

Lock(c) ==
    /\ DialIs(c, "grpc", "dialed") /\ LockFree("grpc")
    /\ holder' = [holder EXCEPT !["grpc"] = c]
    /\ dial' = To(c, "locked")
    /\ UNCHANGED <<options, network, changing, links, pool, slot>>

\* Mutant: the stream that fills a connection is not counted.
ReuseLeastLoadedFull(load) ==
    \/ load = 0
    \/ IF options.maxConnections > 0
       THEN Cardinality(pool) >= options.maxConnections \/ load < options.minStreams
       ELSE options.maxStreams = 0 \/ load <= options.maxStreams
ReuseLeastLoaded(load) ==
    \/ load = 0
    \/ IF options.maxConnections > 0
       THEN Cardinality(pool) >= options.maxConnections \/ load < options.minStreams
       ELSE options.maxStreams = 0 \/ load < options.maxStreams

LeastLoaded == {i \in pool : \A j \in pool : links[i].active <= links[j].active}

\* pooled: the least loaded connection, leased at once, or none.
Pick(c) ==
    /\ DialIs(c, "grpc", "locked")
    /\ \/ \E i \in LeastLoaded :
             /\ ReuseLeastLoaded(links[i].active)
             /\ links' = Counted(i, 1)
             /\ dial' = [dial EXCEPT ![c] = [@ EXCEPT !.at = "joining", !.link = i]]
       \/ /\ \A i \in LeastLoaded : ~ReuseLeastLoaded(links[i].active)
          /\ dial' = To(c, "creating")
          /\ UNCHANGED links
    /\ UNCHANGED <<options, network, changing, holder, pool, slot>>

\* The connection is ready for a stream, or turns out to be closed: it is
\* removed and the search starts again.
Join(c) ==
    /\ DialIs(c, "grpc", "joining")
    /\ IF Alive(dial[c].link)
       THEN /\ dial' = To(c, "open")
            /\ holder' = Free(c)
            /\ UNCHANGED <<links, pool>>
       ELSE /\ dial' = [dial EXCEPT ![c] = [@ EXCEPT !.at = "locked", !.link = None]]
            /\ links' = Released(c)
            /\ pool' = pool \ {dial[c].link}
            /\ UNCHANGED holder
    /\ UNCHANGED <<options, network, changing, slot>>

\* The handshake is done: pooled, leased, and about to be ready.
Create(c) ==
    /\ DialIs(c, "grpc", "creating")
    /\ links' = Linked(c, 1)
    /\ pool' = pool \cup {NewLink(c)}
    /\ dial' = [dial EXCEPT ![c] = [@ EXCEPT !.at = "created", !.link = NewLink(c)]]
    /\ UNCHANGED <<options, network, changing, holder, slot>>

Created(c) ==
    /\ DialIs(c, "grpc", "created") /\ Alive(dial[c].link)
    /\ dial' = To(c, "open")
    /\ holder' = Free(c)
    /\ UNCHANGED <<options, network, changing, links, pool, slot>>

\* The driver of a closed connection takes it out of the pool.
DriverEnds(i) ==
    /\ ~links[i].alive
    /\ pool' = pool \ {i}
    /\ UNCHANGED <<options, network, changing, dial, holder, links, slot>>

\* A ping goes unanswered.
PingTimesOut(i) ==
    /\ i \in pool /\ links[i].alive
    /\ pool' = pool \ {i}
    /\ links' = [links EXCEPT ![i].alive = FALSE]
    /\ UNCHANGED <<options, network, changing, dial, holder, slot>>

\* The peer or the network ends a connection.
Dies(i) ==
    /\ links[i].alive
    /\ links' = [links EXCEPT ![i].alive = FALSE]
    /\ UNCHANGED <<options, network, changing, dial, holder, pool, slot>>

-----------------------------------------------------------------------------
(***************************************************************************)
(* hysteria2_stream.  The slot's lock is held over the look at the client  *)
(* and, when there is no live one, over the lookup and the handshake.      *)
(***************************************************************************)
LockSlot(c) ==
    /\ dial[c].at = "idle" \/ DialIs(c, "hysteria2", "again")
    /\ ~stopped /\ LockFree("hysteria2")
    /\ holder' = [holder EXCEPT !["hysteria2"] = c]
    /\ dial' = [dial EXCEPT ![c] = [NoDial EXCEPT !.at = "locked", !.kind = "hysteria2",
                                                  !.fresh = dial[c].at = "again"]]
    /\ UNCHANGED <<options, network, changing, links, pool, slot>>

Usable(i) == Alive(i)

LookSlot(c) ==
    /\ DialIs(c, "hysteria2", "locked")
    /\ IF Usable(slot)
       THEN /\ dial' = [dial EXCEPT ![c] = [@ EXCEPT !.at = "opening", !.link = slot]]
            /\ holder' = Free(c)
       ELSE /\ dial' = To(c, "resolving")
            /\ UNCHANGED holder
    /\ UNCHANGED <<options, network, changing, links, pool, slot>>

\* Client::connect binds its socket on the network of the moment.
Bind(c) ==
    /\ DialIs(c, "hysteria2", "resolving")
    /\ dial' = [dial EXCEPT ![c] = [@ EXCEPT !.at = "handshake", !.net = network]]
    /\ UNCHANGED <<options, network, changing, holder, links, pool, slot>>

Fill(c) ==
    /\ DialIs(c, "hysteria2", "handshake")
    /\ links' = Linked(c, 0)
    /\ slot' = NewLink(c)
    /\ dial' = [dial EXCEPT ![c] = [@ EXCEPT !.at = "opening", !.link = NewLink(c)]]
    /\ holder' = Free(c)
    /\ UNCHANGED <<options, network, changing, pool>>

\* Client::tcp.  A client that died since is replaced, once.
OpenTcp(c) ==
    /\ DialIs(c, "hysteria2", "opening")
    /\ \/ Alive(dial[c].link) /\ dial' = To(c, "open")
       \/ ~Alive(dial[c].link) /\ ~dial[c].fresh /\ dial' = [dial EXCEPT ![c] = [@ EXCEPT !.at = "again", !.link = None]]
    /\ UNCHANGED <<options, network, changing, holder, links, pool, slot>>

Abandoned(c) == Free(c)

\* A step fails, the dial times out or the core stops: the future is dropped
\* wherever it waits, and with it the lock, the lease and the stream.
Abandon(c) ==
    /\ dial[c].at \notin {"idle", "done"} /\ relay[c].at = "new"
    /\ dial' = [dial EXCEPT ![c] = [NoDial EXCEPT !.at = "done"]]
    /\ links' = Released(c)
    /\ holder' = Abandoned(c)
    /\ UNCHANGED <<options, network, changing, pool, slot>>

-----------------------------------------------------------------------------
(***************************************************************************)
(* network_changed, after the device moved.                                *)
(***************************************************************************)
Moves ==
    /\ changing = "no"
    /\ Close(table)
    /\ network' = network + 1
    /\ changing' = "cancel"
    /\ UNCHANGED <<options, dial, holder, links, pool, slot>>

ResetPool ==
    /\ changing = "cancel" /\ closing = {}
    /\ pool' = {}
    /\ changing' = "slots"
    /\ UNCHANGED <<options, network, dial, holder, links, slot>>

\* The slot is taken and its client closed, unless its lock is held.
TakeSlot ==
    /\ changing = "slots"
    /\ changing' = "no"
    /\ IF holder["hysteria2"] = None /\ slot # None
       THEN /\ slot' = None
            /\ links' = [links EXCEPT ![slot].alive = FALSE]
       ELSE UNCHANGED <<slot, links>>
    /\ UNCHANGED <<options, network, dial, holder, pool>>

\* Running::shutdown.  A client whose slot is gone closes with its streams.
Shutdown ==
    /\ Stop
    /\ slot' = None /\ pool' = {}
    /\ UNCHANGED <<options, network, changing, dial, holder, links>>

-----------------------------------------------------------------------------
DialStep(c) ==
    \/ Connect(c) \/ Lock(c) \/ Pick(c) \/ Join(c) \/ Create(c) \/ Created(c)
    \/ LockSlot(c) \/ LookSlot(c) \/ Bind(c) \/ Fill(c) \/ OpenTcp(c)
    \/ Abandon(c)

LinkStep(i) == DriverEnds(i) \/ PingTimesOut(i) \/ Dies(i)

Over(c) == relay[c].at \in Ends

\* A relay begins on an open stream and drops it in the step it ends.
RelayStep(c) ==
    /\ \/ dial[c].at = "open" /\ Check(c)
       \/ Enter(c) \/ Copy(c) \/ Cancel(c) \/ Watch(c)
    /\ IF Over(c)'
       THEN /\ links' = Released(c)
            /\ dial' = [dial EXCEPT ![c] = [NoDial EXCEPT !.at = "done"]]
            /\ UNCHANGED <<options, network, changing, holder, pool, slot>>
       ELSE UNCHANGED outVars

OutNext ==
    \/ \E c \in Conns : DialStep(c) /\ UNCHANGED vars
    \/ \E i \in DOMAIN links : LinkStep(i) /\ UNCHANGED vars
    \/ \E c \in Conns : RelayStep(c)
    \/ \E c \in Conns : CancelNext(c) /\ UNCHANGED outVars
    \/ (ResetPool \/ TakeSlot) /\ UNCHANGED vars
    \/ Moves
    \/ Shutdown
    \/ Tick /\ UNCHANGED outVars

OutSpec == OutInit /\ [][OutNext]_<<vars, outVars>>

-----------------------------------------------------------------------------
\* The pool keeps max-connections, and no connection carries more than
\* max-streams, though the check and the new connection are an await apart.  The
\* load by which streams are spread and connections opened is the number of dials
\* and relays that hold a stream, through closed connections, failed requests and
\* dials dropped half way.
PoolWithinLimits ==
    /\ \A i \in DOMAIN links :
          links[i].active = Cardinality({c \in Conns : Leased(c) /\ dial[c].link = i})
    /\ IF options.maxConnections > 0
       THEN Cardinality(pool) <= options.maxConnections
       ELSE options.maxStreams > 0 => \A i \in DOMAIN links : links[i].active <= options.maxStreams

\* A proxy of a running core has one Hysteria2 connection: a live client is the
\* one in the slot.
OneClient == ~stopped => \A i \in DOMAIN links : links[i].kind = "hysteria2" /\ links[i].alive => slot = i

=============================================================================
