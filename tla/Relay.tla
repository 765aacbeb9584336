------------------------------- MODULE Relay -------------------------------
(***************************************************************************)
(* The table of proxied connections and the TCP relays in it               *)
(* (crates/core/src/traffic.rs; relay_io, connections, close_connections   *)
(* and network_changed of crates/core/src/lib.rs).  A relay is entered     *)
(* under a limit, copies bytes until both sides ended, is cancelled by a   *)
(* close of every connection or by the stopping core and, in a hosted      *)
(* tunnel, is watched by idle_expired, which sleeps on one timer and on    *)
(* the notification of the first EOF.                                      *)
(*                                                                         *)
(* Time is counted in ticks and does not advance past a timer that is due  *)
(* or a notification not yet taken: the runtime serves them at once.       *)
(***************************************************************************)
EXTENDS Clock, FiniteSets

CONSTANTS
    Conns,      \* connections, each used once
    Limit,      \* 4096 connections
    Idle,       \* RelayLimits.idle
    HalfClosed, \* RelayLimits.half_closed
    Hosted      \* internal_host_packet_io: the limits apply

ASSUME RelayAssumption == Limit \in Nat /\ Idle \in Nat /\ HalfClosed \in Nat

Sides == {"local", "remote"}

VARIABLES
    relay,      \* every connection: where it is and what its State holds
    table,      \* Core.connections
    cancelled,  \* the connections whose own token was cancelled
    closing,    \* the snapshot a close of all connections works through
    stopped     \* Core.stop

vars == <<now, relay, table, cancelled, closing, stopped>>

NewRelay == [at |-> "new", active |-> 0, eof |-> {}, permit |-> FALSE, wake |-> 0]

Init ==
    /\ ClockInit
    /\ relay = [c \in Conns |-> NewRelay]
    /\ table = {} /\ cancelled = {} /\ closing = {}
    /\ stopped = FALSE

Relaying(c) == relay[c].at = "relaying"

\* A connection's token is a child of Core.stop: stopping cancels it, also
\* when the token is made afterwards.
IsCancelled(c) == c \in cancelled \/ stopped

-----------------------------------------------------------------------------
\* Tracker::new, in two steps: the check that the core runs ...
Check(c) ==
    /\ relay[c].at = "new"
    /\ relay' = [relay EXCEPT ![c].at = IF stopped THEN "done" ELSE "checked"]
    /\ UNCHANGED <<now, table, cancelled, closing, stopped>>

LimitOf(r) == IF r.eof # {} THEN HalfClosed ELSE Idle

\* Mutant: one connection too many.
RoomOne == Cardinality(table) <= Limit
Room == Cardinality(table) < Limit

\* ... and, under the table's lock, the limit and the entry.  The relay's
\* first poll of idle_expired sets its timer.
Enter(c) ==
    /\ relay[c].at = "checked"
    /\ IF Room
       THEN /\ table' = table \cup {c}
            /\ relay' = [relay EXCEPT ![c] = [@ EXCEPT !.at = "relaying", !.active = now, !.wake = now + Idle]]
       ELSE /\ relay' = [relay EXCEPT ![c].at = "done"]
            /\ UNCHANGED table
    /\ UNCHANGED <<now, cancelled, closing, stopped>>

\* relay_io returns: its State is gone, and the dropped tracker leaves the
\* table.  Of the reason logged, only a limit that ran out is kept.
End(c, outcome) ==
    /\ relay' = [relay EXCEPT ![c] = [NewRelay EXCEPT !.at = outcome]]
    /\ table' = table \ {c}
    /\ UNCHANGED <<now, cancelled, closing, stopped>>

\* Bytes move, either way, from a side that has not ended.
Record(c) ==
    /\ Relaying(c) /\ relay[c].eof # Sides
    /\ relay' = [relay EXCEPT ![c].active = now]
    /\ UNCHANGED <<now, table, cancelled, closing, stopped>>

\* Mutant: the watcher is not told.
NotifiedNever(r) == r.permit
\* mark_eof notifies on the first EOF only.
Notified(r) == r.permit \/ r.eof = {}

\* A read of no bytes ends one direction; the copy is done when both have.
Eof(c, side) ==
    /\ Relaying(c) /\ side \notin relay[c].eof
    /\ IF relay[c].eof = {}
       THEN /\ relay' = [relay EXCEPT ![c] = [@ EXCEPT !.eof = {side}, !.permit = Notified(relay[c])]]
            /\ UNCHANGED <<now, table, cancelled, closing, stopped>>
       ELSE End(c, "done")

\* The copy fails on either side.
Fail(c) ==
    /\ Relaying(c)
    /\ End(c, "done")

Cancel(c) ==
    /\ Relaying(c) /\ IsCancelled(c)
    /\ End(c, "done")

-----------------------------------------------------------------------------
Quiet(r) == now - r.active

Due(c) ==
    /\ Hosted /\ Relaying(c)
    /\ relay[c].permit \/ now >= relay[c].wake

Expired(r) == Quiet(r) >= LimitOf(r)

\* idle_expired wakes, by its timer or by the first EOF, and looks again.
Watch(c) ==
    /\ Due(c)
    /\ IF Expired(relay[c])
       THEN End(c, "expired")
       ELSE /\ relay' = [relay EXCEPT ![c] =
                          [@ EXCEPT !.permit = FALSE, !.wake = relay[c].active + LimitOf(relay[c])]]
            /\ UNCHANGED <<now, table, cancelled, closing, stopped>>

-----------------------------------------------------------------------------
\* close_connections and network_changed copy the table, close_connection an
\* entry of it; then the tokens of the copy are cancelled one by one.
Close(copy) ==
    /\ closing = {}
    /\ closing' = copy
    /\ UNCHANGED <<now, relay, table, cancelled, stopped>>

CancelNext(c) ==
    /\ c \in closing
    /\ cancelled' = cancelled \cup {c}
    /\ closing' = closing \ {c}
    /\ UNCHANGED <<now, relay, table, stopped>>

Stop ==
    /\ ~stopped
    /\ stopped' = TRUE
    /\ UNCHANGED <<now, relay, table, cancelled, closing>>

Tick ==
    /\ \A c \in Conns : ~Due(c)
    /\ Advance
    /\ UNCHANGED <<relay, table, cancelled, closing, stopped>>

Open(c) == Check(c) \/ Enter(c)
Copy(c) == Record(c) \/ Fail(c) \/ \E side \in Sides : Eof(c, side)

Next ==
    \/ \E c \in Conns : Open(c) \/ Copy(c) \/ Cancel(c) \/ Watch(c) \/ CancelNext(c)
    \/ \E copy \in {table} \cup {{c} : c \in table} : Close(copy)
    \/ Stop \/ Tick

Spec == Init /\ [][Next]_vars

-----------------------------------------------------------------------------
Ends == {"done", "expired"}

\* The table never holds more than its limit, and exactly the relays that
\* run: an entry neither outlives its relay, whichever way that ends, nor is
\* missing from the snapshot that a close of all connections takes.
TableIsRelays ==
    /\ IsFiniteSet(table) /\ Cardinality(table) <= Limit
    /\ table = {c \in Conns : Relaying(c)}

\* In a hosted tunnel no relay stays quiet past its limit: not when the EOF
\* that shortens the limit comes while the watcher sleeps for the long one,
\* and not when bytes moved after the timer was set.
QuietBounded ==
    Hosted => \A c \in Conns : Relaying(c) => relay[c].permit \/ Quiet(relay[c]) <= LimitOf(relay[c])

=============================================================================
