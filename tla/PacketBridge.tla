---------------------------- MODULE PacketBridge ----------------------------
(***************************************************************************)
(* The packets of a hosted tunnel on their way from the core to the host   *)
(* (PacketWake, HostPackets and PacketsOut of crates/ffi/src/host.rs,      *)
(* meta_read_packet_v1; packet_ready and drainPackets of the iOS tunnel).  *)
(*                                                                         *)
(* The core's writer queues a packet and then asks the wake flag whether   *)
(* the host must be told.  The host runs drain turns: at most Turn reads,  *)
(* then another turn, until a read finds nothing.  A read that finds the   *)
(* queue empty clears the flag and looks again; the writer runs between    *)
(* these steps.  Packets are numbered in the order they were queued.       *)
(***************************************************************************)
EXTENDS Naturals, Sequences

CONSTANTS
    Handle,     \* the handles ever created, each with its own queue
    Hooked,     \* the handles created with a packet_ready hook
    QueueCap,   \* 256 packets
    Turn        \* 64 reads in one turn of drainPackets

ASSUME TurnAssumption == Turn \in Nat \ {0}
ASSUME HookedAssumption == Hooked \subseteq Handle

VARIABLES
    sent,       \* handle -> packets the core has queued so far
    output,     \* handle -> packets in the channel to the host
    pending,    \* handle -> packet out of the channel, not copied yet: <<>> or <<p>>
    wake,       \* handle -> PacketWake's flag
    sender,     \* handle -> place of HostPackets::send
    reader,     \* handle -> place of PacketsOut::fill in the read under way
    turns,      \* handle -> drain turns waiting on the host's queue
    left,       \* handle -> reads left in the turn under way, 0 when none is
    sized,      \* handle -> the host was told the length of the next packet
    lastRead    \* handle -> the last result of meta_read_packet_v1 and its packet

bridgeVars == <<sent, output, pending, wake, sender, reader, turns, left, sized, lastRead>>

\* "off": the tunnel is not started; "gone": HostPackets is dropped
SenderState == {"off", "idle", "queued", "callback", "gone"}
ReaderState == {"none", "empty", "rearmed", "found"}

BridgeInit ==
    /\ sent = [h \in Handle |-> 0]
    /\ output = [h \in Handle |-> <<>>] /\ pending = [h \in Handle |-> <<>>]
    /\ wake = [h \in Handle |-> FALSE]
    /\ sender = [h \in Handle |-> "off"] /\ reader = [h \in Handle |-> "none"]
    /\ turns = [h \in Handle |-> 0] /\ left = [h \in Handle |-> 0]
    /\ sized = [h \in Handle |-> FALSE]
    /\ lastRead = [h \in Handle |-> [status |-> "none", packet |-> 0]]

\* What the host can still read, in order.
Readable(h) == pending[h] \o output[h]

-----------------------------------------------------------------------------
(* The writer task *)

\* HostPackets::send up to its first await: the channel has room.
Send(h) ==
    /\ sender[h] = "idle"
    /\ Len(output[h]) < QueueCap
    /\ sent' = [sent EXCEPT ![h] = @ + 1]
    /\ output' = [output EXCEPT ![h] = Append(@, sent'[h])]
    /\ sender' = [sender EXCEPT ![h] = "queued"]
    /\ UNCHANGED <<pending, wake, reader, turns, left, sized, lastRead>>

\* PacketWake::queued, and the call of packet_ready if it is due.
Queued(h) ==
    /\ sender[h] = "queued"
    /\ wake' = [wake EXCEPT ![h] = TRUE]
    /\ sender' = [sender EXCEPT ![h] =
                    IF ~wake[h] /\ h \in Hooked THEN "callback" ELSE "idle"]
    /\ UNCHANGED <<sent, output, pending, reader, turns, left, sized, lastRead>>

\* packet_ready of the iOS tunnel: a drain turn is put on the tunnel's queue.
PacketReady(h) ==
    /\ sender[h] = "callback"
    /\ turns' = [turns EXCEPT ![h] = @ + 1]
    /\ sender' = [sender EXCEPT ![h] = "idle"]
    /\ UNCHANGED <<sent, output, pending, wake, reader, left, sized, lastRead>>

-----------------------------------------------------------------------------
(* The host's drain turns *)

StartTurn(h) ==
    /\ turns[h] > 0 /\ left[h] = 0
    /\ turns' = [turns EXCEPT ![h] = @ - 1]
    /\ left' = [left EXCEPT ![h] = Turn]
    /\ UNCHANGED <<sent, output, pending, wake, sender, reader, sized, lastRead>>

\* Mutant: a turn that used up its reads is the last one.
NotReposted(h) == turns[h]
\* The last read of a turn puts another turn on the queue.
Reposted(h) == IF left[h] = 1 THEN turns[h] + 1 ELSE turns[h]

\* The turn after a read that returned a packet or a length.
Continue(h) ==
    /\ left' = [left EXCEPT ![h] = @ - 1]
    /\ turns' = [turns EXCEPT ![h] = Reposted(h)]

\* The turn ends: nothing is left, or the core is gone and the tunnel fails.
EndTurn(h, s) ==
    /\ left' = [left EXCEPT ![h] = 0]
    /\ reader' = [reader EXCEPT ![h] = "none"]
    /\ lastRead' = [lastRead EXCEPT ![h] = [status |-> s, packet |-> 0]]
    /\ UNCHANGED <<sent, output, pending, wake, sender, turns, sized>>

\* The packet p is copied into the host's buffer, or does not fit.  A host that
\* was told the length comes back with room for it.
CopyOut(h, p, fits) ==
    /\ sized[h] => fits
    /\ sized' = [sized EXCEPT ![h] = ~fits]
    /\ pending' = [pending EXCEPT ![h] = IF fits THEN <<>> ELSE <<p>>]
    /\ lastRead' = [lastRead EXCEPT ![h] =
          [status |-> IF fits THEN "OK" ELSE "TOO_SMALL", packet |-> IF fits THEN p ELSE 0]]

\* A read that finds a packet at once.
ReadReady(h, fits) ==
    /\ left[h] > 0 /\ reader[h] = "none"
    /\ Readable(h) # <<>>
    /\ CopyOut(h, Head(Readable(h)), fits)
    /\ output' = [output EXCEPT ![h] = IF pending[h] = <<>> THEN Tail(@) ELSE @]
    /\ Continue(h)
    /\ UNCHANGED <<sent, wake, sender, reader>>

\* A read whose first try_recv fails: the queue is empty, or closed.
ReadEmpty(h) ==
    /\ left[h] > 0 /\ reader[h] = "none"
    /\ Readable(h) = <<>>
    /\ IF sender[h] = "gone"
       THEN EndTurn(h, "ERROR")
       ELSE /\ reader' = [reader EXCEPT ![h] = "empty"]
            /\ UNCHANGED <<sent, output, pending, wake, sender, turns, left, sized, lastRead>>

\* PacketWake::emptied
Rearm(h) ==
    /\ reader[h] = "empty"
    /\ wake' = [wake EXCEPT ![h] = FALSE]
    /\ reader' = [reader EXCEPT ![h] = "rearmed"]
    /\ UNCHANGED <<sent, output, pending, sender, turns, left, sized, lastRead>>

\* Mutant: nobody looks again after the flag is cleared.
NotRechecked(h) == TRUE
\* What the second try_recv of PacketsOut::fill finds.
StillEmpty(h) == output[h] = <<>>

Recheck(h) ==
    /\ reader[h] = "rearmed"
    /\ IF StillEmpty(h)
       THEN EndTurn(h, IF sender[h] = "gone" THEN "ERROR" ELSE "WOULD_BLOCK")
       ELSE /\ pending' = [pending EXCEPT ![h] = <<Head(output[h])>>]
            /\ output' = [output EXCEPT ![h] = Tail(@)]
            /\ reader' = [reader EXCEPT ![h] = "found"]
            /\ UNCHANGED <<sent, wake, sender, turns, left, sized, lastRead>>

\* PacketWake::draining, and the packet is handed out.
Draining(h, fits) ==
    /\ reader[h] = "found"
    /\ wake' = [wake EXCEPT ![h] = TRUE]
    /\ reader' = [reader EXCEPT ![h] = "none"]
    /\ CopyOut(h, Head(pending[h]), fits)
    /\ Continue(h)
    /\ UNCHANGED <<sent, output, sender>>

-----------------------------------------------------------------------------
\* Packets wait and the host has a reason to read them: a turn waits or is
\* under way, it is being told, or the writer is about to find the flag clear.
Attended(h) ==
    \/ turns[h] > 0 \/ left[h] > 0
    \/ sender[h] = "callback"
    \/ sender[h] = "queued" /\ ~wake[h]

\* No wakeup is lost: while the tunnel runs, a packet that waits is attended
\* to, wherever the writer and the reader stand ("coalesced notifications never
\* lose the last packet").
NoLostWakeup ==
    \A h \in Hooked :
       Readable(h) # <<>> /\ sender[h] # "gone" => Attended(h)
=============================================================================
