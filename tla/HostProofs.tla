----------------------------- MODULE HostProofs -----------------------------
(***************************************************************************)
(* No wakeup is lost and no callback survives stop or destroy, for every   *)
(* set of handles and host threads and every capacity.                     *)
(*                                                                         *)
(* A waiting packet is attended to because the wake flag is only set while *)
(* a turn or a callback is due, and because a reader that cleared it still *)
(* looks at the queue.  A stop that returns may have joined the worker     *)
(* itself or found its JoinHandle taken: then whoever took it has let go   *)
(* of the lock, which happens only after the worker exited.                *)
(***************************************************************************)
EXTENDS HostHandle, TLAPS

-----------------------------------------------------------------------------
(* Queues *)

\* A counter that stays has not gone down.
LEMMA AtLeast == \A n \in Nat : n >= n /\ n <= n
OBVIOUS

\* A ticket handed out stays one.
LEMMA UpTo == \A m, n \in Nat : m <= n => 0..m \subseteq 0..n
OBVIOUS

\* So does a handle.
LEMMA Below == \A g, m, n \in Nat : g < m /\ n >= m => g < n
OBVIOUS

\* The queue with nothing in it.
LEMMA EmptyQueue ==
    ASSUME NEW S
    PROVE  <<>> \in Seq(S) /\ Len(<<>>) = 0 /\ \A q \in Seq(S) : q # <<>> => Len(q) \in Nat \ {0}
OBVIOUS

\* What Append makes of a queue.
LEMMA Appended ==
    ASSUME NEW S, NEW q \in Seq(S), NEW e \in S
    PROVE  /\ Append(q, e) \in Seq(S) /\ Append(q, e) # <<>> /\ Len(Append(q, e)) = Len(q) + 1
           /\ (\A i \in 1..Len(q) : Append(q, e)[i] = q[i]) /\ Append(q, e)[Len(q) + 1] = e
OBVIOUS

\* What taking the first of a queue leaves.
LEMMA HeadAndTail ==
    ASSUME NEW S, NEW q \in Seq(S), q # <<>>
    PROVE  /\ Head(q) \in S /\ Tail(q) \in Seq(S) /\ Len(Tail(q)) = Len(q) - 1
           /\ \A i \in 1..Len(Tail(q)) : Tail(q)[i] = q[i + 1]
OBVIOUS

\* Two queues one behind the other.
LEMMA Joined ==
    ASSUME NEW S, NEW q \in Seq(S), NEW r \in Seq(S)
    PROVE  /\ q \o r \in Seq(S) /\ Len(q \o r) = Len(q) + Len(r)
           /\ \A i \in 1..(Len(q) + Len(r)) : (q \o r)[i] = IF i <= Len(q) THEN q[i] ELSE r[i - Len(q)]
OBVIOUS

LEMMA JoinedEmpty == ASSUME NEW S, NEW q \in Seq(S) PROVE q \o <<>> = q /\ <<>> \o q = q
OBVIOUS

LEMMA JoinedNothing ==
    ASSUME NEW S, NEW q \in Seq(S), NEW r \in Seq(S)
    PROVE  q \o r = <<>> <=> q = <<>> /\ r = <<>>
OBVIOUS

\* A packet that joins the last queue joins the whole.
LEMMA JoinedAppend ==
    ASSUME NEW S, NEW q \in Seq(S), NEW r \in Seq(S), NEW e \in S
    PROVE  q \o Append(r, e) = Append(q \o r, e)
OBVIOUS

\* Queues with the same elements are equal.
LEMMA SameQueue ==
    ASSUME NEW S, NEW q \in Seq(S), NEW r \in Seq(S), Len(q) = Len(r), \A i \in 1..Len(q) : q[i] = r[i]
    PROVE  q = r
OBVIOUS

\* A queue is its first and the rest.
LEMMA HeadJoined == ASSUME NEW S, NEW q \in Seq(S), q # <<>> PROVE <<Head(q)>> \o Tail(q) = q
OBVIOUS

LEMMA JoinedHead ==
    ASSUME NEW S, NEW e \in S, NEW r \in Seq(S)
    PROVE  Head(<<e>> \o r) = e /\ Tail(<<e>> \o r) = r
<1>1. Head(<<e>> \o r) = e
  OBVIOUS
<1>2. Tail(<<e>> \o r) = r
  OBVIOUS
<1> QED BY <1>1, <1>2, Zenon

\* A queue of one.
LEMMA OnlyHead ==
    ASSUME NEW S, NEW q \in Seq(S), q # <<>>, Len(q) <= 1
    PROVE  \E e \in S : q = <<e>> /\ Head(q) = e
<1>1. Len(q) = 1 /\ Head(q) = q[1] /\ Head(q) \in S
  <2>1. PICK n \in Nat : n = Len(q) /\ n # 0
    BY EmptyQueue, Zenon
  <2>2. n = 1
    BY <2>1
  <2>3. Head(q) = q[1]
    OBVIOUS
  <2> QED BY <2>1, <2>2, <2>3, HeadAndTail, Zenon
<1>2. PICK e \in S : e = q[1] /\ e = Head(q)
  BY <1>1, Zenon
<1>3. <<e>> \in Seq(S) /\ Len(<<e>>) = 1 /\ <<e>>[1] = e
  OBVIOUS
<1>4. \A i \in 1..Len(q) : q[i] = <<e>>[i]
  BY <1>1, <1>2, <1>3
<1>5. q = <<e>>
  BY <1>1, <1>3, <1>4, SameQueue, Zenon
<1> QED BY <1>2, <1>5, Zenon

USE TurnAssumption, HookedAssumption, HandleAssumption, CallbackAssumption, LogCapAssumption

-----------------------------------------------------------------------------
(* The inductive invariant *)

BridgeTypeOK ==
    /\ sent \in [Handle -> Nat] /\ turns \in [Handle -> Nat] /\ left \in [Handle -> Nat]
    /\ output \in [Handle -> Seq(Nat)] /\ pending \in [Handle -> Seq(Nat)]
    /\ wake \in [Handle -> BOOLEAN]
    /\ sender \in [Handle -> SenderState] /\ reader \in [Handle -> ReaderState]

\* The host has been told, or is being told.
Told(h) == turns[h] > 0 \/ sender[h] = "callback"
Waiting(h) == output[h] # <<>> \/ pending[h] # <<>>

BridgeOK(h) ==
    /\ h \in Hooked /\ sender[h] # "gone" =>
          /\ Waiting(h) => Attended(h)
          /\ wake[h] => Told(h) \/ left[h] > 0
          /\ reader[h] = "rearmed" /\ wake[h] => Told(h)
    /\ reader[h] # "none" => left[h] > 0
    /\ reader[h] \in {"empty", "rearmed"} => pending[h] = <<>>
    /\ reader[h] = "found" => pending[h] # <<>>
    /\ sender[h] = "off" => ~Waiting(h) /\ ~wake[h]

BridgeInv == BridgeTypeOK /\ \A h \in Handle : BridgeOK(h)

WorkerState == {"none", "select", "changing", "starting", "dropping", "unwinding"} \union Exited

IsCall(c) == c = [fn |-> c.fn, h |-> c.h, at |-> c.at, status |-> c.status,
                  reply |-> c.reply, ticket |-> c.ticket]
CallsTypeOK == DOMAIN call = Thread /\ \A t \in Thread : IsCall(call[t])

HandleTypeOK ==
    /\ registry \subseteq Handle /\ next \in Nat
    /\ worker \in [Handle -> WorkerState]
    /\ taken \in [Handle -> BOOLEAN] /\ fd \in [Handle -> BOOLEAN]
    /\ locker \in [Handle -> SUBSET Thread]
    /\ DOMAIN queries = Handle /\ DOMAIN protecting = Handle
    /\ CallsTypeOK

WorkerOK(h) ==
    /\ worker[h] \in Exited => sender[h] = "gone" /\ queries[h] = {} /\ protecting[h] = {}
    /\ protecting[h] \subseteq queries[h]
    /\ h >= next => worker[h] = "none"
    /\ worker[h] = "none" => sender[h] = "off"
    /\ h \notin registry => worker[h] \in Exited \union {"none"}
    /\ fd[h] => sender[h] = "gone"
    /\ taken[h] /\ locker[h] = {} => worker[h] \in Exited

CallOK(t) ==
    /\ call[t].at = "waiting" => call[t].fn \notin Stops
    /\ call[t].at \in {"locking", "joining", "joined"} => call[t].h \in Handle
    /\ call[t].at = "joined" => worker[call[t].h] \in Exited
    /\ call[t].at = "idle" /\ call[t].fn \in Stops /\ call[t].status = "OK" =>
          call[t].h \in Handle /\ worker[call[t].h] \in Exited

HandleInv ==
    /\ HandleTypeOK
    /\ \A h \in Handle : WorkerOK(h)
    /\ \A t \in Thread : CallOK(t)

IInv == BridgeInv /\ HandleInv

-----------------------------------------------------------------------------
(* The packet bridge *)

\* Something is readable when a packet is pending or in the channel.
LEMMA ReadableWaiting ==
  ASSUME BridgeTypeOK, NEW h \in Handle
  PROVE  /\ Readable(h) \in Seq(Nat)
         /\ Readable(h) # <<>> <=> Waiting(h)
<1>1. pending[h] \in Seq(Nat) /\ output[h] \in Seq(Nat)
  BY Zenon DEF BridgeTypeOK
<1> QED BY <1>1, Joined, JoinedNothing DEF Readable, Waiting

LEMMA BridgeInitInv == HostInit => BridgeInv
<1> SUFFICES ASSUME HostInit PROVE BridgeInv
  BY Zenon
<1>1. <<>> \in Seq(Nat)
  BY EmptyQueue, Zenon
<1>2. BridgeTypeOK
  BY <1>1, Zenon DEF HostInit, BridgeInit, BridgeTypeOK, SenderState, ReaderState
<1>3. ASSUME NEW h \in Handle PROVE BridgeOK(h)
  BY Zenon DEF HostInit, BridgeInit, BridgeOK, Waiting
<1> QED BY <1>2, <1>3, Zenon DEF BridgeInv

-----------------------------------------------------------------------------
(* Calls *)

\* No worker comes back.
ExitIsFinal == \A g \in Handle : worker[g] \in Exited => worker'[g] \in Exited

LEMMA HandleInitInv == HostInit => HandleInv
<1> SUFFICES ASSUME HostInit PROVE HandleInv
  BY Zenon
<1>1. CallsTypeOK
  BY Zenon DEF HostInit, CallsTypeOK, IsCall, NoCall
<1>2. HandleTypeOK
  BY <1>1, Zenon DEF HostInit, HandleTypeOK, WorkerState
<1>3. ASSUME NEW h \in Handle PROVE WorkerOK(h)
  BY Zenon DEF HostInit, BridgeInit, WorkerOK, Exited
<1>4. ASSUME NEW t \in Thread PROVE CallOK(t)
  BY Zenon DEF HostInit, CallOK, NoCall, Stops
<1> QED BY <1>2, <1>3, <1>4, Zenon DEF HandleInv

\* Changing fields of the record of a call.
\* The call c at the place a, with the reply a, and over with the status a.
CallAt(r, c, a) ==
    /\ IsCall(r) /\ r.fn = c.fn /\ r.h = c.h /\ r.at = a /\ r.status = c.status
    /\ r.reply = c.reply /\ r.ticket = c.ticket
CallReplied(r, c, a) ==
    /\ IsCall(r) /\ r.fn = c.fn /\ r.h = c.h /\ r.at = c.at /\ r.status = c.status
    /\ r.reply = a /\ r.ticket = c.ticket
CallOver(r, c, a) ==
    /\ IsCall(r) /\ r.fn = c.fn /\ r.h = c.h /\ r.at = "idle" /\ r.status = a /\ r.ticket = 0

LEMMA AtFields ==
  ASSUME NEW c, IsCall(c), NEW a
  PROVE  CallAt(At(c, a), c, a)
<1>1. PICK f, h, b, u, r, k :
         c = [fn |-> f, h |-> h, at |-> b, status |-> u, reply |-> r, ticket |-> k]
  BY Zenon DEF IsCall
<1>2. At(c, a) = [fn |-> f, h |-> h, at |-> a, status |-> u, reply |-> r, ticket |-> k]
  BY <1>1 DEF At
<1> QED BY <1>1, <1>2 DEF IsCall, CallAt

LEMMA ReplyFields ==
  ASSUME NEW c, IsCall(c), NEW a
  PROVE  CallReplied(WithReply(c, a), c, a)
<1>1. PICK f, h, b, u, r, k :
         c = [fn |-> f, h |-> h, at |-> b, status |-> u, reply |-> r, ticket |-> k]
  BY Zenon DEF IsCall
<1>2. WithReply(c, a) = [fn |-> f, h |-> h, at |-> b, status |-> u, reply |-> a, ticket |-> k]
  BY <1>1 DEF WithReply
<1> QED BY <1>1, <1>2 DEF IsCall, CallReplied

LEMMA EndedFields ==
  ASSUME NEW c, NEW a
  PROVE  CallOver(Ended(c, a), c, a)
BY Zenon DEF IsCall, Ended, CallOver

\* How a call may begin: it waits for a reply or a lock, or is over at once;
\* only stop and destroy do not succeed at once.
Entry(t, f, h) ==
    \E s, ticket : \E place \in {"idle", "waiting", "locking"} :
       /\ Enter(t, f, h, place, s, ticket)
       /\ f \in Stops => (place = "locking" \/ (place = "idle" /\ s # "OK"))
       /\ place = "locking" => h \in Handle

-----------------------------------------------------------------------------
(* Every step keeps the invariant *)

handleVars == <<registry, next, worker, taken, locker, queries, protecting, fd>>

\* Every step of a host thread, a worker, its queries, the packet writer and the
\* tun reader keeps the invariant: first what the steps of the bridge do, then what
\* the calls do, then one step per action.
LEMMA StepInv == IInv /\ [HostNext]_hostVars => IInv'

(* The packet bridge *)

\* A step that only touches the bridge of h leaves the others as they were.
<1>OneBridge.
    ASSUME BridgeInv, BridgeTypeOK', NEW h \in Handle, BridgeOK(h)',
           \A g \in Handle \ {h} :
              /\ output'[g] = output[g] /\ pending'[g] = pending[g] /\ wake'[g] = wake[g]
              /\ sender'[g] = sender[g] /\ reader'[g] = reader[g]
              /\ turns'[g] = turns[g] /\ left'[g] = left[g]
    PROVE  BridgeInv'
  BY <1>OneBridge DEF BridgeInv, BridgeOK, Waiting, Attended, Told

<1>SendBridge.
    ASSUME BridgeInv, NEW h \in Handle, Send(h)
    PROVE  BridgeInv'
  <2> USE <1>SendBridge
  <2>1. output[h] \in Seq(Nat) /\ sent'[h] \in Nat /\ sent' \in [Handle -> Nat]
    <3>1. output \in [Handle -> Seq(Nat)] /\ sent \in [Handle -> Nat] /\ sent' = [sent EXCEPT ![h] = @ + 1]
      BY Zenon DEF BridgeInv, BridgeTypeOK, Send
    <3> QED BY <3>1
  <2>2. Append(output[h], sent'[h]) \in Seq(Nat) /\ Append(output[h], sent'[h]) # <<>>
    BY <2>1, Appended, EmptyQueue
  <2>3. BridgeTypeOK'
    BY <2>1, <2>2, Zenon DEF BridgeInv, BridgeTypeOK, Send, SenderState
  <2>4. BridgeOK(h)
    BY Zenon DEF BridgeInv
  <2>5. /\ sender[h] = "idle" /\ sender'[h] = "queued" /\ wake'[h] = wake[h] /\ turns'[h] = turns[h]
        /\ left'[h] = left[h] /\ reader'[h] = reader[h] /\ pending'[h] = pending[h]
        /\ wake[h] \in BOOLEAN
    BY Zenon DEF Send, BridgeInv, BridgeTypeOK
  <2>6. BridgeOK(h)'
    BY <2>4, <2>5, Zenon DEF BridgeOK, Waiting, Attended, Told
  <2> QED BY <2>3, <2>6, <1>OneBridge, Zenon DEF Send, BridgeInv, BridgeTypeOK

<1>QueuedBridge.
    ASSUME BridgeInv, NEW h \in Handle, Queued(h)
    PROVE  BridgeInv'
  <2> USE <1>QueuedBridge
  <2>1. BridgeTypeOK'
    BY Zenon DEF BridgeInv, BridgeTypeOK, Queued, SenderState
  <2>2. BridgeOK(h)
    BY Zenon DEF BridgeInv
  <2>3. /\ sender[h] = "queued" /\ wake'[h] = TRUE
        /\ sender'[h] = IF ~wake[h] /\ h \in Hooked THEN "callback" ELSE "idle"
        /\ output'[h] = output[h] /\ turns'[h] = turns[h] /\ left'[h] = left[h]
        /\ reader'[h] = reader[h] /\ pending'[h] = pending[h]
    BY Zenon DEF Queued, BridgeInv, BridgeTypeOK
  <2>4. BridgeOK(h)'
    BY <2>2, <2>3, Zenon DEF BridgeOK, Waiting, Attended, Told
  <2> QED BY <2>1, <2>4, <1>OneBridge, Zenon DEF Queued, BridgeInv, BridgeTypeOK

<1>PacketReadyBridge.
    ASSUME BridgeInv, NEW h \in Handle, PacketReady(h)
    PROVE  BridgeInv'
  <2> USE <1>PacketReadyBridge
  <2>1. BridgeTypeOK'
    <3>1. BridgeTypeOK
      BY Zenon DEF BridgeInv
    <3>2. turns \in [Handle -> Nat] /\ turns' = [turns EXCEPT ![h] = @ + 1]
      BY <3>1, Zenon DEF BridgeTypeOK, PacketReady
    <3>3. turns' \in [Handle -> Nat]
      BY <3>2
    <3>4. sender' \in [Handle -> SenderState]
      BY <3>1, Zenon DEF BridgeTypeOK, PacketReady, SenderState
    <3> QED BY <3>1, <3>3, <3>4, Zenon DEF BridgeTypeOK, PacketReady
  <2>2. BridgeOK(h)
    BY Zenon DEF BridgeInv
  <2>3. /\ sender[h] = "callback" /\ sender'[h] = "idle" /\ turns'[h] > 0
        /\ wake'[h] = wake[h] /\ output'[h] = output[h] /\ left'[h] = left[h]
        /\ reader'[h] = reader[h] /\ pending'[h] = pending[h]
    BY DEF PacketReady, BridgeInv, BridgeTypeOK
  <2>4. BridgeOK(h)'
    BY <2>2, <2>3, Zenon DEF BridgeOK, Waiting, Attended, Told
  <2> QED BY <2>1, <2>4, <1>OneBridge, Zenon DEF PacketReady, BridgeInv, BridgeTypeOK

<1>StartTurnBridge.
    ASSUME BridgeInv, NEW h \in Handle, StartTurn(h)
    PROVE  BridgeInv'
  <2> USE <1>StartTurnBridge
  <2>1. BridgeTypeOK'
    <3>1. BridgeTypeOK
      BY Zenon DEF BridgeInv
    <3>2. turns' \in [Handle -> Nat] /\ left' \in [Handle -> Nat]
      <4>1. /\ turns \in [Handle -> Nat] /\ left \in [Handle -> Nat] /\ turns[h] > 0
            /\ turns' = [turns EXCEPT ![h] = @ - 1] /\ left' = [left EXCEPT ![h] = Turn]
        BY <3>1, Zenon DEF BridgeTypeOK, StartTurn
      <4> QED BY <4>1, TurnAssumption
    <3> QED BY <3>1, <3>2, Zenon DEF BridgeTypeOK, StartTurn
  <2>2. BridgeOK(h)
    BY Zenon DEF BridgeInv
  <2>3. /\ left[h] = 0 /\ left'[h] > 0
        /\ wake'[h] = wake[h] /\ output'[h] = output[h] /\ sender'[h] = sender[h]
        /\ reader'[h] = reader[h] /\ pending'[h] = pending[h]
    BY DEF StartTurn, BridgeInv, BridgeTypeOK
  <2>4. BridgeOK(h)'
    BY <2>2, <2>3 DEF BridgeOK, Waiting, Attended, Told
  <2> QED BY <2>1, <2>4, <1>OneBridge, Zenon DEF StartTurn, BridgeInv, BridgeTypeOK

\* A turn may end when nothing waits, or when no packet can come any more.
<1>EndTurnBridge.
    ASSUME BridgeInv, NEW h \in Handle, NEW s, EndTurn(h, s),
           \/ sender[h] \in {"gone", "off"}
           \/ reader[h] = "rearmed" /\ ~Waiting(h)
    PROVE  BridgeInv'
  <2> USE <1>EndTurnBridge
  <2>1. BridgeTypeOK'
    BY Zenon DEF BridgeInv, BridgeTypeOK, EndTurn, ReaderState
  <2>2. BridgeOK(h)
    BY Zenon DEF BridgeInv
  <2>3. /\ reader'[h] = "none" /\ turns'[h] = turns[h]
        /\ wake'[h] = wake[h] /\ output'[h] = output[h] /\ sender'[h] = sender[h]
        /\ pending'[h] = pending[h]
    BY Zenon DEF EndTurn, BridgeInv, BridgeTypeOK
  <2>4. BridgeOK(h)'
    BY <2>2, <2>3, Zenon DEF BridgeOK, Waiting, Attended, Told
  <2> QED BY <2>1, <2>4, <1>OneBridge, Zenon DEF EndTurn, BridgeInv, BridgeTypeOK

\* After a read that handed something out the turn goes on or is put on the queue.
<1>ContinueGoesOn.
    ASSUME BridgeTypeOK, NEW h \in Handle, left[h] > 0, Continue(h)
    PROVE  /\ left' \in [Handle -> Nat] /\ turns' \in [Handle -> Nat]
           /\ left'[h] > 0 \/ turns'[h] > 0
           /\ \A g \in Handle \ {h} : left'[g] = left[g] /\ turns'[g] = turns[g]
  <2> USE <1>ContinueGoesOn
  <2>1. left[h] \in Nat /\ turns[h] \in Nat
    BY Zenon DEF BridgeTypeOK
  <2>2. Reposted(h) \in Nat /\ (left[h] = 1 => Reposted(h) > 0)
    BY <2>1 DEF Reposted
  <2> QED BY <2>1, <2>2 DEF BridgeTypeOK, Continue

<1>ReadReadyBridge.
    ASSUME BridgeInv, NEW h \in Handle, NEW fits \in BOOLEAN, ReadReady(h, fits)
    PROVE  BridgeInv'
  <2> USE <1>ReadReadyBridge
  <2>1. BridgeTypeOK /\ BridgeOK(h)
    BY Zenon DEF BridgeInv
  <2>2. Readable(h) \in Seq(Nat) /\ Readable(h) # <<>> /\ Waiting(h)
    BY <2>1, ReadableWaiting, Zenon DEF ReadReady
  <2> DEFINE p == Head(Readable(h))
  <2>3. p \in Nat
    BY <2>2, HeadAndTail, Zenon
  <2>4. <<>> \in Seq(Nat) /\ <<p>> \in Seq(Nat)
    BY <2>3, EmptyQueue
  <2>5. pending' \in [Handle -> Seq(Nat)]
    BY <2>1, <2>4, Zenon DEF ReadReady, CopyOut, BridgeTypeOK
  <2>6. output' \in [Handle -> Seq(Nat)]
    <3>1. pending[h] = <<>> => Tail(output[h]) \in Seq(Nat)
      <4>1. output[h] \in Seq(Nat) /\ (pending[h] = <<>> => output[h] # <<>>)
        BY <2>1, <2>2, Zenon DEF Waiting, BridgeTypeOK
      <4> QED BY <4>1, HeadAndTail
    <3> QED BY <2>1, <3>1, Zenon DEF ReadReady, BridgeTypeOK
  <2>7. Continue(h) /\ left[h] > 0
    BY Zenon DEF ReadReady
  <2>8. /\ left' \in [Handle -> Nat] /\ turns' \in [Handle -> Nat]
        /\ left'[h] > 0 \/ turns'[h] > 0
        /\ \A g \in Handle \ {h} : left'[g] = left[g] /\ turns'[g] = turns[g]
    BY <2>1, <2>7, <1>ContinueGoesOn, Zenon
  <2>9. BridgeTypeOK'
    BY <2>1, <2>5, <2>6, <2>8, Zenon DEF ReadReady, BridgeTypeOK
  <2>10. /\ reader[h] = "none" /\ reader' = reader /\ wake' = wake /\ sender' = sender
    BY Zenon DEF ReadReady
  <2>11. BridgeOK(h)'
    BY <2>1, <2>2, <2>8, <2>10, Zenon DEF BridgeOK, Waiting, Attended, Told
  <2>12. \A g \in Handle \ {h} : output'[g] = output[g] /\ pending'[g] = pending[g]
    BY <2>1, Zenon DEF ReadReady, CopyOut, BridgeTypeOK
  <2> QED BY <2>8, <2>9, <2>10, <2>11, <2>12, <1>OneBridge, Zenon

<1>ReadEmptyBridge.
    ASSUME BridgeInv, NEW h \in Handle, ReadEmpty(h)
    PROVE  BridgeInv'
  <2> USE <1>ReadEmptyBridge
  <2>1. BridgeTypeOK /\ BridgeOK(h)
    BY Zenon DEF BridgeInv
  <2>2. ~Waiting(h)
    BY <2>1, ReadableWaiting, Zenon DEF ReadEmpty
  <2>3. CASE sender[h] = "gone"
    BY <2>3, <1>EndTurnBridge, Zenon DEF ReadEmpty
  <2>4. CASE sender[h] # "gone"
    <3>1. /\ left[h] > 0 /\ reader' = [reader EXCEPT ![h] = "empty"]
          /\ UNCHANGED <<sent, output, pending, wake, sender, turns, left, sized, lastRead>>
      BY <2>4, Zenon DEF ReadEmpty
    <3>2. BridgeTypeOK'
      BY <2>1, <3>1, Zenon DEF BridgeTypeOK, ReaderState
    <3>3. reader'[h] = "empty"
      BY <2>1, <3>1, Zenon DEF BridgeTypeOK
    <3>4. BridgeOK(h)'
      BY <2>1, <2>2, <3>1, <3>3, Zenon DEF BridgeOK, Waiting, Attended, Told
    <3> QED BY <2>1, <3>1, <3>2, <3>4, <1>OneBridge, Zenon DEF BridgeTypeOK
  <2> QED BY <2>3, <2>4, Zenon

<1>RearmBridge.
    ASSUME BridgeInv, NEW h \in Handle, Rearm(h)
    PROVE  BridgeInv'
  <2> USE <1>RearmBridge
  <2>1. BridgeTypeOK'
    BY Zenon DEF BridgeInv, BridgeTypeOK, Rearm, ReaderState
  <2>2. BridgeOK(h)
    BY Zenon DEF BridgeInv
  <2>3. /\ reader[h] = "empty" /\ reader'[h] = "rearmed" /\ wake'[h] = FALSE
        /\ output'[h] = output[h] /\ sender'[h] = sender[h] /\ pending'[h] = pending[h]
        /\ turns'[h] = turns[h] /\ left'[h] = left[h]
    BY Zenon DEF Rearm, BridgeInv, BridgeTypeOK
  <2>4. BridgeOK(h)'
    BY <2>2, <2>3, Zenon DEF BridgeOK, Waiting, Attended, Told
  <2> QED BY <2>1, <2>4, <1>OneBridge, Zenon DEF Rearm, BridgeInv, BridgeTypeOK

<1>RecheckBridge.
    ASSUME BridgeInv, NEW h \in Handle, Recheck(h)
    PROVE  BridgeInv'
  <2> USE <1>RecheckBridge
  <2>1. BridgeTypeOK /\ BridgeOK(h)
    BY Zenon DEF BridgeInv
  <2>2. reader[h] = "rearmed" /\ left[h] > 0 /\ pending[h] = <<>>
    BY <2>1, Zenon DEF Recheck, BridgeOK
  <2>3. CASE output[h] = <<>>
    <3>1. PICK s : EndTurn(h, s)
      BY <2>3, Zenon DEF Recheck, StillEmpty
    <3>2. ~Waiting(h)
      BY <2>2, <2>3, Zenon DEF Waiting
    <3> QED BY <2>2, <3>1, <3>2, <1>EndTurnBridge, Zenon
  <2>4. CASE output[h] # <<>>
    <3>1. /\ pending' = [pending EXCEPT ![h] = <<Head(output[h])>>]
          /\ output' = [output EXCEPT ![h] = Tail(@)]
          /\ reader' = [reader EXCEPT ![h] = "found"]
          /\ UNCHANGED <<sent, wake, sender, turns, left, sized, lastRead>>
      BY <2>4, Zenon DEF Recheck, StillEmpty
    <3>2. Head(output[h]) \in Nat /\ Tail(output[h]) \in Seq(Nat)
      BY <2>1, <2>4, HeadAndTail, ZenonT(60) DEF BridgeTypeOK
    <3>3. <<Head(output[h])>> \in Seq(Nat) /\ <<Head(output[h])>> # <<>>
      BY <3>2
    <3>4. BridgeTypeOK'
      BY <2>1, <3>1, <3>2, <3>3, Zenon DEF BridgeTypeOK, ReaderState
    <3>5. reader'[h] = "found" /\ pending'[h] # <<>> /\ Waiting(h)
      BY <2>1, <2>4, <3>1, <3>3, Zenon DEF BridgeTypeOK, Waiting
    <3>6. BridgeOK(h)'
      BY <2>1, <2>2, <3>1, <3>5, Zenon DEF BridgeOK, Waiting, Attended, Told
    <3> QED BY <2>1, <3>1, <3>4, <3>6, <1>OneBridge, Zenon DEF BridgeTypeOK
  <2> QED BY <2>3, <2>4, Zenon

<1>DrainingBridge.
    ASSUME BridgeInv, NEW h \in Handle, NEW fits \in BOOLEAN, Draining(h, fits)
    PROVE  BridgeInv'
  <2> USE <1>DrainingBridge
  <2>1. BridgeTypeOK /\ BridgeOK(h)
    BY Zenon DEF BridgeInv
  <2>2. reader[h] = "found" /\ left[h] > 0 /\ pending[h] # <<>> /\ Continue(h)
    BY <2>1, Zenon DEF Draining, BridgeOK
  <2>3. Head(pending[h]) \in Nat
    <3>1. pending[h] \in Seq(Nat) /\ pending[h] # <<>>
      BY <2>1, <2>2, Zenon DEF BridgeTypeOK
    <3> QED BY <3>1, HeadAndTail
  <2>4. <<>> \in Seq(Nat) /\ <<Head(pending[h])>> \in Seq(Nat)
    BY <2>3, EmptyQueue
  <2>5. /\ left' \in [Handle -> Nat] /\ turns' \in [Handle -> Nat]
        /\ left'[h] > 0 \/ turns'[h] > 0
        /\ \A g \in Handle \ {h} : left'[g] = left[g] /\ turns'[g] = turns[g]
    BY <2>1, <2>2, <1>ContinueGoesOn, Zenon
  <2>6. BridgeTypeOK'
    BY <2>1, <2>4, <2>5, Zenon DEF Draining, CopyOut, BridgeTypeOK, ReaderState
  <2>7. /\ reader'[h] = "none" /\ output' = output /\ sender' = sender /\ sender[h] # "off"
        /\ \A g \in Handle \ {h} :
              pending'[g] = pending[g] /\ wake'[g] = wake[g] /\ reader'[g] = reader[g]
    BY <2>1, <2>2, Zenon DEF Draining, CopyOut, BridgeTypeOK, BridgeOK, Waiting
  <2>8. BridgeOK(h)'
    BY <2>1, <2>5, <2>7, Zenon DEF BridgeOK, Waiting, Attended, Told
  <2> QED BY <2>5, <2>6, <2>7, <2>8, <1>OneBridge, Zenon

\* A step that leaves the bridge alone.
<1>BridgeUnchanged. BridgeInv /\ UNCHANGED bridgeVars => BridgeInv'
  BY Zenon DEF BridgeInv, BridgeTypeOK, BridgeOK, Waiting, Attended, Told, bridgeVars

(* Calls *)

\* Calls that are not under way here keep what holds of them.
<1>OtherCalls.
    ASSUME HandleInv, ExitIsFinal, NEW t \in Thread,
           /\ call'[t].fn = call[t].fn /\ call'[t].h = call[t].h
           /\ call'[t].at = call[t].at /\ call'[t].status = call[t].status
    PROVE  CallOK(t)'
  <2> USE <1>OtherCalls
  <2>1. CallOK(t)
    BY Zenon DEF HandleInv
  <2> QED BY <2>1, Zenon DEF CallOK, ExitIsFinal

<1>EntryCalls.
    ASSUME HandleInv, ExitIsFinal, NEW t \in Thread, NEW f, NEW h, Entry(t, f, h)
    PROVE  CallsTypeOK' /\ \A u \in Thread : CallOK(u)'
  <2> USE <1>EntryCalls
  <2>0. PICK s, ticket : \E place \in {"idle", "waiting", "locking"} :
           /\ Enter(t, f, h, place, s, ticket)
           /\ f \in Stops => (place = "locking" \/ (place = "idle" /\ s # "OK"))
           /\ place = "locking" => h \in Handle
    BY Zenon DEF Entry
  <2>1. PICK place \in {"idle", "waiting", "locking"} :
           /\ Enter(t, f, h, place, s, ticket)
           /\ f \in Stops => (place = "locking" \/ (place = "idle" /\ s # "OK"))
           /\ place = "locking" => h \in Handle
    BY <2>0, Zenon
  <2> DEFINE r == [fn |-> f, h |-> h, at |-> place, status |-> s, reply |-> "none", ticket |-> ticket]
  <2>2. IsCall(r) /\ r.fn = f /\ r.h = h /\ r.at = place /\ r.status = s
    BY Zenon DEF IsCall
  <2>3. call' = [call EXCEPT ![t] = r]
    BY <2>1, Zenon DEF Enter
  <2> HIDE DEF r
  <2>4. CallsTypeOK' /\ call'[t] = r /\ \A u \in Thread \ {t} : call'[u] = call[u]
    BY <2>2, <2>3, Zenon DEF HandleInv, HandleTypeOK, CallsTypeOK
  <2>5. CallOK(t)'
    BY <2>1, <2>2, <2>4, Zenon DEF CallOK
  <2> QED BY <2>4, <2>5, <1>OtherCalls, Zenon

\* A reply changes nothing but the reply of a waiting call.
<1>RepliedCalls.
    ASSUME HandleInv, ExitIsFinal, NEW r, DOMAIN call' = Thread,
           \A u \in Thread : call'[u] \in {call[u], WithReply(call[u], r)}
    PROVE  CallsTypeOK' /\ \A u \in Thread : CallOK(u)'
  <2> USE <1>RepliedCalls
  <2>1. ASSUME NEW u \in Thread
        PROVE  /\ IsCall(call'[u])
               /\ call'[u].fn = call[u].fn /\ call'[u].h = call[u].h
               /\ call'[u].at = call[u].at /\ call'[u].status = call[u].status
    <3>1. IsCall(call[u])
      BY Zenon DEF HandleInv, HandleTypeOK, CallsTypeOK
    <3>2. call'[u] = call[u] \/ call'[u] = WithReply(call[u], r)
      BY Zenon
    <3>3. /\ IsCall(WithReply(call[u], r))
          /\ WithReply(call[u], r).fn = call[u].fn /\ WithReply(call[u], r).h = call[u].h
          /\ WithReply(call[u], r).at = call[u].at /\ WithReply(call[u], r).status = call[u].status
      <4>1. CallReplied(WithReply(call[u], r), call[u], r)
        BY <3>1, ReplyFields, Zenon
      <4> QED BY <4>1, Zenon DEF CallReplied
    <3>4. CASE call'[u] = call[u]
      BY <3>1, <3>4, Zenon
    <3>5. CASE call'[u] = WithReply(call[u], r)
      BY <3>3, <3>5, Zenon
    <3> QED BY <3>2, <3>4, <3>5, Zenon
  <2> QED BY <2>1, <1>OtherCalls, Zenon DEF CallsTypeOK

\* A call that waited returns or moves on.
<1>ReturnCalls.
    ASSUME HandleInv, ExitIsFinal, NEW t \in Thread, NEW s, Return(t, s),
           call[t].fn \in Stops /\ s = "OK" => call[t].h \in Handle /\ worker[call[t].h] \in Exited
    PROVE  CallsTypeOK' /\ \A u \in Thread : CallOK(u)'
  <2> USE <1>ReturnCalls
  <2> DEFINE r == Ended(call[t], s)
  <2>1. IsCall(r) /\ r.fn = call[t].fn /\ r.h = call[t].h /\ r.at = "idle" /\ r.status = s
    <3>1. CallOver(Ended(call[t], s), call[t], s)
      BY EndedFields, Zenon
    <3> QED BY <3>1, Zenon DEF CallOver
  <2>2. call' = [call EXCEPT ![t] = r]
    BY Zenon DEF Return
  <2> HIDE DEF r
  <2>3. CallsTypeOK' /\ call'[t] = r /\ \A u \in Thread \ {t} : call'[u] = call[u]
    BY <2>1, <2>2, Zenon DEF HandleInv, HandleTypeOK, CallsTypeOK
  <2>4. CallOK(t)'
    BY <2>1, <2>3, Zenon DEF CallOK, ExitIsFinal
  <2> QED BY <2>3, <2>4, <1>OtherCalls, Zenon

<1>MoveCalls.
    ASSUME HandleInv, ExitIsFinal, NEW t \in Thread, NEW place \in {"joining", "joined"},
           MoveTo(t, place), call[t].h \in Handle,
           place = "joined" => worker[call[t].h] \in Exited
    PROVE  CallsTypeOK' /\ \A u \in Thread : CallOK(u)'
  <2> USE <1>MoveCalls
  <2> DEFINE r == At(call[t], place)
  <2>1. IsCall(r) /\ r.h = call[t].h /\ r.at = place
    <3>1. IsCall(call[t])
      BY Zenon DEF HandleInv, HandleTypeOK, CallsTypeOK
    <3>2. CallAt(At(call[t], place), call[t], place)
      BY <3>1, AtFields, Zenon
    <3> QED BY <3>2, Zenon DEF CallAt
  <2>2. call' = [call EXCEPT ![t] = r]
    BY Zenon DEF MoveTo
  <2> HIDE DEF r
  <2>3. CallsTypeOK' /\ call'[t] = r /\ \A u \in Thread \ {t} : call'[u] = call[u]
    BY <2>1, <2>2, Zenon DEF HandleInv, HandleTypeOK, CallsTypeOK
  <2>4. CallOK(t)'
    BY <2>1, <2>3, Zenon DEF CallOK, ExitIsFinal
  <2> QED BY <2>3, <2>4, <1>OtherCalls, Zenon

(* Steps of the bridge and of calls *)

\* The writer moves only while the worker is alive and its channel is used.
<1>SenderMoves.
    ASSUME HandleInv, UNCHANGED <<handleVars, call>>,
           \A g \in Handle : sender'[g] = sender[g] \/ sender[g] \notin {"gone", "off"}
    PROVE  HandleInv'
  <2> USE <1>SenderMoves
  <2>1. HandleTypeOK'
    BY Zenon DEF HandleInv, HandleTypeOK, CallsTypeOK, handleVars
  <2>2. ASSUME NEW g \in Handle PROVE WorkerOK(g)'
    <3>1. WorkerOK(g)
      BY Zenon DEF HandleInv
    <3> QED BY <3>1, Zenon DEF WorkerOK, handleVars
  <2>3. ASSUME NEW u \in Thread PROVE CallOK(u)'
    BY <1>OtherCalls, Zenon DEF ExitIsFinal, handleVars
  <2> QED BY <2>1, <2>2, <2>3, Zenon DEF HandleInv

<1>WriterInv.
    ASSUME IInv, NEW h \in Handle, WriterStep(h)
    PROVE  IInv'
  <2> USE <1>WriterInv
  <2>1. BridgeInv'
    BY <1>SendBridge, <1>QueuedBridge, <1>PacketReadyBridge, Zenon DEF IInv, WriterStep
  <2>2. \A g \in Handle : sender'[g] = sender[g] \/ sender[g] \notin {"gone", "off"}
    BY Zenon DEF IInv, BridgeInv, BridgeTypeOK, WriterStep, Send, Queued, PacketReady
  <2>3. UNCHANGED <<handleVars, call>>
    BY Zenon DEF WriterStep, handleVars, regVars, coreVars, workerVars
  <2> QED BY <2>1, <2>2, <2>3, <1>SenderMoves, Zenon DEF IInv

<1>DrainInv.
    ASSUME IInv, NEW h \in Handle, DrainStep(h)
    PROVE  IInv'
  <2> USE <1>DrainInv
  <2>1. BridgeInv'
    <3>1. CASE ReadRefused(h)
      <4>1. WorkerOK(h)
        BY Zenon DEF IInv, HandleInv
      <4>2. sender[h] \in {"gone", "off"}
        BY <3>1, <4>1, Zenon DEF ReadRefused, WorkerOK
      <4> QED BY <3>1, <4>2, <1>EndTurnBridge, Zenon DEF IInv, ReadRefused
    <3> QED BY <3>1, <1>StartTurnBridge, <1>ReadEmptyBridge, <1>ReadReadyBridge, <1>RearmBridge,
               <1>RecheckBridge,
               <1>DrainingBridge, Zenon DEF IInv, DrainStep
  <2>2. UNCHANGED sender
    BY Zenon DEF DrainStep, StartTurn, ReadRefused, EndTurn, ReadEmpty, ReadReady, Rearm, Recheck,
       Draining
  <2>3. UNCHANGED <<handleVars, call>>
    BY Zenon DEF DrainStep, handleVars, regVars, coreVars, workerVars
  <2> QED BY <2>1, <2>2, <2>3, <1>SenderMoves, Zenon DEF IInv

\* A step that leaves the workers alone and changes calls as allowed.
<1>CallsMove.
    ASSUME HandleInv, UNCHANGED <<handleVars, sender>>,
           CallsTypeOK', \A u \in Thread : CallOK(u)'
    PROVE  HandleInv'
  <2> USE <1>CallsMove
  <2>1. HandleTypeOK'
    BY Zenon DEF HandleInv, HandleTypeOK, handleVars
  <2>2. ASSUME NEW g \in Handle PROVE WorkerOK(g)'
    <3>1. WorkerOK(g)
      BY Zenon DEF HandleInv
    <3> QED BY <3>1, Zenon DEF WorkerOK, handleVars
  <2> QED BY <2>1, <2>2, Zenon DEF HandleInv

<1>EntryInv.
    ASSUME IInv, NEW t \in Thread, NEW f, NEW h, Entry(t, f, h),
           UNCHANGED <<handleVars, bridgeVars>>
    PROVE  IInv'
  <2> USE <1>EntryInv
  <2>1. ExitIsFinal /\ UNCHANGED <<handleVars, sender>>
    BY Zenon DEF ExitIsFinal, handleVars, bridgeVars
  <2>2. CallsTypeOK' /\ \A u \in Thread : CallOK(u)'
    BY <2>1, <1>EntryCalls, Zenon DEF IInv
  <2> QED BY <2>1, <2>2, <1>CallsMove, <1>BridgeUnchanged, Zenon DEF IInv

\* Calls that return at once.
<1>ImmediateInv.
    ASSUME IInv, NEW t \in Thread, NEW f, f \notin Stops, NEW h, NEW s, Call(t, f, h, s),
           UNCHANGED <<handleVars, bridgeVars>>
    PROVE  IInv'
  <2> USE <1>ImmediateInv
  <2>1. Entry(t, f, h)
    BY Zenon DEF Entry, Call
  <2> QED BY <2>1, <1>EntryInv, Zenon

<1>CallsInv.
    ASSUME IInv, NEW t \in Thread, NEW f \in Functions, f \notin Creates, Calls(t, f)
    PROVE  IInv'
  <2> USE <1>CallsInv
  <2> USE DEF regVars, coreVars, workerVars, handleVars
  <2>1. CASE f = "drain_logs" /\ DrainLogs(t)
    <3>1. PICK s : Call(t, f, 0, s)
      BY <2>1, Zenon DEF DrainLogs
    <3> QED BY <2>1, <3>1, <1>ImmediateInv, Zenon DEF DrainLogs, Stops
  <2>2. CASE f \in Conversions \union Transfers /\ (Convert(t, f) \/ CheckOrTransfer(t, f))
    <3>1. PICK s : Call(t, f, 0, s)
      BY <2>2, Zenon DEF Convert, CheckOrTransfer, Stateless
    <3> QED BY <2>2, <3>1, <1>ImmediateInv, Zenon DEF Convert, CheckOrTransfer, Stateless, Stops,
               Conversions, Transfers
  <2>3. ASSUME NEW h \in Handle, HandleCall(t, f, h) PROVE IInv'
    <3>1. CASE \E statuses : Immediate(t, f, h, statuses) /\ f \notin Stops
      <4>1. PICK s : Call(t, f, h, s)
        BY <3>1, Zenon DEF Immediate
      <4> QED BY <3>1, <4>1, <1>ImmediateInv, Zenon DEF Immediate
    <3>2. CASE f = "network_changed" /\ NetworkChanged(t, h)
      <4>1. PICK s : Call(t, f, h, s)
        BY <3>2, Zenon DEF NetworkChanged
      <4> QED BY <3>2, <4>1, <1>ImmediateInv, Zenon DEF NetworkChanged, Stops
    <3>3. CASE f = "write_packet" /\ WritePacket(t, h)
      <4>1. PICK s : Call(t, f, h, s)
        BY <3>3, Zenon DEF WritePacket
      <4> QED BY <3>3, <4>1, <1>ImmediateInv, Zenon DEF WritePacket, Stops
    <3>4. CASE \/ f \in Commands /\ Command(t, f, h)
               \/ f \in Queries /\ Query(t, f, h)
      <4>1. f \notin Stops
        BY <3>4, Zenon DEF Commands, Queries, Stops
      <4>2. Enter(t, f, h, "waiting", "none", tickets + 1) \/ Call(t, f, h, "ERROR")
        BY <3>4, Zenon DEF Command, Query, Enqueue
      <4>3. Entry(t, f, h)
        BY <4>1, <4>2, Zenon DEF Entry, Call
      <4> QED BY <3>4, <4>3, <1>EntryInv, Zenon DEF Command, Query
    <3>5. CASE f \in Stops /\ Shutdown(t, f, h)
      <4>1. Entry(t, f, h)
        BY <3>5, Zenon DEF Shutdown, Entry, Call
      <4> QED BY <3>5, <4>1, <1>EntryInv, Zenon DEF Shutdown
    <3> QED BY <2>3, <3>1, <3>2, <3>3, <3>4, <3>5, Zenon
          DEF HandleCall, Snapshot, StatusOf, Update, Select, SetNetwork, CloseConnections,
              CloseConnection, DnsAudit, Stops
  <2> QED BY <2>1, <2>2, <2>3, Zenon DEF Calls

(* Handles come and go *)

<1>CreateInv.
    ASSUME IInv, NEW t \in Thread, NEW f \in Creates, Create(t, f)
    PROVE  IInv'
  <2> USE <1>CreateInv
  <2>1. f \notin Stops
    BY Zenon DEF Creates, Stops
  <2>2. PICK h, s : Call(t, f, h, s)
    BY Zenon DEF Create
  <2>3. Entry(t, f, h)
    BY <2>1, <2>2, Zenon DEF Entry, Call
  <2>4. BridgeInv' /\ UNCHANGED <<taken, locker, queries, protecting, fd, sender>>
    BY <1>BridgeUnchanged, Zenon DEF IInv, Create, bridgeVars, coreVars
  <2>5. CASE UNCHANGED <<registry, worker>> /\ next' \in {next, next + 1}
    <3>1. CallsTypeOK' /\ \A u \in Thread : CallOK(u)'
      BY <2>3, <2>5, <1>EntryCalls, Zenon DEF IInv, ExitIsFinal
    <3>2. HandleTypeOK'
      BY <2>4, <2>5, <3>1 DEF IInv, HandleInv, HandleTypeOK
    <3>3. ASSUME NEW g \in Handle PROVE WorkerOK(g)'
      <4>1. WorkerOK(g)
        BY Zenon DEF IInv, HandleInv
      <4>2. g \in Nat /\ next \in Nat
        BY Zenon DEF IInv, HandleInv, HandleTypeOK
      <4>3. g >= next' => g >= next
        BY <2>5, <4>2
      <4> QED BY <2>4, <2>5, <4>1, <4>3, Zenon DEF WorkerOK
    <3> QED BY <2>4, <3>1, <3>2, <3>3, Zenon DEF IInv, HandleInv
  <2>6. CASE /\ next \in Handle /\ next' = next + 1 /\ registry' = registry \union {next}
             /\ worker' = [worker EXCEPT ![next] = "select"]
    <3>1. worker[next] = "none" /\ WorkerOK(next) /\ next \in Nat
      <4>1. WorkerOK(next) /\ next \in Nat
        BY <2>6, Zenon DEF IInv, HandleInv, HandleTypeOK
      <4>2. next >= next
        BY <4>1
      <4> QED BY <4>1, <4>2, Zenon DEF WorkerOK
    <3>2. ExitIsFinal
      BY <2>6, <3>1, Zenon DEF ExitIsFinal, IInv, HandleInv, HandleTypeOK, Exited
    <3>3. CallsTypeOK' /\ \A u \in Thread : CallOK(u)'
      BY <2>3, <3>2, <1>EntryCalls, Zenon DEF IInv
    <3>4. HandleTypeOK'
      BY <2>4, <2>6, <3>3 DEF IInv, HandleInv, HandleTypeOK, WorkerState
    <3>5. ASSUME NEW g \in Handle PROVE WorkerOK(g)'
      <4>0. WorkerOK(g) /\ worker \in [Handle -> WorkerState]
        BY Zenon DEF IInv, HandleInv, HandleTypeOK
      <4>1. WorkerOK(g) /\ g \in Nat /\ worker'[g] = IF g = next THEN "select" ELSE worker[g]
        BY <2>6, <4>0, Zenon
      <4>2. CASE g = next
        <5>1. worker'[g] = "select" /\ worker[g] = "none" /\ g \in registry'
          BY <2>6, <3>1, <4>1, <4>2, Zenon
        <5>2. ~(g >= next')
          BY <2>6, <3>1, <4>2
        <5>3. protecting'[g] \subseteq queries'[g] /\ (fd'[g] => sender'[g] = "gone")
          BY <2>4, <4>1, Zenon DEF WorkerOK
        <5>4. ~(taken'[g] /\ locker'[g] = {})
          BY <2>4, <4>1, <5>1, Zenon DEF WorkerOK, Exited
        <5>5. worker'[g] \notin Exited /\ worker'[g] # "none"
          BY <5>1, Zenon DEF Exited
        <5> QED BY <5>1, <5>2, <5>3, <5>4, <5>5, Zenon DEF WorkerOK
      <4>3. CASE g # next
        <5>1. g >= next' => g >= next
          BY <2>6, <3>1, <4>1
        <5>2. worker'[g] = worker[g] /\ (g \notin registry' => g \notin registry)
          BY <2>6, <4>1, <4>3, Zenon
        <5> QED BY <2>4, <4>1, <5>1, <5>2, Zenon DEF WorkerOK
      <4> QED BY <4>2, <4>3, Zenon
    <3> QED BY <2>4, <3>3, <3>4, <3>5, Zenon DEF IInv, HandleInv
  <2> QED BY <2>5, <2>6, Zenon DEF Create, regVars

\* A step of a worker that lives on; what it serves and calls may change.
<1>WorkerMoves.
    ASSUME HandleInv, NEW h \in Handle, NEW w \in WorkerState \ (Exited \union {"none"}),
           worker[h] \notin Exited \union {"none"},
           worker' = [worker EXCEPT ![h] = w],
           UNCHANGED <<registry, next, taken, locker, queries, protecting, fd, sender>>,
           \/ UNCHANGED call
           \/ \E r : DOMAIN call' = Thread /\ \A u \in Thread : call'[u] \in {call[u], WithReply(call[u], r)}
    PROVE  HandleInv'
  <2> USE <1>WorkerMoves
  <2>1. worker'[h] = w /\ \A g \in Handle \ {h} : worker'[g] = worker[g]
    BY Zenon DEF HandleInv, HandleTypeOK
  <2>2. ExitIsFinal
    BY <2>1, Zenon DEF ExitIsFinal
  <2>3. CallsTypeOK' /\ \A u \in Thread : CallOK(u)'
    <3>1. CASE UNCHANGED call
      BY <2>2, <3>1, <1>OtherCalls, Zenon DEF HandleInv, HandleTypeOK, CallsTypeOK
    <3> QED BY <2>2, <3>1, <1>RepliedCalls, Zenon
  <2>4. HandleTypeOK'
    BY <2>3, Zenon DEF HandleInv, HandleTypeOK
  <2>5. ASSUME NEW g \in Handle PROVE WorkerOK(g)'
    <3>1. WorkerOK(g)
      BY Zenon DEF HandleInv
    <3> QED BY <2>1, <3>1, Zenon DEF WorkerOK
  <2> QED BY <2>3, <2>4, <2>5, Zenon DEF HandleInv

\* What a reply does to the calls.
<1>RepliedChoice.
    ASSUME NEW c, NEW r
    PROVE  /\ DOMAIN Replied(c, r) = Thread
           /\ \A u \in Thread : Replied(c, r)[u] \in {call[u], WithReply(call[u], r)}
  BY <1>RepliedChoice, Zenon DEF Replied

<1>ServeInv.
    ASSUME IInv, NEW h \in Handle,
           \/ TakeStop(h) \/ TakeChange(h) \/ ChangeDone(h) \/ (\E c : TakeStart(h, c))
           \/ StartOk(h) \/ StartFailed(h) \/ WorkerPanics(h)
    PROVE  IInv'
  <2> USE <1>ServeInv
  <2> USE DEF regVars, coreVars
  <2>1. BridgeInv' /\ UNCHANGED sender
    BY <1>BridgeUnchanged, Zenon DEF IInv, TakeStop, TakeChange, ChangeDone, TakeStart, StartOk,
       StartFailed,
                           WorkerPanics, bridgeVars
  <2>2. UNCHANGED <<registry, next, taken, locker, queries, protecting, fd>>
    BY Zenon DEF TakeStop, TakeChange, ChangeDone, TakeStart, StartOk, StartFailed, WorkerPanics
  <2>3. worker \in [Handle -> WorkerState]
    BY Zenon DEF IInv, HandleInv, HandleTypeOK
  <2>4. \E w \in WorkerState \ (Exited \union {"none"}) :
           worker[h] \notin Exited \union {"none"} /\ worker' = [worker EXCEPT ![h] = w]
    <3> DEFINE Moves(w) == worker[h] \in {"select", "changing", "starting"}
                           /\ worker' = [worker EXCEPT ![h] = w]
    <3>0. \A w \in {"select", "changing", "starting", "dropping", "unwinding"} :
             Moves(w) => /\ w \in WorkerState \ (Exited \union {"none"})
                         /\ worker[h] \notin Exited \union {"none"}
                         /\ worker' = [worker EXCEPT ![h] = w]
      BY Zenon DEF WorkerState, Exited
    <3> HIDE DEF Moves
    <3>1. CASE TakeStop(h)
      <4>1. Moves("dropping")
        BY <3>1, Zenon DEF TakeStop, Moves
      <4> QED BY <3>0, <4>1, Zenon
    <3>2. CASE TakeChange(h)
      <4>1. Moves("changing")
        BY <3>2, Zenon DEF TakeChange, Moves
      <4> QED BY <3>0, <4>1, Zenon
    <3>3. CASE ChangeDone(h) \/ StartOk(h) \/ StartFailed(h)
      <4>1. Moves("select")
        BY <3>3, Zenon DEF ChangeDone, StartOk, StartFailed, Moves
      <4> QED BY <3>0, <4>1, Zenon
    <3>4. CASE \E c : TakeStart(h, c)
      <4>1. worker[h] = "select" /\ (worker' = worker \/ worker' = [worker EXCEPT ![h] = "starting"])
        BY <3>4, Zenon DEF TakeStart, Receive
      <4>2. Moves("select") \/ Moves("starting")
        BY <2>3, <4>1, Zenon DEF Moves
      <4> QED BY <3>0, <4>2, Zenon
    <3>5. CASE WorkerPanics(h)
      <4>1. Moves("unwinding")
        BY <3>5, Zenon DEF WorkerPanics, Moves
      <4> QED BY <3>0, <4>1, Zenon
    <3> QED BY <3>1, <3>2, <3>3, <3>4, <3>5, Zenon
  <2>5. UNCHANGED call \/ \E c, r : call' = Replied(c, r)
    BY Zenon DEF TakeStop, TakeChange, ChangeDone, TakeStart, StartOk, StartFailed, WorkerPanics
  <2>6. \/ UNCHANGED call
        \/ \E r : DOMAIN call' = Thread /\ \A u \in Thread : call'[u] \in {call[u], WithReply(call[u], r)}
    BY <2>5, <1>RepliedChoice
  <2>7. HandleInv'
    BY <2>1, <2>2, <2>4, <2>6, <1>WorkerMoves, Zenon DEF IInv
  <2> QED BY <2>1, <2>7, Zenon DEF IInv

\* A start spawns the writer, or leaves the bridge to a descriptor.
<1>SpawnInv.
    ASSUME IInv, NEW h \in Handle, SpawnPackets(h)
    PROVE  IInv'
  <2> USE <1>SpawnInv
  <2>1. BridgeTypeOK /\ BridgeOK(h) /\ BridgeTypeOK'
    BY Zenon DEF IInv, BridgeInv, BridgeTypeOK, SpawnPackets, SenderState
  <2>2. /\ sender[h] = "off" /\ sender'[h] = "idle" /\ \A g \in Handle \ {h} : sender'[g] = sender[g]
        /\ UNCHANGED <<output, pending, wake, reader, turns, left>>
    BY <2>1, Zenon DEF SpawnPackets, BridgeTypeOK
  <2>3. BridgeOK(h)'
    BY <2>1, <2>2, Zenon DEF BridgeOK, Waiting, Attended, Told
  <2>4. BridgeInv'
    BY <2>1, <2>2, <2>3, <1>OneBridge, Zenon DEF IInv
  <2>5. UNCHANGED <<handleVars, call>> /\ worker[h] = "starting"
    BY Zenon DEF SpawnPackets, handleVars, regVars, coreVars, workerVars
  <2>6. HandleTypeOK'
    BY <2>5, Zenon DEF IInv, HandleInv, HandleTypeOK, CallsTypeOK, handleVars
  <2>7. ASSUME NEW g \in Handle PROVE WorkerOK(g)'
    <3>1. WorkerOK(g)
      BY Zenon DEF IInv, HandleInv
    <3> QED BY <2>2, <2>5, <3>1, Zenon DEF WorkerOK, handleVars, Exited
  <2>8. ASSUME NEW u \in Thread PROVE CallOK(u)'
    BY <2>5, <1>OtherCalls, Zenon DEF IInv, ExitIsFinal, handleVars
  <2> QED BY <2>4, <2>6, <2>7, <2>8, Zenon DEF IInv, HandleInv

<1>SenderGone.
    ASSUME BridgeInv, NEW h \in Handle, sender' = [sender EXCEPT ![h] = "gone"],
           UNCHANGED <<sent, output, pending, wake, reader, turns, left>>
    PROVE  BridgeInv'
  <2> USE <1>SenderGone
  <2>1. BridgeTypeOK /\ BridgeOK(h) /\ BridgeTypeOK'
    BY Zenon DEF BridgeInv, BridgeTypeOK, SenderState
  <2>2. sender'[h] = "gone" /\ \A g \in Handle \ {h} : sender'[g] = sender[g]
    BY <2>1, Zenon DEF BridgeTypeOK
  <2>3. BridgeOK(h)'
    BY <2>1, <2>2, Zenon DEF BridgeOK, Waiting, Attended, Told
  <2> QED BY <2>1, <2>2, <2>3, <1>OneBridge, Zenon

<1>TakeFdInv.
    ASSUME IInv, NEW h \in Handle, NEW c, TakeFd(h, c)
    PROVE  IInv'
  <2> USE <1>TakeFdInv
  <2>1. UNCHANGED <<registry, next, worker, taken, locker, queries, protecting>> /\ worker[h] = "select"
    BY Zenon DEF TakeFd, Receive, regVars
  <2>2. BridgeTypeOK /\ HandleTypeOK
    BY Zenon DEF IInv, BridgeInv, HandleInv
  <2>3. BridgeInv'
    <3>1. CASE UNCHANGED sender
      BY <3>1, <1>BridgeUnchanged, Zenon DEF IInv, TakeFd, bridgeVars, BridgeInv, BridgeTypeOK,
         BridgeOK, Waiting, Attended, Told
    <3> QED BY <3>1, <1>SenderGone, Zenon DEF IInv, TakeFd
  <2>4. ExitIsFinal
    BY <2>1, Zenon DEF ExitIsFinal
  <2>5. PICK r : call' = Replied(c, r)
    BY Zenon DEF TakeFd
  <2>6. CallsTypeOK' /\ \A u \in Thread : CallOK(u)'
    BY <2>4, <2>5, <1>RepliedChoice, <1>RepliedCalls, Zenon DEF IInv
  <2>7. \/ UNCHANGED <<fd, sender>>
        \/ /\ fd' \in [Handle -> BOOLEAN] /\ sender'[h] = "gone"
           /\ \A g \in Handle \ {h} : fd'[g] = fd[g] /\ sender'[g] = sender[g]
    BY <2>2, ZenonT(60) DEF TakeFd, HandleTypeOK, BridgeTypeOK
  <2>8. HandleTypeOK'
    BY <2>1, <2>2, <2>6, <2>7, Zenon DEF HandleTypeOK
  <2>9. ASSUME NEW g \in Handle PROVE WorkerOK(g)'
    <3>1. WorkerOK(g)
      BY Zenon DEF IInv, HandleInv
    <3> QED BY <2>1, <2>7, <3>1, Zenon DEF WorkerOK, Exited
  <2> QED BY <2>3, <2>6, <2>8, <2>9, Zenon DEF IInv, HandleInv

\* Queries live no longer than their runtime, callbacks no longer than queries.
<1>QueriesInv.
    ASSUME IInv, NEW h \in Handle,
           \/ \E c : TakeQuery(h, c)
           \/ \E q \in queries[h] : Protect(h, q) \/ Protected(h, q) \/ QueryDone(h, q)
    PROVE  IInv'
  <2> USE <1>QueriesInv
  <2> USE DEF regVars, coreVars
  <2>1. BridgeInv' /\ UNCHANGED <<registry, next, worker, taken, locker, fd, sender>>
    BY <1>BridgeUnchanged, Zenon DEF IInv, TakeQuery, Protect, Protected, QueryDone, bridgeVars
  <2>2. ExitIsFinal
    BY <2>1, Zenon DEF ExitIsFinal
  <2>3. CallsTypeOK' /\ \A u \in Thread : CallOK(u)'
    <3>1. CASE UNCHANGED call
      <4>1. HandleInv /\ CallsTypeOK
        BY Zenon DEF IInv, HandleInv, HandleTypeOK
      <4>2. CallsTypeOK'
        BY <3>1, <4>1, Zenon DEF CallsTypeOK
      <4>3. ASSUME NEW u \in Thread PROVE CallOK(u)'
        BY <2>2, <3>1, <4>1, <1>OtherCalls, Zenon
      <4> QED BY <4>2, <4>3, Zenon
    <3>2. CASE \E q, r : call' = Replied(q, r)
      <4>1. PICK q, r : call' = Replied(q, r)
        BY <3>2, Zenon
      <4>2. DOMAIN call' = Thread /\ \A u \in Thread : call'[u] \in {call[u], WithReply(call[u], r)}
        BY <4>1, <1>RepliedChoice, Zenon
      <4>3. HandleInv
        BY Zenon DEF IInv
      <4> QED BY <2>2, <4>2, <4>3, <1>RepliedCalls, Zenon
    <3> QED BY <3>1, <3>2, Zenon DEF TakeQuery, Protect, Protected, QueryDone
  <2>4. DOMAIN queries = Handle /\ DOMAIN protecting = Handle
    BY Zenon DEF IInv, HandleInv, HandleTypeOK
  <2>5. /\ DOMAIN queries' = Handle /\ DOMAIN protecting' = Handle
        /\ \A g \in Handle \ {h} : queries'[g] = queries[g] /\ protecting'[g] = protecting[g]
    BY <2>4, Zenon DEF TakeQuery, Receive, Protect, Protected, QueryDone
  <2>6. HandleTypeOK'
    BY <2>1, <2>3, <2>5, Zenon DEF IInv, HandleInv, HandleTypeOK
  <2>7. WorkerOK(h)
    BY Zenon DEF IInv, HandleInv
  <2>8. worker[h] \notin Exited
    <3>1. worker[h] = "select" \/ queries[h] # {}
      BY Zenon DEF TakeQuery, Receive
    <3> QED BY <2>7, <3>1, Zenon DEF WorkerOK, Exited
  <2>9. protecting'[h] \subseteq queries'[h]
    <3>1. protecting[h] \subseteq queries[h]
      BY <2>7, Zenon DEF WorkerOK
    <3>2. CASE \E c : TakeQuery(h, c)
      BY <2>4, <3>1, <3>2, Zenon DEF TakeQuery
    <3>3. ASSUME NEW q \in queries[h], Protect(h, q) PROVE protecting'[h] \subseteq queries'[h]
      BY <2>4, <3>1, <3>3, Zenon DEF Protect
    <3>4. ASSUME NEW q \in queries[h], Protected(h, q) PROVE protecting'[h] \subseteq queries'[h]
      BY <2>4, <3>1, <3>4, Zenon DEF Protected
    <3>5. ASSUME NEW q \in queries[h], QueryDone(h, q) PROVE protecting'[h] \subseteq queries'[h]
      BY <2>4, <3>1, <3>5, Zenon DEF QueryDone
    <3> QED BY <3>2, <3>3, <3>4, <3>5, Zenon
  <2>10. ASSUME NEW g \in Handle PROVE WorkerOK(g)'
    <3>1. WorkerOK(g)
      BY Zenon DEF IInv, HandleInv
    <3> QED BY <2>1, <2>5, <2>8, <2>9, <3>1, Zenon DEF WorkerOK
  <2> QED BY <2>1, <2>3, <2>6, <2>10, Zenon DEF IInv, HandleInv

\* The worker exits once its runtime has no task left.
<1>ExitInv.
    ASSUME IInv, NEW h \in Handle, WorkerExits(h)
    PROVE  IInv'
  <2> USE <1>ExitInv
  <2>1. BridgeTypeOK /\ HandleTypeOK /\ WorkerOK(h)
    BY Zenon DEF IInv, BridgeInv, HandleInv
  <2>2. BridgeInv'
    BY <1>SenderGone, Zenon DEF IInv, WorkerExits
  <2>3. /\ worker[h] \in {"dropping", "unwinding"} /\ worker'[h] \in Exited
        /\ worker' \in [Handle -> WorkerState]
        /\ \A g \in Handle \ {h} : worker'[g] = worker[g]
    BY <2>1, Zenon DEF WorkerExits, HandleTypeOK, WorkerState, Exited
  <2>4. ExitIsFinal
    BY <2>3, Zenon DEF ExitIsFinal
  <2>5. CallsTypeOK' /\ \A u \in Thread : CallOK(u)'
    <3>1. /\ DOMAIN call' = Thread
          /\ \A u \in Thread : call'[u] \in {call[u], WithReply(call[u], "dropped")}
      BY Zenon DEF WorkerExits
    <3> QED BY <2>4, <3>1, <1>RepliedCalls, Zenon DEF IInv
  <2>6. UNCHANGED <<registry, next, taken, locker, queries, protecting, fd>>
    BY Zenon DEF WorkerExits, regVars, coreVars
  <2>7. HandleTypeOK'
    BY <2>1, <2>3, <2>5, <2>6, Zenon DEF HandleTypeOK
  <2>8. sender'[h] = "gone" /\ \A g \in Handle \ {h} : sender'[g] = sender[g]
    BY <2>1, Zenon DEF WorkerExits, BridgeTypeOK
  <2>9. queries[h] = {} /\ protecting[h] = {}
    BY <2>1, Zenon DEF WorkerExits, RuntimeJoined, WorkerOK
  <2>10. ASSUME NEW g \in Handle PROVE WorkerOK(g)'
    <3>1. WorkerOK(g)
      BY Zenon DEF IInv, HandleInv
    <3>2. CASE g = h
      BY <2>3, <2>6, <2>8, <2>9, <3>1, <3>2, Zenon DEF WorkerOK, Exited
    <3>3. CASE g # h
      BY <2>3, <2>6, <2>8, <3>1, <3>3, Zenon DEF WorkerOK
    <3> QED BY <3>2, <3>3, Zenon
  <2> QED BY <2>2, <2>5, <2>7, <2>10, Zenon DEF IInv, HandleInv

(* Waiting calls go on *)

<1>AnswerInv.
    ASSUME IInv, NEW t \in Thread, Answered(t) \/ Unanswered(t)
    PROVE  IInv'
  <2> USE <1>AnswerInv
  <2>1. UNCHANGED <<handleVars, sender>>
    BY Zenon DEF Answered, Unanswered, handleVars, regVars, coreVars, workerVars, bridgeVars
  <2>2. ExitIsFinal
    BY <2>1, Zenon DEF ExitIsFinal, handleVars
  <2>3. PICK s : Return(t, s)
    BY Zenon DEF Answered, Unanswered
  <2>4. call[t].fn \notin Stops
    BY Zenon DEF Answered, Unanswered, IInv, HandleInv, CallOK
  <2>5. CallsTypeOK' /\ \A u \in Thread : CallOK(u)'
    BY <2>2, <2>3, <2>4, <1>ReturnCalls, Zenon DEF IInv
  <2>6. BridgeInv'
    <3>1. CASE UNCHANGED bridgeVars
      BY <3>1, <1>BridgeUnchanged, Zenon DEF IInv
    <3>2. CASE /\ turns' = [turns EXCEPT ![call[t].h] = @ + 1]
               /\ UNCHANGED <<sent, output, pending, wake, sender, reader, left, sized, lastRead>>
      <4>1. turns' \in [Handle -> Nat] /\ \A g \in Handle : turns'[g] >= turns[g] /\ turns[g] \in Nat
        <5> DEFINE c == call[t].h
        <5>1. turns' = [turns EXCEPT ![c] = @ + 1] /\ turns \in [Handle -> Nat]
          BY <3>2, Zenon DEF IInv, BridgeInv, BridgeTypeOK
        <5> HIDE DEF c
        <5>2. ASSUME NEW g \in Handle PROVE turns'[g] = IF g = c THEN turns[g] + 1 ELSE turns[g]
          BY <5>1, Zenon
        <5>3. DOMAIN turns' = Handle /\ turns' = [g \in Handle |-> turns'[g]]
          BY <5>1, Zenon
        <5>4. ASSUME NEW g \in Handle
              PROVE  turns'[g] \in Nat /\ turns'[g] >= turns[g] /\ turns[g] \in Nat
          <6>1. turns[g] \in Nat
            BY <5>1, Zenon
          <6> QED BY <6>1, <5>2
        <5>5. turns' \in [Handle -> Nat]
          BY <5>3, <5>4, Zenon
        <5> QED BY <5>4, <5>5, Zenon
      <4>2. BridgeTypeOK'
        BY <3>2, <4>1, Zenon DEF IInv, BridgeInv, BridgeTypeOK
      <4>3. ASSUME NEW g \in Handle PROVE BridgeOK(g)'
        <5>1. BridgeOK(g) /\ (turns[g] > 0 => turns'[g] > 0)
          BY <4>1 DEF IInv, BridgeInv
        <5> QED BY <3>2, <5>1, Zenon DEF BridgeOK, Waiting, Attended, Told
      <4> QED BY <4>2, <4>3, Zenon DEF BridgeInv
    <3> QED BY <3>1, <3>2, Zenon DEF Answered, Unanswered, bridgeVars
  <2> QED BY <2>1, <2>5, <2>6, <1>CallsMove, Zenon DEF IInv

\* Whoever finds the JoinHandle taken under a free lock finds the worker gone.
<1>LockInv.
    ASSUME IInv, NEW t \in Thread, LockWorker(t)
    PROVE  IInv'
  <2> USE <1>LockInv
  <2> DEFINE h == call[t].h
  <2>1. h \in Handle
    BY Zenon DEF LockWorker, IInv, HandleInv, CallOK
  <2>2. WorkerOK(h) /\ HandleTypeOK
    BY <2>1, Zenon DEF IInv, HandleInv
  <2>3. UNCHANGED <<registry, next, worker, queries, protecting, fd, sender>> /\ BridgeInv'
    BY <1>BridgeUnchanged, Zenon DEF LockWorker, regVars, coreVars, bridgeVars, IInv
  <2>4. ExitIsFinal
    BY <2>3, Zenon DEF ExitIsFinal
  <2>5. CallsTypeOK' /\ \A u \in Thread : CallOK(u)'
    BY <2>1, <2>2, <2>4, <1>MoveCalls, Zenon DEF IInv, LockWorker, WorkerOK
  <2>6. /\ taken' \in [Handle -> BOOLEAN] /\ locker' \in [Handle -> SUBSET Thread]
        /\ \A g \in Handle \ {h} : taken'[g] = taken[g] /\ locker'[g] = locker[g]
        /\ locker[h] = {} /\ locker'[h] = IF taken[h] THEN {} ELSE {t}
    BY <2>1, <2>2, Zenon DEF LockWorker, HandleTypeOK
  <2>7. HandleTypeOK'
    BY <2>2, <2>3, <2>5, <2>6, Zenon DEF HandleTypeOK
  <2>8. ASSUME NEW g \in Handle PROVE WorkerOK(g)'
    <3>1. WorkerOK(g)
      BY Zenon DEF IInv, HandleInv
    <3> QED BY <2>3, <2>6, <3>1, Zenon DEF WorkerOK
  <2> QED BY <2>3, <2>5, <2>7, <2>8, Zenon DEF IInv, HandleInv

<1>JoinInv.
    ASSUME IInv, NEW t \in Thread, Join(t)
    PROVE  IInv'
  <2> USE <1>JoinInv
  <2> DEFINE h == call[t].h
  <2>1. h \in Handle /\ worker[h] \in Exited
    BY Zenon DEF Join, IInv, HandleInv, CallOK
  <2>2. HandleTypeOK
    BY Zenon DEF IInv, HandleInv
  <2>3. UNCHANGED <<registry, next, worker, taken, queries, protecting, fd, sender>> /\ BridgeInv'
    BY <1>BridgeUnchanged, Zenon DEF Join, regVars, coreVars, bridgeVars, IInv
  <2>4. ExitIsFinal
    BY <2>3, Zenon DEF ExitIsFinal
  <2>5. CallsTypeOK' /\ \A u \in Thread : CallOK(u)'
    BY <2>1, <2>4, <1>MoveCalls, <1>ReturnCalls, Zenon DEF IInv, Join
  <2>6. /\ locker' \in [Handle -> SUBSET Thread]
        /\ \A g \in Handle \ {h} : locker'[g] = locker[g]
    BY <2>1, <2>2, Zenon DEF Join, HandleTypeOK
  <2>7. HandleTypeOK'
    BY <2>2, <2>3, <2>5, <2>6, Zenon DEF HandleTypeOK
  <2>8. ASSUME NEW g \in Handle PROVE WorkerOK(g)'
    <3>1. WorkerOK(g)
      BY Zenon DEF IInv, HandleInv
    <3> QED BY <2>1, <2>3, <2>6, <3>1, Zenon DEF WorkerOK
  <2> QED BY <2>3, <2>5, <2>7, <2>8, Zenon DEF IInv, HandleInv

<1>StoppedInv.
    ASSUME IInv, NEW t \in Thread, Stopped(t)
    PROVE  IInv'
  <2> USE <1>StoppedInv
  <2> DEFINE h == call[t].h
  <2>1. h \in Handle /\ worker[h] \in Exited
    BY Zenon DEF Stopped, IInv, HandleInv, CallOK
  <2>2. UNCHANGED <<next, worker, taken, locker, queries, protecting, fd, sender>> /\ BridgeInv'
    BY <1>BridgeUnchanged, Zenon DEF Stopped, workerVars, coreVars, bridgeVars, IInv
  <2>3. ExitIsFinal
    BY <2>2, Zenon DEF ExitIsFinal
  <2>4. CallsTypeOK' /\ \A u \in Thread : CallOK(u)'
    BY <2>1, <2>3, <1>ReturnCalls, Zenon DEF IInv, Stopped
  <2>5. registry' \subseteq registry /\ registry \subseteq registry' \union {h}
    BY Zenon DEF Stopped
  <2>6. HandleTypeOK'
    BY <2>2, <2>4, <2>5, Zenon DEF IInv, HandleInv, HandleTypeOK
  <2>7. ASSUME NEW g \in Handle PROVE WorkerOK(g)'
    <3>1. WorkerOK(g)
      BY Zenon DEF IInv, HandleInv
    <3> QED BY <2>1, <2>2, <2>5, <3>1, Zenon DEF WorkerOK
  <2> QED BY <2>2, <2>4, <2>6, <2>7, Zenon DEF IInv, HandleInv

\* Steps that touch nothing the invariant mentions.
<1>QuietInv.
    ASSUME IInv, UNCHANGED <<handleVars, call, bridgeVars>>
    PROVE  IInv'
  <2> USE <1>QuietInv
  <2>1. \A g \in Handle : sender'[g] = sender[g]
    BY Zenon DEF bridgeVars
  <2> QED BY <2>1, <1>SenderMoves, <1>BridgeUnchanged, Zenon DEF IInv

<1> SUFFICES ASSUME IInv, [HostNext]_hostVars PROVE IInv'
  BY Zenon
<1> USE DEF regVars, coreVars, workerVars, handleVars
<1>1. ASSUME NEW t \in Thread, CallStep(t) PROVE IInv'
  BY <1>1, <1>AnswerInv, <1>LockInv, <1>JoinInv, <1>StoppedInv, Zenon DEF CallStep
<1>2. ASSUME NEW h \in Handle, WorkerStep(h) PROVE IInv'
  BY <1>2, <1>ServeInv, <1>TakeFdInv, <1>QueriesInv, <1>SpawnInv, <1>ExitInv, Zenon DEF WorkerStep
<1>3. ASSUME NEW h \in Handle,
             WorkerPanics(h) \/ QueryStep(h) \/ \E q \in queries[h] : Protect(h, q)
      PROVE  IInv'
  BY <1>3, <1>ServeInv, <1>QueriesInv, Zenon DEF QueryStep
<1>4. ASSUME NEW h \in Handle, RecvPacket(h) \/ WriterTimeout(h) PROVE IInv'
  BY <1>4, <1>QuietInv, Zenon DEF RecvPacket, WriterTimeout
<1>5. ASSUME NEW h \in Handle, WriterStep(h) \/ DrainStep(h) PROVE IInv'
  BY <1>5, <1>WriterInv, <1>DrainInv, Zenon
<1>6. CASE Log
  BY <1>6, <1>QuietInv, Zenon DEF Log
<1>7. ASSUME NEW t \in Thread, NEW f \in Functions, Calls(t, f) PROVE IInv'
  <2>1. CASE f \in Creates
    <3>1. Create(t, f)
      BY <1>7, <2>1, Zenon DEF Calls, Creates, Conversions, Transfers, HandleCall, Commands, Queries,
         Stops
    <3> QED BY <2>1, <3>1, <1>CreateInv, Zenon
  <2> QED BY <1>7, <2>1, <1>CallsInv, Zenon
<1>8. CASE UNCHANGED hostVars
  BY <1>8, <1>QuietInv, Zenon DEF hostVars
<1> QED BY <1>1, <1>2, <1>3, <1>4, <1>5, <1>6, <1>7, <1>8, ZenonT(60) DEF HostNext, HostStep

-----------------------------------------------------------------------------

LEMMA HostInvariant == HostSpec => []IInv
<1>1. HostInit => IInv
  BY BridgeInitInv, HandleInitInv, Zenon DEF IInv
<1>2. IInv /\ [HostNext]_hostVars => IInv'
  BY StepInv, Zenon
<1> QED BY <1>1, <1>2, PTL DEF HostSpec

\* Coalesced notifications never lose the last packet (PacketWake of host.rs), for
\* every number of handles, threads, queued packets and reads in a turn.
THEOREM HostNoLostWakeup == HostSpec => []NoLostWakeup
<1>1. IInv => NoLostWakeup
  BY ReadableWaiting, Zenon DEF IInv, BridgeInv, BridgeOK, NoLostWakeup
<1> QED BY <1>1, HostInvariant, PTL

\* stop and destroy join the worker and all callbacks (meta_stop_v1,
\* meta_destroy_v1, Handle::shutdown), whoever else stops the handle, starts it,
\* queries it or is called back by it.
THEOREM HostStopJoinsCallbacks == HostSpec => []StopJoinsCallbacks
<1>1. IInv => StopJoinsCallbacks
  BY Zenon DEF IInv, HandleInv, CallOK, WorkerOK, StopJoinsCallbacks, Running
<1> QED BY <1>1, HostInvariant, PTL

-----------------------------------------------------------------------------
(* What ties a waiting call to its request *)

Request == [fn : Commands \union Queries, thread : Thread, ticket : Nat]

RequestsTypeOK ==
    /\ tickets \in Nat
    /\ commands \in [Handle -> Seq(Request)]
    /\ queries \in [Handle -> SUBSET Request]
    /\ job \in [Handle -> {<<>>} \union {<<c>> : c \in Request}]

CoreTypeOK ==
    /\ stop \in [Handle -> BOOLEAN] /\ started \in [Handle -> BOOLEAN]
    /\ running \in [Handle -> BOOLEAN] /\ changed \in [Handle -> BOOLEAN]
    /\ logs \in Seq(Nat) /\ logged \in Nat

\* The members of a sequence.
Members(q) == {q[i] : i \in 1..Len(q)}

Queue(h) == Members(commands[h])
Serving(h) == IF job[h] = <<>> THEN {} ELSE {job[h][1]}
Asked(h) == Queue(h) \union Serving(h) \union queries[h]

\* The call with the ticket of request c waits for c; a start has no reply yet,
\* and its call has not given up unless that stopped the core.
AskedOK(h, c) ==
    /\ c.ticket \in 1..tickets
    /\ \A t \in Thread : call[t].ticket = c.ticket =>
          /\ call[t].at = "waiting" /\ call[t].h = h /\ call[t].fn = c.fn
          /\ c.fn = "start" => call[t].reply = "none"
    /\ c.fn = "start" => stop[h] \/ call[c.thread].ticket = c.ticket

\* Requests are served in the order of their tickets; a start is served alone.
QueueOK(h) ==
    /\ \A c \in Asked(h) : AskedOK(h, c)
    /\ \A c \in queries[h] : c.fn \in Queries
    /\ \A i, j \in 1..Len(commands[h]) : i < j => commands[h][i].ticket < commands[h][j].ticket
    /\ \A c \in Serving(h) : c.fn = "start" /\ \A d \in Queue(h) : c.ticket < d.ticket
    /\ worker[h] = "starting" <=> job[h] # <<>>

\* A reply to start and set_fd tells what the core did.
ReplyOK(c) ==
    /\ c.fn = "start" /\ c.reply = "ok" => running[c.h]
    /\ c.fn = "start" /\ c.reply = "error" => running[c.h] \/ stop[c.h]
    /\ c.fn = "set_fd" /\ c.reply = "ok" => fd[c.h]

WaitOK(t) ==
    /\ call[t].ticket \in 0..tickets
    /\ call[t].at = "waiting" =>
          /\ call[t].fn \in Commands \union Queries /\ call[t].status = "none"
          /\ call[t].h \in Handle /\ worker[call[t].h] # "none"
          /\ ReplyOK(call[t])
    /\ call[t].at # "waiting" => call[t].ticket = 0
    /\ call[t].at \in {"locking", "joining", "joined"} => call[t].fn \in Stops
    /\ call[t].at \in {"idle", "waiting", "locking", "joining", "joined"}

Active == {"idle", "queued", "callback"}

\* A core starts once, and what its worker does tells how far it got.
LifeOK(h) ==
    /\ h \in registry => h < next /\ worker[h] # "none"
    /\ worker[h] = "none" => ~stop[h] /\ ~running[h] /\ ~started[h] /\ queries[h] = {}
    /\ worker[h] = "starting" => started[h] /\ ~running[h]
    /\ running[h] => started[h]
    /\ worker[h] \in {"select", "changing"} /\ (started[h] \/ sender[h] \in Active)
          => running[h] \/ stop[h]
    /\ sender[h] = "gone" => fd[h] \/ worker[h] \in Exited
    /\ Len(pending[h]) <= 1

ContractInv ==
    /\ RequestsTypeOK /\ CoreTypeOK
    /\ \A h \in Handle : QueueOK(h) /\ LifeOK(h)
    /\ \A t \in Thread : WaitOK(t)

CInv == IInv /\ ContractInv

LEMMA ContractInitInv == HostInit => ContractInv
<1> SUFFICES ASSUME HostInit PROVE ContractInv
  BY Zenon
<1>1. RequestsTypeOK
  BY EmptyQueue, Zenon DEF HostInit, RequestsTypeOK
<1>2. CoreTypeOK
  BY EmptyQueue, Zenon DEF HostInit, CoreTypeOK
<1>3. ASSUME NEW h \in Handle PROVE QueueOK(h) /\ LifeOK(h)
  <2>1. commands[h] = <<>> /\ job[h] = <<>> /\ queries[h] = {} /\ worker[h] = "none" /\ pending[h] = <<>>
    BY Zenon DEF HostInit, BridgeInit
  <2>2. Asked(h) = {} /\ Serving(h) = {} /\ Len(commands[h]) = 0 /\ Len(pending[h]) = 0
    BY <2>1 DEF Asked, Queue, Serving, Members
  <2>3. QueueOK(h)
    BY <2>1, <2>2 DEF QueueOK
  <2> QED BY <2>1, <2>2, <2>3 DEF HostInit, BridgeInit, LifeOK
<1>4. ASSUME NEW t \in Thread PROVE WaitOK(t)
  BY DEF HostInit, WaitOK, NoCall
<1> QED BY <1>1, <1>2, <1>3, <1>4, Zenon DEF ContractInv

-----------------------------------------------------------------------------
(* How calls change, seen from a request *)

\* What a step may do to the call of thread t as long as request c of h is open.
CallKept(t, h, c) ==
    /\ call'[t].ticket = c.ticket =>
          /\ call[t].ticket = c.ticket /\ call'[t].at = call[t].at
          /\ call'[t].h = call[t].h /\ call'[t].fn = call[t].fn
          /\ c.fn = "start" => call'[t].reply = call[t].reply
    /\ c.fn = "start" /\ call[t].ticket = c.ticket => call'[t].ticket = c.ticket \/ stop'[h]

LEMMA AskedTyped ==
  ASSUME RequestsTypeOK, NEW h \in Handle
  PROVE  Asked(h) \subseteq Request
<1>1. commands[h] \in Seq(Request) /\ queries[h] \subseteq Request
  BY Zenon DEF RequestsTypeOK
<1>2. Queue(h) \subseteq Request
  BY <1>1 DEF Queue, Members
<1>3. job[h] = <<>> \/ \E c \in Request : job[h] = <<c>>
  BY Zenon DEF RequestsTypeOK
<1>4. Serving(h) \subseteq Request
  BY <1>3 DEF Serving
<1> QED BY <1>1, <1>2, <1>4, Zenon DEF Asked

\* Requests are tied to calls that wait, with a ticket of their own.
LEMMA AskedFacts ==
  ASSUME CInv, NEW h \in Handle, NEW c \in Asked(h)
  PROVE  /\ c \in Request /\ AskedOK(h, c) /\ tickets \in Nat /\ c.ticket \in 1..tickets
         /\ \A t \in Thread : call[t].at # "waiting" => call[t].ticket # c.ticket
<1>1. c \in Request /\ AskedOK(h, c) /\ tickets \in Nat
  BY AskedTyped, Zenon DEF CInv, ContractInv, QueueOK, RequestsTypeOK
<1> QED BY <1>1, Zenon DEF AskedOK

-----------------------------------------------------------------------------
(* Waiting calls *)

\* What waiting calls rely on is not taken back.
Monotone ==
    /\ tickets' \in Nat /\ tickets <= tickets'
    /\ \A g \in Handle :
          /\ running[g] => running'[g]
          /\ stop[g] => stop'[g]
          /\ fd[g] => fd'[g]
          /\ worker[g] # "none" => worker'[g] # "none"

\* The state behind the calls as the steps of the bridge leave it.
requestVars == <<commands, job, queries, tickets>>
lifeVars == <<registry, next, worker, running, started, fd>>

LEMMA TailMembers ==
  ASSUME NEW S, NEW q \in Seq(S), q # <<>>
  PROVE  /\ Head(q) = q[1] /\ Head(q) \in S /\ Head(q) \in Members(q) /\ Tail(q) \in Seq(S)
         /\ Len(Tail(q)) = Len(q) - 1 /\ Len(q) \in Nat \ {0}
         /\ \A i \in 1..Len(q) - 1 : Tail(q)[i] = q[i + 1]
         /\ \A c \in Members(Tail(q)) : \E i \in 2..Len(q) : c = q[i]
<1>1. /\ Head(q) = q[1] /\ Head(q) \in S /\ Tail(q) \in Seq(S) /\ Len(Tail(q)) = Len(q) - 1
      /\ Len(q) \in Nat \ {0}
      /\ \A i \in 1..Len(Tail(q)) : Tail(q)[i] = q[i + 1]
  BY HeadAndTail, EmptyQueue
<1>2. 1 \in 1..Len(q)
  BY <1>1
<1>3. ASSUME NEW c \in Members(Tail(q)) PROVE \E i \in 2..Len(q) : c = q[i]
  <2>1. PICK i \in 1..Len(Tail(q)) : c = Tail(q)[i]
    BY <1>3, Zenon DEF Members
  <2>2. i + 1 \in 2..Len(q) /\ c = q[i + 1]
    BY <1>1, <2>1
  <2> QED BY <2>2, Zenon
<1> QED BY <1>1, <1>2, <1>3, Zenon DEF Members

-----------------------------------------------------------------------------
(* Requests are received *)

\* receiver.recv() takes the oldest command.
LEMMA ReceiveFacts ==
  ASSUME CInv, NEW h \in Handle, NEW c, Receive(h, c)
  PROVE  /\ c \in Request /\ c \in Queue(h) /\ c \in Asked(h) /\ AskedOK(h, c)
         /\ commands' \in [Handle -> Seq(Request)]
         /\ \A g \in Handle \ {h} : commands'[g] = commands[g]
         /\ Queue(h)' \subseteq Queue(h) /\ \A d \in Queue(h)' : c.ticket < d.ticket
         /\ \A i, j \in 1..Len(commands'[h]) : i < j => commands'[h][i].ticket < commands'[h][j].ticket
         /\ worker[h] = "select" /\ ~stop[h] /\ job[h] = <<>>
<1>1. /\ commands \in [Handle -> Seq(Request)] /\ QueueOK(h)
      /\ worker[h] = "select" /\ ~stop[h]
      /\ commands[h] # <<>> /\ c = Head(commands[h]) /\ commands' = [commands EXCEPT ![h] = Tail(@)]
  BY Zenon DEF CInv, ContractInv, RequestsTypeOK, Receive
<1> DEFINE q == commands[h]
<1>2. q \in Seq(Request) /\ q # <<>>
  BY <1>1, Zenon
<1>3. /\ Head(q) = q[1] /\ Head(q) \in Request /\ Head(q) \in Members(q) /\ Tail(q) \in Seq(Request)
      /\ Len(Tail(q)) = Len(q) - 1 /\ Len(q) \in Nat \ {0}
      /\ \A i \in 1..Len(q) - 1 : Tail(q)[i] = q[i + 1]
      /\ \A d \in Members(Tail(q)) : \E i \in 2..Len(q) : d = q[i]
  BY <1>2, TailMembers, Zenon
<1>4. commands'[h] = Tail(q) /\ (\A g \in Handle \ {h} : commands'[g] = commands[g])
  BY <1>1, Zenon
<1>5. commands' \in [Handle -> Seq(Request)]
  BY <1>1, <1>3, Zenon
<1>6. c \in Asked(h) /\ AskedOK(h, c) /\ job[h] = <<>>
  BY <1>1, <1>3, Zenon DEF Asked, Queue, QueueOK
<1>7. \A i, j \in 1..Len(q) : i < j => q[i].ticket < q[j].ticket
  BY <1>1, Zenon DEF QueueOK
<1> HIDE DEF q
<1>8. Queue(h)' \subseteq Queue(h) /\ \A d \in Queue(h)' : q[1].ticket < d.ticket
  <2>1. Queue(h)' = Members(Tail(q)) /\ Queue(h) = Members(q)
    BY <1>4, Zenon DEF Queue, q
  <2>2. ASSUME NEW d \in Members(Tail(q)) PROVE d \in Members(q) /\ q[1].ticket < d.ticket
    <3>1. PICK i \in 2..Len(q) : d = q[i]
      BY <1>3, Zenon
    <3>2. i \in 1..Len(q) /\ 1 \in 1..Len(q) /\ 1 < i
      BY <1>3
    <3> QED BY <1>7, <3>1, <3>2, Zenon DEF Members
  <2> QED BY <2>1, <2>2, Zenon
<1>9. \A i, j \in 1..Len(commands'[h]) : i < j => commands'[h][i].ticket < commands'[h][j].ticket
  <2> TAKE i, j \in 1..Len(commands'[h])
  <2> HAVE i < j
  <2>1. i \in 1..Len(q) - 1 /\ j \in 1..Len(q) - 1 /\ i + 1 \in 1..Len(q) /\ j + 1 \in 1..Len(q) /\ i + 1 < j + 1
    BY <1>3, <1>4
  <2>2. commands'[h][i] = q[i + 1] /\ commands'[h][j] = q[j + 1]
    BY <1>3, <1>4, <2>1, Zenon
  <2> QED BY <1>7, <2>1, <2>2, Zenon
<1>10. c = q[1] /\ c \in Request /\ c \in Queue(h)
  BY <1>1, <1>3, Zenon DEF q, Queue
<1> QED BY <1>1, <1>4, <1>5, <1>6, <1>8, <1>9, <1>10, Zenon

-----------------------------------------------------------------------------
(* Every step keeps what ties calls to requests *)

\* The same for ContractInv: what a step leaves of a request, of a waiting call and of
\* a handle, then the calls, the requests served, the worker that exits, the packets.
LEMMA ContractStep == CInv /\ [HostNext]_hostVars => ContractInv'

(* How calls change, seen from a request *)

<1>AskedKept.
    ASSUME NEW h \in Handle, NEW c \in Request, AskedOK(h, c), stop[h] => stop'[h],
           tickets \in Nat, tickets' \in Nat, tickets <= tickets',
           \A t \in Thread : CallKept(t, h, c)
    PROVE  AskedOK(h, c)'
  <2> USE <1>AskedKept
  <2>1. c.ticket \in 1..tickets' /\ c.thread \in Thread
    BY DEF AskedOK, Request
  <2>2. ASSUME NEW t \in Thread, call'[t].ticket = c.ticket
        PROVE  /\ call'[t].at = "waiting" /\ call'[t].h = h /\ call'[t].fn = c.fn
               /\ c.fn = "start" => call'[t].reply = "none"
    BY <2>2, Zenon DEF AskedOK, CallKept
  <2>3. c.fn = "start" => stop'[h] \/ call'[c.thread].ticket = c.ticket
    BY <2>1, Zenon DEF AskedOK, CallKept
  <2> QED BY <2>1, <2>2, <2>3, Zenon DEF AskedOK

\* The requests of a handle that a step does not touch.
<1>QueueKept.
    ASSUME CInv, RequestsTypeOK', NEW h \in Handle, stop[h] => stop'[h], tickets <= tickets',
           \A c \in Asked(h) : \A t \in Thread : CallKept(t, h, c),
           commands'[h] = commands[h], job'[h] = job[h], queries'[h] = queries[h],
           worker'[h] = "starting" <=> worker[h] = "starting"
    PROVE  QueueOK(h)'
  <2> USE <1>QueueKept
  <2>1. QueueOK(h) /\ tickets \in Nat /\ tickets' \in Nat
    BY Zenon DEF CInv, ContractInv, RequestsTypeOK
  <2>2. Asked(h)' = Asked(h) /\ Serving(h)' = Serving(h) /\ Queue(h)' = Queue(h)
    BY Zenon DEF Asked, Serving, Queue
  <2>3. Asked(h) \subseteq Request
    BY AskedTyped, Zenon DEF CInv, ContractInv
  <2>4. ASSUME NEW c \in Asked(h) PROVE AskedOK(h, c)'
    BY <2>1, <2>3, <1>AskedKept, Zenon DEF QueueOK
  <2> QED BY <2>1, <2>2, <2>4, Zenon DEF QueueOK

\* A call that begins has a new ticket or none.
<1>EnterKept.
    ASSUME CInv, NEW h \in Handle, NEW c \in Asked(h), NEW t \in Thread,
           NEW f, NEW g, NEW place, NEW s, NEW k \in {0, tickets + 1}, Enter(t, f, g, place, s, k)
    PROVE  \A u \in Thread : CallKept(u, h, c)
  <2> USE <1>EnterKept
  <2>1. /\ c \in Request /\ AskedOK(h, c) /\ tickets \in Nat /\ c.ticket \in 1..tickets
        /\ \A u \in Thread : call[u].at # "waiting" => call[u].ticket # c.ticket
    BY AskedFacts, Zenon
  <2> DEFINE r == [fn |-> f, h |-> g, at |-> place, status |-> s, reply |-> "none", ticket |-> k]
  <2>2. r.ticket = k /\ call' = [call EXCEPT ![t] = r] /\ call[t].at = "idle"
    BY Zenon DEF Enter, MayCall
  <2> HIDE DEF r
  <2>3. call'[t] = r /\ \A u \in Thread \ {t} : call'[u] = call[u]
    BY <2>2, Zenon DEF CInv, IInv, HandleInv, HandleTypeOK, CallsTypeOK
  <2>4. k # c.ticket /\ call[t].ticket # c.ticket
    BY <2>1, <2>2
  <2> QED BY <2>2, <2>3, <2>4, Zenon DEF CallKept

\* A call that returns or moves on waits for nothing.
<1>LeaveKept.
    ASSUME CInv, NEW h \in Handle, NEW c \in Asked(h), NEW t \in Thread,
           NEW r, r.ticket = 0, call' = [call EXCEPT ![t] = r],
           call[t].ticket = c.ticket /\ c.fn = "start" => stop'[h]
    PROVE  \A u \in Thread : CallKept(u, h, c)
  <2> USE <1>LeaveKept
  <2>1. c.ticket \in 1..tickets /\ tickets \in Nat
    BY AskedFacts, Zenon
  <2>2. call'[t] = r /\ \A u \in Thread \ {t} : call'[u] = call[u]
    BY Zenon DEF CInv, IInv, HandleInv, HandleTypeOK, CallsTypeOK
  <2>3. call'[t].ticket # c.ticket
    BY <2>1, <2>2
  <2> QED BY <2>2, <2>3, Zenon DEF CallKept

\* A reply to one request leaves the others open.
<1>RepliedKept.
    ASSUME CInv, NEW h \in Handle, NEW c \in Asked(h), NEW d, NEW r, call' = Replied(d, r),
           \A u \in Thread : c.fn = "start" /\ call[u].ticket = c.ticket => d.ticket # c.ticket
    PROVE  \A u \in Thread : CallKept(u, h, c)
  <2> USE <1>RepliedKept
  <2> TAKE u \in Thread
  <2>1. IsCall(call[u])
    BY Zenon DEF CInv, IInv, HandleInv, HandleTypeOK, CallsTypeOK
  <2>2. CASE call'[u] = call[u]
    BY <2>2, Zenon DEF CallKept
  <2>3. CASE call'[u] = WithReply(call[u], r) /\ call[u].ticket = d.ticket
    <3> DEFINE w == WithReply(call[u], r)
    <3>0. w.fn = call[u].fn /\ w.h = call[u].h /\ w.at = call[u].at /\ w.ticket = call[u].ticket
      <4>1. CallReplied(WithReply(call[u], r), call[u], r)
        BY <2>1, ReplyFields, Zenon
      <4> QED BY <4>1, Zenon DEF CallReplied
    <3> HIDE DEF w
    <3>1. /\ call'[u].fn = call[u].fn /\ call'[u].h = call[u].h
          /\ call'[u].at = call[u].at /\ call'[u].ticket = call[u].ticket
      BY <2>3, <3>0, Zenon DEF w
    <3> QED BY <2>3, <3>1, Zenon DEF CallKept
  <2> QED BY <2>2, <2>3, Zenon DEF Replied

(* Waiting calls *)

<1>WaitKept.
    ASSUME CInv, Monotone, NEW t \in Thread, call'[t] = call[t]
    PROVE  WaitOK(t)'
  <2> USE <1>WaitKept
  <2>1. WaitOK(t) /\ tickets \in Nat
    BY Zenon DEF CInv, ContractInv, RequestsTypeOK
  <2>2. call'[t].ticket \in 0..tickets'
    <3>1. call[t].ticket \in 0..tickets /\ tickets' \in Nat /\ tickets <= tickets'
      BY <2>1, Zenon DEF WaitOK, Monotone
    <3> QED BY <2>1, <3>1, UpTo, Zenon
  <2>3. call[t].at = "waiting" => ReplyOK(call[t])'
    BY <2>1, Zenon DEF WaitOK, ReplyOK, Monotone
  <2> QED BY <2>1, <2>2, <2>3, Zenon DEF WaitOK, Monotone

<1>WaitOver.
    ASSUME Monotone, NEW t \in Thread, call'[t].ticket = 0,
           \/ call'[t].at = "idle"
           \/ call'[t].at \in {"locking", "joining", "joined"} /\ call'[t].fn \in Stops
    PROVE  WaitOK(t)'
  BY <1>WaitOver DEF WaitOK, Monotone

<1>WaitReplied.
    ASSUME CInv, Monotone, NEW t \in Thread, NEW r, call'[t] = WithReply(call[t], r),
           call[t].at = "waiting" /\ call[t].fn = "start" =>
              /\ r = "ok" => running'[call[t].h]
              /\ r = "error" => running'[call[t].h] \/ stop'[call[t].h],
           call[t].at = "waiting" /\ call[t].fn = "set_fd" => (r = "ok" => fd'[call[t].h])
    PROVE  WaitOK(t)'
  <2> USE <1>WaitReplied
  <2>1. WaitOK(t) /\ tickets \in Nat /\ IsCall(call[t])
    BY Zenon DEF CInv, ContractInv, RequestsTypeOK, IInv, HandleInv, HandleTypeOK, CallsTypeOK
  <2> DEFINE w == WithReply(call[t], r)
  <2>w. /\ w.fn = call[t].fn /\ w.h = call[t].h /\ w.at = call[t].at
        /\ w.status = call[t].status /\ w.reply = r /\ w.ticket = call[t].ticket
    <3>1. CallReplied(WithReply(call[t], r), call[t], r)
      BY <2>1, ReplyFields, Zenon
    <3> QED BY <3>1, Zenon DEF CallReplied
  <2> HIDE DEF w
  <2>2. /\ call'[t].fn = call[t].fn /\ call'[t].h = call[t].h /\ call'[t].at = call[t].at
        /\ call'[t].status = call[t].status /\ call'[t].reply = r /\ call'[t].ticket = call[t].ticket
    BY <2>w, Zenon DEF w
  <2>3. call'[t].ticket \in 0..tickets'
    <3>1. call[t].ticket \in 0..tickets /\ tickets' \in Nat /\ tickets <= tickets'
      BY <2>1, Zenon DEF WaitOK, Monotone
    <3> QED BY <2>1, <2>2, <3>1, UpTo, Zenon
  <2>4. call'[t].at = "waiting" => ReplyOK(call[t])'
    BY <2>2, Zenon DEF ReplyOK
  <2> QED BY <2>1, <2>2, <2>3, <2>4, Zenon DEF WaitOK, Monotone

\* A handle of which a step changes nothing, or that it stops or removes.
<1>LifeKept.
    ASSUME CInv, NEW h \in Handle, h \in registry' => h \in registry, next' >= next, next' \in Nat,
           stop'[h] = stop[h] \/ (stop'[h] /\ worker[h] # "none"),
           worker'[h] = worker[h], running'[h] = running[h],
           started'[h] = started[h], queries'[h] = queries[h],
           sender'[h] = sender[h] \/ (sender[h] \in Active /\ sender'[h] \in Active),
           fd'[h] = fd[h], Len(pending'[h]) <= 1
    PROVE  LifeOK(h)'
  <2> USE <1>LifeKept
  <2>1. LifeOK(h) /\ h \in Nat /\ next \in Nat
    BY Zenon DEF CInv, ContractInv, IInv, HandleInv, HandleTypeOK
  <2>2. h < next => h < next'
    BY <2>1, Below, Zenon
  <2>3. sender'[h] = "gone" => sender[h] = "gone"
    BY Zenon DEF Active
  <2> QED BY <2>1, <2>2, <2>3, Zenon DEF LifeOK

<1>BridgeContract.
    ASSUME CInv, UNCHANGED <<requestVars, lifeVars, call>>, CoreTypeOK',
           \A h \in Handle : stop'[h] = stop[h] \/ (stop'[h] /\ worker[h] # "none"),
           \A h \in Handle : sender'[h] = sender[h] \/ (sender[h] \in Active /\ sender'[h] \in Active),
           \A h \in Handle : Len(pending'[h]) <= 1
    PROVE  ContractInv'
  <2> USE <1>BridgeContract
  <2>1. RequestsTypeOK' /\ tickets \in Nat /\ next \in Nat
    BY Zenon DEF CInv, ContractInv, RequestsTypeOK, requestVars, IInv, HandleInv, HandleTypeOK
  <2>2. Monotone
    BY <2>1, AtLeast, Zenon DEF Monotone, requestVars, lifeVars
  <2>3. ASSUME NEW h \in Handle PROVE QueueOK(h)'
    <3>1. \A c \in Asked(h) : \A t \in Thread : CallKept(t, h, c)
      BY Zenon DEF CallKept
    <3>2. stop[h] => stop'[h]
      BY Zenon
    <3>3. commands'[h] = commands[h] /\ queries'[h] = queries[h] /\ job'[h] = job[h] /\ worker'[h] = worker[h]
      BY Zenon DEF requestVars, lifeVars
    <3> QED BY <2>1, <2>2, <3>1, <3>2, <3>3, <1>QueueKept, ZenonT(60) DEF Monotone
  <2>4. ASSUME NEW h \in Handle PROVE LifeOK(h)'
    <3>1. next' \in Nat /\ next' >= next
      BY <2>1, AtLeast, Zenon DEF lifeVars
    <3> QED BY <3>1, <1>LifeKept, Zenon DEF requestVars, lifeVars
  <2>5. ASSUME NEW t \in Thread PROVE WaitOK(t)'
    BY <2>2, <1>WaitKept, Zenon
  <2> QED BY <2>1, <2>3, <2>4, <2>5, Zenon DEF ContractInv

\* A call is over, moves on to join the worker, or begins and waits for no reply.
<1>LeaveInv.
    ASSUME CInv, NEW t \in Thread, NEW r, r.ticket = 0, call' = [call EXCEPT ![t] = r],
           \/ r.at = "idle"
           \/ r.at \in {"locking", "joining", "joined"} /\ r.fn \in Stops,
           UNCHANGED <<requestVars, worker, running, started, fd, sender, pending>>, CoreTypeOK',
           registry' \subseteq registry, next' \in Nat, next' >= next,
           \A h \in Handle : stop'[h] = stop[h] \/ (stop'[h] /\ worker[h] # "none"),
           call[t].at = "waiting" /\ call[t].fn = "start" /\ call[t].reply = "none" => stop'[call[t].h]
    PROVE  ContractInv'
  <2> USE <1>LeaveInv
  <2>1. RequestsTypeOK' /\ tickets \in Nat
    BY Zenon DEF CInv, ContractInv, RequestsTypeOK, requestVars
  <2>2. Monotone
    BY <2>1, AtLeast, Zenon DEF Monotone, requestVars
  <2>3. ASSUME NEW h \in Handle PROVE QueueOK(h)'
    <3>1. ASSUME NEW c \in Asked(h) PROVE \A u \in Thread : CallKept(u, h, c)
      <4>1. AskedOK(h, c)
        BY AskedFacts, Zenon
      <4>2. call[t].ticket = c.ticket /\ c.fn = "start" => stop'[h]
        BY <4>1, Zenon DEF AskedOK
      <4> QED BY <4>2, <1>LeaveKept, Zenon
    <3>2. stop[h] => stop'[h]
      BY Zenon
    <3> QED BY <2>1, <3>1, <3>2, <1>QueueKept DEF requestVars
  <2>4. ASSUME NEW h \in Handle PROVE LifeOK(h)'
    <3>1. Len(pending'[h]) <= 1
      BY Zenon DEF CInv, ContractInv, LifeOK
    <3> QED BY <3>1, <1>LifeKept, Zenon DEF requestVars
  <2>5. ASSUME NEW u \in Thread PROVE WaitOK(u)'
    <3>1. call'[t] = r /\ (u # t => call'[u] = call[u])
      BY Zenon DEF CInv, IInv, HandleInv, HandleTypeOK, CallsTypeOK
    <3>2. CASE u = t
      BY <2>2, <3>1, <3>2, <1>WaitOver, Zenon
    <3>3. CASE u # t
      BY <2>2, <3>1, <3>3, <1>WaitKept, Zenon
    <3> QED BY <3>2, <3>3, Zenon
  <2> QED BY <2>1, <2>3, <2>4, <2>5, Zenon DEF ContractInv

\* Calls that return at once.
<1>CallContract.
    ASSUME CInv, NEW t \in Thread, NEW f, NEW h, NEW s, Call(t, f, h, s), CoreTypeOK',
           UNCHANGED <<commands, job, queries, registry, worker, stop, running, started, fd, sender, pending>>,
           next' \in Nat, next' >= next
    PROVE  ContractInv'
  <2> USE <1>CallContract
  <2> DEFINE r == [fn |-> f, h |-> h, at |-> "idle", status |-> s, reply |-> "none", ticket |-> 0]
  <2>1. r.ticket = 0 /\ r.at = "idle"
    BY Zenon
  <2>2. call' = [call EXCEPT ![t] = r] /\ tickets' = tickets /\ call[t].at = "idle"
    BY Zenon DEF Call, Enter, MayCall
  <2> HIDE DEF r
  <2>3. UNCHANGED requestVars
    BY <2>2, Zenon DEF requestVars
  <2> QED BY <2>1, <2>2, <2>3, <1>LeaveInv, Zenon

<1>ShutdownContract.
    ASSUME CInv, NEW t \in Thread, NEW f \in Stops, NEW h \in Handle, Shutdown(t, f, h)
    PROVE  ContractInv'
  <2> USE <1>ShutdownContract
  <2> USE DEF regVars, coreVars, workerVars, bridgeVars, logVars
  <2>1. /\ UNCHANGED <<commands, job, queries, registry, worker, running, started, fd, sender, pending>>
        /\ UNCHANGED <<next, changed, logs, logged>>
    BY Zenon DEF Shutdown
  <2>2. /\ stop \in [Handle -> BOOLEAN] /\ next \in Nat /\ LifeOK(h)
    BY Zenon DEF CInv, ContractInv, CoreTypeOK, IInv, HandleInv, HandleTypeOK
  <2>3. stop' \in [Handle -> BOOLEAN]
    BY <2>2, Zenon DEF Shutdown
  <2>4. CoreTypeOK' /\ next' \in Nat /\ next' >= next
    BY <2>1, <2>2, <2>3 DEF CInv, ContractInv, CoreTypeOK
  <2>5. CASE UNCHANGED stop /\ Call(t, f, h, "ERROR")
    BY <2>1, <2>4, <2>5, <1>CallContract, Zenon
  <2>6. CASE /\ h \in registry /\ Enter(t, f, h, "locking", "none", 0)
             /\ stop' = [stop EXCEPT ![h] = TRUE]
    <3> DEFINE r == [fn |-> f, h |-> h, at |-> "locking", status |-> "none", reply |-> "none", ticket |-> 0]
    <3>1. r.ticket = 0 /\ r.at = "locking" /\ r.fn = f
      BY Zenon
    <3>2. call' = [call EXCEPT ![t] = r] /\ tickets' = tickets /\ call[t].at = "idle"
      BY <2>6, Zenon DEF Enter, MayCall
    <3> HIDE DEF r
    <3>3. UNCHANGED <<requestVars, worker, running, started, fd, sender, pending>>
      BY <2>1, <3>2, Zenon DEF requestVars
    <3>4. \A g \in Handle : stop'[g] = stop[g] \/ (stop'[g] /\ worker[g] # "none")
      BY <2>2, <2>6, Zenon DEF LifeOK
    <3> QED BY <2>1, <2>4, <3>1, <3>2, <3>3, <3>4, <1>LeaveInv, Zenon
  <2> QED BY <2>5, <2>6, Zenon DEF Shutdown

\* The members of a queue after Append and Tail.
<1>AppendMembers.
    ASSUME NEW S, NEW q \in Seq(S), NEW c \in S
    PROVE  Members(Append(q, c)) = Members(q) \union {c}
  <2> USE <1>AppendMembers
  <2> DEFINE p == Append(q, c)
  <2>1. /\ Len(p) = Len(q) + 1 /\ Len(q) \in Nat
        /\ \A i \in 1..Len(q) : p[i] = q[i]
        /\ p[Len(q) + 1] = c
    BY Appended
  <2> HIDE DEF p
  <2>2. ASSUME NEW i \in 1..Len(p) PROVE p[i] \in Members(q) \union {c}
    <3>1. i \in 1..Len(q) \/ i = Len(q) + 1
      BY <2>1
    <3> QED BY <2>1, <3>1, Zenon DEF Members
  <2>3. ASSUME NEW i \in 1..Len(q) PROVE q[i] \in Members(p)
    <3>1. i \in 1..Len(p)
      BY <2>1
    <3> QED BY <2>1, <3>1, Zenon DEF Members
  <2>4. c \in Members(p)
    <3>1. Len(q) + 1 \in 1..Len(p)
      BY <2>1
    <3> QED BY <2>1, <3>1, Zenon DEF Members
  <2>5. Members(p) = Members(q) \union {c}
    BY <2>2, <2>3, <2>4, Zenon DEF Members
  <2> QED BY <2>5, Zenon DEF p

\* A command or a query is queued.
<1>EnqueueContract.
    ASSUME CInv, NEW t \in Thread, NEW f \in Commands \union Queries, NEW h \in Handle, h \in registry,
           Enqueue(t, f, h), CoreTypeOK',
           UNCHANGED <<job, queries, lifeVars, stop, sender, pending>>
    PROVE  ContractInv'
  <2> USE <1>EnqueueContract
  <2>0. tickets \in Nat
    BY Zenon DEF CInv, ContractInv, RequestsTypeOK
  <2>k. PICK k \in Nat : k = tickets + 1
    BY <2>0
  <2> DEFINE new == [fn |-> f, thread |-> t, ticket |-> k]
             r == [fn |-> f, h |-> h, at |-> "waiting", status |-> "none", reply |-> "none", ticket |-> k]
  <2>1. /\ tickets \in Nat /\ commands \in [Handle -> Seq(Request)] /\ next \in Nat
        /\ RequestsTypeOK /\ QueueOK(h) /\ LifeOK(h)
    BY Zenon DEF CInv, ContractInv, RequestsTypeOK, IInv, HandleInv, HandleTypeOK
  <2>2. k \in Nat /\ k > tickets /\ k # 0
    BY <2>1, <2>k
  <2>3. /\ r.fn = f /\ r.h = h /\ r.at = "waiting" /\ r.status = "none" /\ r.reply = "none" /\ r.ticket = k
        /\ new.fn = f /\ new.thread = t /\ new.ticket = k /\ new \in Request
    BY <2>2, Zenon DEF Request
  <2>4. Enter(t, f, h, "waiting", "none", k)
    BY <2>k, Zenon DEF Enqueue
  <2>5. call' = [call EXCEPT ![t] = r] /\ tickets' = k
    BY <2>2, <2>4, Zenon DEF Enter
  <2>6. commands' = [commands EXCEPT ![h] = Append(@, new)]
    BY <2>5, Zenon DEF Enqueue
  <2> HIDE DEF r, new
  <2>7. /\ commands'[h] = Append(commands[h], new) /\ \A g \in Handle \ {h} : commands'[g] = commands[g]
        /\ commands[h] \in Seq(Request)
    BY <2>1, <2>6, Zenon
  <2>8. commands' \in [Handle -> Seq(Request)]
    <3>1. Append(commands[h], new) \in Seq(Request)
      BY <2>3, <2>7, Appended, Zenon
    <3> QED BY <2>1, <2>6, <3>1, Zenon
  <2>9. RequestsTypeOK'
    BY <2>1, <2>2, <2>5, <2>8, Zenon DEF RequestsTypeOK
  <2>10. Monotone
    BY <2>1, <2>2, <2>5 DEF Monotone, lifeVars
  <2>11. call'[t] = r /\ \A u \in Thread \ {t} : call'[u] = call[u]
    BY <2>5, Zenon DEF CInv, IInv, HandleInv, HandleTypeOK, CallsTypeOK
  <2>12. ASSUME NEW g \in Handle, NEW c \in Asked(g) PROVE \A u \in Thread : CallKept(u, g, c)
    BY <2>k, <2>4, <1>EnterKept, Zenon
  <2>13. ASSUME NEW g \in Handle PROVE QueueOK(g)'
    <3>1. CASE g # h
      BY <2>7, <2>9, <2>10, <2>12, <3>1, <1>QueueKept, Zenon DEF lifeVars, Monotone
    <3>2. CASE g = h
      <4>1. /\ Len(commands'[h]) = Len(commands[h]) + 1 /\ Len(commands[h]) \in Nat
            /\ \A i \in 1..Len(commands[h]) : commands'[h][i] = commands[h][i]
            /\ commands'[h][Len(commands[h]) + 1] = new
        BY <2>3, <2>7, Appended
      <4>2. Queue(h)' = Queue(h) \union {new}
        BY <2>3, <2>7, <1>AppendMembers DEF Queue
      <4>3. Serving(h)' = Serving(h) /\ Asked(h)' = Asked(h) \union {new}
        BY <4>2, Zenon DEF Serving, Asked
      <4>4. ASSUME NEW c \in Asked(h) PROVE AskedOK(h, c)'
        <5>1. c \in Request /\ AskedOK(h, c)
          BY AskedFacts, Zenon
        <5> QED BY <2>1, <2>10, <2>12, <5>1, <1>AskedKept, Zenon DEF Monotone
      <4>5. AskedOK(h, new)'
        <5>1. \A u \in Thread \ {t} : call'[u].ticket # k
          BY <2>1, <2>2, <2>11 DEF CInv, ContractInv, WaitOK
        <5>2. k \in 1..tickets'
          BY <2>2, <2>5
        <5> QED BY <2>3, <2>11, <5>1, <5>2, ZenonT(60) DEF AskedOK
      <4>6. \A c \in Asked(h) : c.ticket \in Nat /\ c.ticket < k
        BY <2>1, <2>2, AskedFacts
      <4>7. \A i, j \in 1..Len(commands'[h]) : i < j => commands'[h][i].ticket < commands'[h][j].ticket
        <5>1. \A i \in 1..Len(commands[h]) : commands[h][i] \in Asked(h)
          BY Zenon DEF Asked, Queue, Members
        <5> TAKE i, j \in 1..Len(commands'[h])
        <5> HAVE i < j
        <5>2. i \in 1..Len(commands[h]) /\ (j \in 1..Len(commands[h]) \/ j = Len(commands[h]) + 1)
          BY <4>1
        <5>3. CASE j \in 1..Len(commands[h])
          BY <2>1, <4>1, <5>2, <5>3, Zenon DEF QueueOK
        <5>4. CASE j = Len(commands[h]) + 1
          BY <2>3, <4>1, <4>6, <5>1, <5>2, <5>4, ZenonT(60)
        <5> QED BY <5>2, <5>3, <5>4, Zenon
      <4>8. \A c \in Serving(h) : c.fn = "start" /\ \A d \in Queue(h)' : c.ticket < d.ticket
        BY <2>1, <2>3, <4>2, <4>6 DEF QueueOK, Asked
      <4> QED BY <2>1, <3>2, <4>3, <4>4, <4>5, <4>7, <4>8, ZenonT(60) DEF QueueOK, lifeVars
    <3> QED BY <3>1, <3>2, Zenon
  <2>14. ASSUME NEW g \in Handle PROVE LifeOK(g)'
    <3>1. Len(pending'[g]) <= 1 /\ next' \in Nat /\ next' >= next
      BY <2>1, AtLeast, Zenon DEF CInv, ContractInv, LifeOK, lifeVars
    <3> QED BY <3>1, <1>LifeKept, ZenonT(60) DEF lifeVars
  <2>15. ASSUME NEW u \in Thread PROVE WaitOK(u)'
    <3>1. CASE u = t
      <4>1. r.ticket \in 0..tickets'
        BY <2>2, <2>3, <2>5
      <4>2. worker'[h] # "none"
        BY <2>1, Zenon DEF LifeOK, lifeVars
      <4>3. ReplyOK(r)'
        BY <2>3, Zenon DEF ReplyOK
      <4> QED BY <2>3, <2>11, <3>1, <4>1, <4>2, <4>3, Zenon DEF WaitOK, ReplyOK
    <3>2. CASE u # t
      BY <2>10, <2>11, <3>2, <1>WaitKept, Zenon
    <3> QED BY <3>1, <3>2, ZenonT(60)
  <2> QED BY <2>9, <2>13, <2>14, <2>15, Zenon DEF ContractInv

(* Steps of one handle *)

<1>OneHandle.
    ASSUME CInv, NEW h \in Handle, RequestsTypeOK', CoreTypeOK', Monotone,
           UNCHANGED <<registry, next, pending>>,
           \A g \in Handle \ {h} :
              /\ commands'[g] = commands[g] /\ job'[g] = job[g] /\ queries'[g] = queries[g]
              /\ worker'[g] = worker[g] /\ stop'[g] = stop[g] /\ running'[g] = running[g]
              /\ started'[g] = started[g] /\ fd'[g] = fd[g] /\ sender'[g] = sender[g],
           \A g \in Handle \ {h} : \A c \in Asked(g) : \A t \in Thread : CallKept(t, g, c),
           QueueOK(h)', LifeOK(h)', \A t \in Thread : WaitOK(t)'
    PROVE  ContractInv'
  <2> USE <1>OneHandle
  <2>1. ASSUME NEW g \in Handle \ {h} PROVE QueueOK(g)'
    BY <1>QueueKept, Zenon DEF Monotone
  <2>2. ASSUME NEW g \in Handle \ {h} PROVE LifeOK(g)'
    <3>1. Len(pending'[g]) <= 1 /\ next' \in Nat /\ next' >= next
      BY AtLeast, Zenon DEF CInv, ContractInv, LifeOK, IInv, HandleInv, HandleTypeOK
    <3> QED BY <3>1, <1>LifeKept, ZenonT(60)
  <2> QED BY <2>1, <2>2, Zenon DEF ContractInv

\* A step of the worker that replies to no call and takes no request.
<1>WorkerContract.
    ASSUME CInv, NEW h \in Handle, CoreTypeOK', UNCHANGED <<requestVars, call, registry, next, pending, running, started, fd, stop>>,
           NEW w \in WorkerState \ {"none", "starting"}, worker[h] \notin {"none", "starting"},
           worker' = [worker EXCEPT ![h] = w], UNCHANGED sender,
           w \in {"select", "changing"} => worker[h] \in {"select", "changing"},
           worker[h] \in Exited => w \in Exited
    PROVE  ContractInv'
  <2> USE <1>WorkerContract
  <2>1. /\ RequestsTypeOK' /\ tickets \in Nat /\ LifeOK(h)
        /\ worker'[h] = w /\ \A g \in Handle \ {h} : worker'[g] = worker[g]
    BY Zenon DEF CInv, ContractInv, RequestsTypeOK, requestVars, IInv, HandleInv, HandleTypeOK
  <2>2. Monotone
    BY <2>1, AtLeast, Zenon DEF Monotone, requestVars
  <2>3. \A g \in Handle : \A c \in Asked(g) : \A t \in Thread : CallKept(t, g, c)
    BY Zenon DEF CallKept
  <2>4. QueueOK(h)'
    BY <2>1, <2>2, <2>3, <1>QueueKept, Zenon DEF requestVars, Monotone
  <2>5. LifeOK(h)'
    BY <2>1, Zenon DEF LifeOK, requestVars
  <2>6. ASSUME NEW t \in Thread PROVE WaitOK(t)'
    BY <2>2, <1>WaitKept, Zenon
  <2> QED BY <2>1, <2>2, <2>3, <2>4, <2>5, <2>6, <1>OneHandle, Zenon DEF requestVars

\* The start spawned the packet loop.
<1>SpawnContract.
    ASSUME CInv, NEW h \in Handle, SpawnPackets(h)
    PROVE  ContractInv'
  <2> USE <1>SpawnContract
  <2>1. /\ UNCHANGED <<requestVars, lifeVars, call, stop, changed, logs, logged, pending>>
        /\ worker[h] = "starting" /\ sender' = [sender EXCEPT ![h] = "idle"]
    BY Zenon DEF SpawnPackets, requestVars, lifeVars, regVars, coreVars, workerVars, logVars
  <2>2. /\ RequestsTypeOK' /\ CoreTypeOK' /\ tickets \in Nat /\ LifeOK(h)
        /\ sender'[h] = "idle" /\ \A g \in Handle \ {h} : sender'[g] = sender[g]
    BY <2>1, Zenon DEF CInv, ContractInv, RequestsTypeOK, CoreTypeOK, requestVars, lifeVars, IInv,
       BridgeInv, BridgeTypeOK
  <2>3. Monotone
    BY <2>1, <2>2, AtLeast, Zenon DEF Monotone, requestVars, lifeVars
  <2>4. \A g \in Handle : \A c \in Asked(g) : \A t \in Thread : CallKept(t, g, c)
    BY <2>1, Zenon DEF CallKept
  <2>5. QueueOK(h)'
    BY <2>1, <2>2, <2>3, <2>4, <1>QueueKept, Zenon DEF requestVars, lifeVars, Monotone
  <2>6. LifeOK(h)'
    BY <2>1, <2>2, Zenon DEF LifeOK, requestVars, lifeVars
  <2>7. ASSUME NEW t \in Thread PROVE WaitOK(t)'
    BY <2>1, <2>3, <1>WaitKept, Zenon
  <2> QED BY <2>1, <2>2, <2>3, <2>4, <2>5, <2>6, <2>7, <1>OneHandle, Zenon DEF requestVars, lifeVars

(* Requests are served *)

\* What a reply to request d of h does to waiting calls.
<1>RepliedWaits.
    ASSUME CInv, Monotone, NEW h \in Handle, NEW d \in Asked(h), NEW r, call' = Replied(d, r),
           d.fn = "start" => /\ r = "ok" => running'[h]
                             /\ r = "error" => running'[h] \/ stop'[h],
           d.fn = "set_fd" => (r = "ok" => fd'[h])
    PROVE  \A t \in Thread : WaitOK(t)'
  <2> USE <1>RepliedWaits
  <2> TAKE t \in Thread
  <2>1. AskedOK(h, d)
    BY AskedFacts, Zenon
  <2>2. CASE call'[t] = call[t]
    BY <2>2, <1>WaitKept, Zenon
  <2>3. CASE call'[t] = WithReply(call[t], r) /\ call[t].ticket = d.ticket
    <3>1. call[t].fn = d.fn /\ call[t].h = h
      BY <2>1, <2>3, Zenon DEF AskedOK
    <3> QED BY <2>3, <3>1, <1>WaitReplied, Zenon
  <2> QED BY <2>2, <2>3, Zenon DEF Replied

\* ... and to the requests of other handles.
<1>RepliedOthers.
    ASSUME CInv, NEW h \in Handle, NEW d \in Asked(h), NEW r, call' = Replied(d, r),
           NEW g \in Handle \ {h}, NEW c \in Asked(g)
    PROVE  \A t \in Thread : CallKept(t, g, c)
  <2> USE <1>RepliedOthers
  <2>1. AskedOK(h, d) /\ AskedOK(g, c)
    BY AskedFacts, ZenonT(60)
  <2>2. ASSUME NEW u \in Thread, call[u].ticket = c.ticket, d.ticket = c.ticket PROVE FALSE
    <3>1. call[u].h = h /\ call[u].h = g
      BY <2>1, <2>2, Zenon DEF AskedOK
    <3> QED BY <3>1, Zenon
  <2> QED BY <2>2, <1>RepliedKept, Zenon

\* Only requests that were there are left, and no start among them got a reply.
<1>ServedQueue.
    ASSUME CInv, RequestsTypeOK', Monotone, NEW h \in Handle, Asked(h)' \subseteq Asked(h),
           \A c \in Asked(h)' : \A t \in Thread : CallKept(t, h, c),
           \A c \in queries'[h] : c.fn \in Queries,
           \A i, j \in 1..Len(commands'[h]) : i < j => commands'[h][i].ticket < commands'[h][j].ticket,
           \A c \in Serving(h)' : c.fn = "start" /\ \A d \in Queue(h)' : c.ticket < d.ticket,
           worker'[h] = "starting" <=> job'[h] # <<>>
    PROVE  QueueOK(h)'
  <2> USE <1>ServedQueue
  <2>1. ASSUME NEW c \in Asked(h)' PROVE AskedOK(h, c)'
    <3>1. c \in Request /\ AskedOK(h, c) /\ tickets \in Nat
      BY AskedFacts, Zenon
    <3> QED BY <3>1, <1>AskedKept, Zenon DEF Monotone
  <2> QED BY <2>1, Zenon DEF QueueOK

\* A request older than all commands that are left, or a query, is replied to.
<1>ReplyServed.
    ASSUME CInv, RequestsTypeOK', Monotone, NEW h \in Handle, NEW d \in Asked(h), NEW r,
           call' = Replied(d, r), queries'[h] \subseteq queries[h],
           Queue(h)' \subseteq Queue(h),
           \A i, j \in 1..Len(commands'[h]) : i < j => commands'[h][i].ticket < commands'[h][j].ticket,
           job'[h] = <<>> \/ job'[h] = job[h],
           \/ job'[h] = <<>> /\ \A c \in Queue(h)' : d.ticket < c.ticket
           \/ d.fn \in Queries,
           worker'[h] = "starting" <=> job'[h] # <<>>
    PROVE  QueueOK(h)'
  <2> USE <1>ReplyServed
  <2>1. QueueOK(h) /\ AskedOK(h, d) /\ d \in Request
    BY AskedFacts, Zenon DEF CInv, ContractInv
  <2>2. Serving(h)' \subseteq Serving(h)
    BY Zenon DEF Serving
  <2>3. Asked(h)' \subseteq Asked(h)
    BY <2>2, Zenon DEF Asked
  <2>4. ASSUME NEW c \in Asked(h)' PROVE \A t \in Thread : CallKept(t, h, c)
    <3>1. AskedOK(h, c) /\ c \in Request /\ c \in Asked(h)
      BY <2>3, AskedFacts, Zenon
    <3>2. ASSUME NEW u \in Thread, c.fn = "start", call[u].ticket = c.ticket PROVE d.ticket # c.ticket
      <4>1. CASE d.fn \in Queries
        BY <2>1, <3>1, <3>2, <4>1, ZenonT(60) DEF AskedOK, Queries
      <4>2. CASE job'[h] = <<>> /\ \A b \in Queue(h)' : d.ticket < b.ticket
        <5>1. c \notin queries[h]
          BY <2>1, <3>2, Zenon DEF QueueOK, Queries
        <5>2. c \in Queue(h)'
          BY <4>2, <5>1, Zenon DEF Asked, Serving
        <5> QED BY <2>1, <3>1, <4>2, <5>2 DEF Request
      <4> QED BY <4>1, <4>2, Zenon
    <3> QED BY <3>1, <3>2, <1>RepliedKept, Zenon
  <2>5. \A c \in Serving(h)' : c.fn = "start" /\ \A b \in Queue(h)' : c.ticket < b.ticket
    BY <2>1, <2>2, Zenon DEF QueueOK
  <2>6. \A c \in queries'[h] : c.fn \in Queries
    BY <2>1, Zenon DEF QueueOK
  <2> QED BY <2>3, <2>4, <2>5, <2>6, <1>ServedQueue, Zenon

\* The worker takes a start: it serves it, or refuses a second one.
<1>TakeStartContract.
    ASSUME CInv, NEW h \in Handle, NEW c, TakeStart(h, c)
    PROVE  ContractInv'
  <2> USE <1>TakeStartContract
  <2>1. Receive(h, c) /\ c.fn = "start"
    BY Zenon DEF TakeStart
  <2>2. /\ c \in Request /\ c \in Queue(h) /\ c \in Asked(h) /\ AskedOK(h, c)
        /\ commands' \in [Handle -> Seq(Request)]
        /\ \A g \in Handle \ {h} : commands'[g] = commands[g]
        /\ Queue(h)' \subseteq Queue(h) /\ \A d \in Queue(h)' : c.ticket < d.ticket
        /\ \A i, j \in 1..Len(commands'[h]) : i < j => commands'[h][i].ticket < commands'[h][j].ticket
        /\ worker[h] = "select" /\ ~stop[h] /\ job[h] = <<>>
    BY <2>1, ReceiveFacts, Zenon
  <2>3. UNCHANGED <<registry, next, pending, sender, fd, stop, running, changed, logs, logged, queries, tickets>>
    BY Zenon DEF TakeStart, regVars, logVars, bridgeVars
  <2>4. /\ tickets \in Nat /\ LifeOK(h) /\ QueueOK(h) /\ worker \in [Handle -> WorkerState]
        /\ job \in [Handle -> {<<>>} \union {<<d>> : d \in Request}]
        /\ started \in [Handle -> BOOLEAN] /\ RequestsTypeOK /\ CoreTypeOK
    BY ZenonT(60) DEF CInv, ContractInv, RequestsTypeOK, CoreTypeOK, IInv, HandleInv, HandleTypeOK
  <2>5. CASE /\ ~started[h] /\ UNCHANGED call
             /\ started' = [started EXCEPT ![h] = TRUE]
             /\ worker' = [worker EXCEPT ![h] = "starting"]
             /\ job' = [job EXCEPT ![h] = <<c>>]
    <3>1. /\ worker'[h] = "starting" /\ job'[h] = <<c>> /\ started'[h]
          /\ \A g \in Handle \ {h} : worker'[g] = worker[g] /\ job'[g] = job[g] /\ started'[g] = started[g]
          /\ job' \in [Handle -> {<<>>} \union {<<d>> : d \in Request}] /\ started' \in [Handle -> BOOLEAN]
      BY <2>2, <2>4, <2>5, Zenon
    <3>2. RequestsTypeOK' /\ CoreTypeOK'
      BY <2>2, <2>3, <2>4, <3>1, Zenon DEF RequestsTypeOK, CoreTypeOK
    <3>3. Monotone
      <4>1. \A g \in Handle : worker[g] # "none" => worker'[g] # "none"
        BY <3>1, ZenonT(60)
      <4> QED BY <2>3, <2>4, <4>1, AtLeast, ZenonT(60) DEF Monotone
    <3>4. \A g \in Handle : \A d \in Asked(g) : \A t \in Thread : CallKept(t, g, d)
      BY <2>5, Zenon DEF CallKept
    <3>5. Serving(h)' = {c} /\ Asked(h)' \subseteq Asked(h)
      <4>1. job'[h] # <<>> /\ job'[h][1] = c
        BY <3>1
      <4>2. Serving(h)' = {c}
        BY <4>1, Zenon DEF Serving
      <4> QED BY <2>2, <2>3, <4>2, ZenonT(60) DEF Asked
    <3>6. QueueOK(h)'
      <4>1. \A d \in Asked(h)' : \A t \in Thread : CallKept(t, h, d)
        BY <3>4, <3>5, Zenon
      <4>2. \A d \in queries'[h] : d.fn \in Queries
        BY <2>3, <2>4, Zenon DEF QueueOK
      <4>3. \A d \in Serving(h)' : d.fn = "start" /\ \A e \in Queue(h)' : d.ticket < e.ticket
        BY <2>1, <2>2, <3>5, Zenon
      <4>4. worker'[h] = "starting" <=> job'[h] # <<>>
        BY <3>1
      <4> QED BY <2>2, <3>2, <3>3, <3>5, <4>1, <4>2, <4>3, <4>4, <1>ServedQueue, Zenon
    <3>7. LifeOK(h)'
      BY <2>2, <2>3, <2>4, <2>5, <3>1, Zenon DEF LifeOK, Active, Exited
    <3>8. ASSUME NEW t \in Thread PROVE WaitOK(t)'
      BY <2>5, <3>3, <1>WaitKept, Zenon
    <3> QED BY <2>2, <2>3, <3>1, <3>2, <3>3, <3>4, <3>6, <3>7, <3>8, <1>OneHandle, Zenon
  <2>6. CASE started[h] /\ call' = Replied(c, "error") /\ UNCHANGED <<started, worker, job>>
    <3>1. RequestsTypeOK' /\ CoreTypeOK' /\ Monotone
      <4>1. RequestsTypeOK' /\ CoreTypeOK'
        BY <2>2, <2>3, <2>4, <2>6, ZenonT(60) DEF RequestsTypeOK, CoreTypeOK
      <4>2. Monotone
        BY <2>3, <2>4, <2>6, AtLeast, ZenonT(60) DEF Monotone
      <4> QED BY <4>1, <4>2, Zenon
    <3>2. running'[h]
      BY <2>2, <2>3, <2>4, <2>6, Zenon DEF LifeOK
    <3>3. \A t \in Thread : WaitOK(t)'
      BY <2>1, <2>2, <2>6, <3>1, <3>2, <1>RepliedWaits, Zenon
    <3>4. \A g \in Handle \ {h} : \A d \in Asked(g) : \A t \in Thread : CallKept(t, g, d)
      BY <2>2, <2>6, <1>RepliedOthers, Zenon
    <3>5. QueueOK(h)'
      BY <2>2, <2>3, <2>4, <2>6, <3>1, <1>ReplyServed, Zenon DEF QueueOK
    <3>6. LifeOK(h)'
      BY <2>3, <2>4, <2>6, Zenon DEF LifeOK
    <3> QED BY <2>2, <2>3, <2>6, <3>1, <3>3, <3>4, <3>5, <3>6, <1>OneHandle, Zenon
  <2> QED BY <2>5, <2>6, Zenon DEF TakeStart, MayStart

\* The start that was served ends with a reply.
<1>StartEnds.
    ASSUME CInv, NEW h \in Handle, worker[h] = "starting", NEW r, NEW w \in {"select", "unwinding"},
           call' = Replied(job[h][1], r), job' = [job EXCEPT ![h] = <<>>],
           worker' = [worker EXCEPT ![h] = w], CoreTypeOK',
           UNCHANGED <<registry, next, pending, sender, fd, commands, queries, tickets>>,
           \A g \in Handle \ {h} : stop'[g] = stop[g] /\ running'[g] = running[g] /\ started'[g] = started[g],
           stop[h] => stop'[h], running'[h] => started'[h],
           r = "ok" => running'[h], r = "error" => stop'[h], w = "select" => running'[h] \/ stop'[h]
    PROVE  ContractInv'
  <2> USE <1>StartEnds
  <2>1. /\ tickets \in Nat /\ LifeOK(h) /\ QueueOK(h) /\ worker \in [Handle -> WorkerState]
        /\ job \in [Handle -> {<<>>} \union {<<d>> : d \in Request}] /\ RequestsTypeOK
    BY Zenon DEF CInv, ContractInv, RequestsTypeOK, IInv, HandleInv, HandleTypeOK
  <2>2. ~running[h]
    BY <2>1, Zenon DEF LifeOK
  <2> DEFINE d == job[h][1]
  <2>3. d \in Serving(h) /\ d \in Asked(h) /\ d.fn = "start" /\ \A c \in Queue(h) : d.ticket < c.ticket
    BY <2>1, Zenon DEF QueueOK, Serving, Asked
  <2>4. /\ worker'[h] = w /\ job'[h] = <<>>
        /\ \A g \in Handle \ {h} : worker'[g] = worker[g] /\ job'[g] = job[g]
        /\ job' \in [Handle -> {<<>>} \union {<<e>> : e \in Request}]
    BY <2>1, Zenon
  <2>5. RequestsTypeOK'
    BY <2>1, <2>4, ZenonT(60) DEF RequestsTypeOK
  <2>6. Monotone
    <3>1. tickets' \in Nat /\ tickets <= tickets'
      BY <2>1, AtLeast, Zenon
    <3>2. \A g \in Handle :
             /\ running[g] => running'[g]
             /\ stop[g] => stop'[g]
             /\ fd[g] => fd'[g]
             /\ worker[g] # "none" => worker'[g] # "none"
      BY <2>2, <2>4, Zenon
    <3> QED BY <3>1, <3>2, Zenon DEF Monotone
  <2>7. call' = Replied(d, r)
    BY ZenonT(60)
  <2> HIDE DEF d
  <2>8. \A t \in Thread : WaitOK(t)'
    <3>1. /\ d.fn = "start" => (r = "ok" => running'[h]) /\ (r = "error" => running'[h] \/ stop'[h])
          /\ d.fn = "set_fd" => (r = "ok" => fd'[h])
      BY <2>3, Zenon
    <3> QED BY <2>3, <2>6, <2>7, <3>1, <1>RepliedWaits, ZenonT(60)
  <2>9. \A g \in Handle \ {h} : \A c \in Asked(g) : \A t \in Thread : CallKept(t, g, c)
    BY <2>3, <2>7, <1>RepliedOthers, Zenon
  <2>10. Queue(h)' = Queue(h)
    BY Zenon DEF Queue
  <2>11. QueueOK(h)'
    <3>1. /\ queries'[h] \subseteq queries[h] /\ Queue(h)' \subseteq Queue(h)
          /\ \A i, j \in 1..Len(commands'[h]) : i < j => commands'[h][i].ticket < commands'[h][j].ticket
          /\ job'[h] = <<>> \/ job'[h] = job[h]
          /\ \/ job'[h] = <<>> /\ \A c \in Queue(h)' : d.ticket < c.ticket
             \/ d.fn \in Queries
          /\ worker'[h] = "starting" <=> job'[h] # <<>>
      BY <2>1, <2>3, <2>4, <2>10, ZenonT(60) DEF QueueOK
    <3> QED BY <2>3, <2>5, <2>6, <2>7, <3>1, <1>ReplyServed, ZenonT(60)
  <2>12. LifeOK(h)'
    BY <2>1, <2>4, Zenon DEF LifeOK, Exited
  <2> QED BY <2>4, <2>5, <2>6, <2>8, <2>9, <2>11, <2>12, <1>OneHandle, ZenonT(60)

<1>StartOkContract.
    ASSUME CInv, NEW h \in Handle, StartOk(h)
    PROVE  ContractInv'
  <2> USE <1>StartOkContract
  <2>1. /\ UNCHANGED <<registry, next, pending, sender, fd, commands, queries, tickets>>
        /\ UNCHANGED <<stop, started, changed, logs, logged>>
        /\ worker[h] = "starting" /\ call' = Replied(job[h][1], "ok")
        /\ job' = [job EXCEPT ![h] = <<>>] /\ worker' = [worker EXCEPT ![h] = "select"]
        /\ running' = [running EXCEPT ![h] = TRUE]
    BY Zenon DEF StartOk, regVars, logVars, bridgeVars
  <2>2. running \in [Handle -> BOOLEAN] /\ CoreTypeOK /\ LifeOK(h) /\ QueueOK(h)
    BY Zenon DEF CInv, ContractInv, CoreTypeOK
  <2>3. /\ running' \in [Handle -> BOOLEAN] /\ running'[h]
        /\ \A g \in Handle \ {h} : running'[g] = running[g]
    BY <2>1, <2>2, Zenon
  <2>4. CoreTypeOK'
    BY <2>1, <2>2, <2>3, Zenon DEF CoreTypeOK
  <2>5. started[h]
    BY <2>1, <2>2, Zenon DEF LifeOK
  <2>6. /\ \A g \in Handle \ {h} : stop'[g] = stop[g] /\ running'[g] = running[g] /\ started'[g] = started[g]
        /\ running'[h] => started'[h]
    BY <2>1, <2>3, <2>5, Zenon
  <2>7. "select" \in {"select", "unwinding"} /\ "error" # "ok"
    BY Zenon
  <2> QED BY <2>1, <2>3, <2>4, <2>6, <2>7, <1>StartEnds, Zenon

<1>StartFailedContract.
    ASSUME CInv, NEW h \in Handle, StartFailed(h)
    PROVE  ContractInv'
  <2> USE <1>StartFailedContract
  <2>1. /\ UNCHANGED <<registry, next, pending, sender, fd, commands, queries, tickets>>
        /\ UNCHANGED <<running, changed, logs, logged>>
        /\ worker[h] = "starting" /\ call' = Replied(job[h][1], "error")
        /\ job' = [job EXCEPT ![h] = <<>>] /\ worker' = [worker EXCEPT ![h] = "select"]
        /\ stop' = [stop EXCEPT ![h] = TRUE] /\ started' = [started EXCEPT ![h] = FALSE]
    BY Zenon DEF StartFailed, regVars, logVars, bridgeVars
  <2>2. stop \in [Handle -> BOOLEAN] /\ started \in [Handle -> BOOLEAN] /\ CoreTypeOK /\ LifeOK(h)
    BY Zenon DEF CInv, ContractInv, CoreTypeOK
  <2>3. /\ stop' \in [Handle -> BOOLEAN] /\ stop'[h] /\ started' \in [Handle -> BOOLEAN]
        /\ \A g \in Handle \ {h} : stop'[g] = stop[g] /\ started'[g] = started[g]
    BY <2>1, <2>2, Zenon
  <2>4. CoreTypeOK'
    BY <2>1, <2>2, <2>3, Zenon DEF CoreTypeOK
  <2>5. ~running'[h]
    BY <2>1, <2>2, Zenon DEF LifeOK
  <2>6. /\ \A g \in Handle \ {h} : stop'[g] = stop[g] /\ running'[g] = running[g] /\ started'[g] = started[g]
        /\ running'[h] => started'[h]
    BY <2>1, <2>3, <2>5, Zenon
  <2>7. "select" \in {"select", "unwinding"} /\ "error" # "ok"
    BY Zenon
  <2> QED BY <2>1, <2>3, <2>4, <2>6, <2>7, <1>StartEnds, ZenonT(60)

<1>PanicContract.
    ASSUME CInv, NEW h \in Handle, WorkerPanics(h)
    PROVE  ContractInv'
  <2> USE <1>PanicContract
  <2>1. /\ UNCHANGED <<registry, next, pending, sender, fd, commands, queries, tickets>>
        /\ UNCHANGED <<running, started, changed, logs, logged>>
        /\ worker[h] \in {"starting", "changing"}
        /\ call' = IF job[h] = <<>> THEN call ELSE Replied(job[h][1], "dropped")
        /\ job' = [job EXCEPT ![h] = <<>>] /\ worker' = [worker EXCEPT ![h] = "unwinding"]
        /\ stop' = [stop EXCEPT ![h] = @ \/ running[h]]
    BY Zenon DEF WorkerPanics, regVars, logVars, bridgeVars
  <2>2. /\ stop \in [Handle -> BOOLEAN] /\ running \in [Handle -> BOOLEAN] /\ tickets \in Nat
        /\ CoreTypeOK /\ LifeOK(h) /\ QueueOK(h) /\ RequestsTypeOK
        /\ worker \in [Handle -> WorkerState]
        /\ job \in [Handle -> {<<>>} \union {<<d>> : d \in Request}]
    BY Zenon DEF CInv, ContractInv, CoreTypeOK, RequestsTypeOK, IInv, HandleInv, HandleTypeOK
  <2>3. /\ stop' \in [Handle -> BOOLEAN] /\ (stop[h] => stop'[h])
        /\ \A g \in Handle \ {h} : stop'[g] = stop[g]
    BY <2>1, <2>2, Zenon
  <2>4. CoreTypeOK'
    BY <2>1, <2>2, <2>3, Zenon DEF CoreTypeOK
  <2>5. CASE worker[h] = "starting"
    <3>1. job[h] # <<>> /\ ~running[h]
      BY <2>2, <2>5, Zenon DEF QueueOK, LifeOK
    <3>2. /\ \A g \in Handle \ {h} : stop'[g] = stop[g] /\ running'[g] = running[g] /\ started'[g] = started[g]
          /\ running'[h] => started'[h]
      BY <2>1, <2>2, <2>3, Zenon DEF LifeOK
    <3>3. /\ "unwinding" \in {"select", "unwinding"} /\ "dropped" # "ok" /\ "dropped" # "error"
          /\ "unwinding" # "select"
      BY ZenonT(60)
    <3> QED BY <2>1, <2>3, <2>4, <2>5, <3>1, <3>2, <3>3, <1>StartEnds, ZenonT(60)
  <2>6. CASE worker[h] = "changing"
    <3>1. job[h] = <<>>
      BY <2>2, <2>6, Zenon DEF QueueOK
    <3>2. /\ job' = job /\ call' = call /\ worker'[h] = "unwinding"
          /\ \A g \in Handle \ {h} : worker'[g] = worker[g]
      BY <2>1, <2>2, <3>1, ZenonT(60)
    <3>3. RequestsTypeOK' /\ Monotone
      <4>1. RequestsTypeOK'
        BY <2>1, <2>2, <2>3, <3>2, ZenonT(60) DEF RequestsTypeOK
      <4>2. \A g \in Handle : worker[g] # "none" => worker'[g] # "none"
        BY <3>2, ZenonT(60)
      <4>3. Monotone
        BY <2>1, <2>2, <2>3, <3>2, <4>2, AtLeast, ZenonT(60) DEF Monotone
      <4> QED BY <4>1, <4>3, Zenon
    <3>4. \A g \in Handle : \A c \in Asked(g) : \A t \in Thread : CallKept(t, g, c)
      BY <3>2, Zenon DEF CallKept
    <3>5. QueueOK(h)'
      BY <2>1, <2>3, <2>6, <3>2, <3>3, <3>4, <1>QueueKept, ZenonT(60) DEF Monotone
    <3>6. LifeOK(h)'
      BY <2>1, <2>2, <2>6, <3>2, Zenon DEF LifeOK, Exited
    <3>7. \A t \in Thread : WaitOK(t)'
      BY <3>2, <3>3, <1>WaitKept, ZenonT(60)
    <3> QED BY <2>1, <2>3, <2>4, <3>2, <3>3, <3>4, <3>5, <3>6, <3>7, <1>OneHandle, ZenonT(60)
  <2> QED BY <2>1, <2>5, <2>6, Zenon

\* set_fd is served.
<1>TakeFdContract.
    ASSUME CInv, NEW h \in Handle, NEW c, TakeFd(h, c)
    PROVE  ContractInv'
  <2> USE <1>TakeFdContract
  <2>1. Receive(h, c) /\ c.fn = "set_fd"
    BY Zenon DEF TakeFd
  <2>2. /\ c \in Request /\ c \in Queue(h) /\ c \in Asked(h) /\ AskedOK(h, c)
        /\ commands' \in [Handle -> Seq(Request)]
        /\ \A g \in Handle \ {h} : commands'[g] = commands[g]
        /\ Queue(h)' \subseteq Queue(h) /\ \A d \in Queue(h)' : c.ticket < d.ticket
        /\ \A i, j \in 1..Len(commands'[h]) : i < j => commands'[h][i].ticket < commands'[h][j].ticket
        /\ worker[h] = "select" /\ ~stop[h] /\ job[h] = <<>>
    BY <2>1, ReceiveFacts, Zenon
  <2>3. UNCHANGED <<registry, next, pending, worker, job, stop, started, running, changed, logs, logged, queries, tickets>>
    BY Zenon DEF TakeFd, regVars, logVars
  <2>4. /\ tickets \in Nat /\ LifeOK(h) /\ RequestsTypeOK /\ CoreTypeOK
        /\ fd \in [Handle -> BOOLEAN] /\ sender \in [Handle -> SenderState]
    BY Zenon DEF CInv, ContractInv, RequestsTypeOK, IInv, HandleInv, HandleTypeOK, BridgeInv,
       BridgeTypeOK
  <2>5. PICK r : /\ call' = Replied(c, r)
                 /\ \/ r = "error" /\ UNCHANGED <<fd, sender>>
                    \/ /\ fd' = [fd EXCEPT ![h] = TRUE]
                       /\ sender' = [sender EXCEPT ![h] = "gone"]
    BY Zenon DEF TakeFd
  <2>6. /\ \A g \in Handle \ {h} : fd'[g] = fd[g] /\ sender'[g] = sender[g]
        /\ r = "ok" => fd'[h]
        /\ (fd'[h] = fd[h] /\ sender'[h] = sender[h]) \/ (fd'[h] /\ sender'[h] = "gone")
    BY <2>4, <2>5, Zenon
  <2>7. RequestsTypeOK' /\ CoreTypeOK' /\ Monotone
    <3>1. RequestsTypeOK' /\ CoreTypeOK'
      BY <2>2, <2>3, <2>4, Zenon DEF RequestsTypeOK, CoreTypeOK
    <3>2. \A g \in Handle : fd[g] => fd'[g]
      BY <2>6, ZenonT(60)
    <3> QED BY <2>3, <2>4, <3>1, <3>2, AtLeast, ZenonT(60) DEF Monotone
  <2>8. \A t \in Thread : WaitOK(t)'
    BY <2>1, <2>2, <2>5, <2>6, <2>7, <1>RepliedWaits, Zenon
  <2>9. \A g \in Handle \ {h} : \A d \in Asked(g) : \A t \in Thread : CallKept(t, g, d)
    BY <2>2, <2>5, <1>RepliedOthers, Zenon
  <2>10. QueueOK(h)'
    BY <2>2, <2>3, <2>5, <2>7, <1>ReplyServed, Zenon
  <2>11. LifeOK(h)'
    BY <2>3, <2>4, <2>6, ZenonT(60) DEF LifeOK, Active
  <2> QED BY <2>2, <2>3, <2>6, <2>7, <2>8, <2>9, <2>10, <2>11, <1>OneHandle, ZenonT(60)

\* A query is spawned as a task of its own.
<1>TakeQueryContract.
    ASSUME CInv, NEW h \in Handle, NEW c, TakeQuery(h, c)
    PROVE  ContractInv'
  <2> USE <1>TakeQueryContract
  <2>1. Receive(h, c) /\ c.fn \in Queries
    BY Zenon DEF TakeQuery
  <2>2. /\ c \in Request /\ c \in Queue(h) /\ c \in Asked(h) /\ AskedOK(h, c)
        /\ commands' \in [Handle -> Seq(Request)]
        /\ \A g \in Handle \ {h} : commands'[g] = commands[g]
        /\ Queue(h)' \subseteq Queue(h)
        /\ \A i, j \in 1..Len(commands'[h]) : i < j => commands'[h][i].ticket < commands'[h][j].ticket
        /\ worker[h] = "select" /\ job[h] = <<>>
    BY <2>1, ReceiveFacts, Zenon
  <2>3. /\ UNCHANGED <<registry, next, pending, worker, job, stop, started, running, changed, fd, sender>>
        /\ UNCHANGED <<logs, logged, tickets, call>>
        /\ queries' = [queries EXCEPT ![h] = @ \union {c}]
    BY Zenon DEF TakeQuery, regVars, coreVars, logVars, bridgeVars
  <2>4. /\ tickets \in Nat /\ LifeOK(h) /\ QueueOK(h) /\ RequestsTypeOK /\ CoreTypeOK
        /\ queries \in [Handle -> SUBSET Request]
    BY Zenon DEF CInv, ContractInv, RequestsTypeOK
  <2>5. /\ queries' \in [Handle -> SUBSET Request] /\ queries'[h] = queries[h] \union {c}
        /\ \A g \in Handle \ {h} : queries'[g] = queries[g]
    BY <2>2, <2>3, <2>4, ZenonT(60)
  <2>6. RequestsTypeOK' /\ CoreTypeOK' /\ Monotone
    <3>1. RequestsTypeOK' /\ CoreTypeOK'
      BY <2>2, <2>3, <2>4, <2>5, ZenonT(60) DEF RequestsTypeOK, CoreTypeOK
    <3>2. Monotone
      BY <2>3, <2>4, AtLeast, ZenonT(60) DEF Monotone
    <3> QED BY <3>1, <3>2, Zenon
  <2>7. \A g \in Handle : \A d \in Asked(g) : \A t \in Thread : CallKept(t, g, d)
    BY <2>3, Zenon DEF CallKept
  <2>8. Serving(h)' = {} /\ Asked(h)' \subseteq Asked(h)
    BY <2>2, <2>3, <2>5, ZenonT(60) DEF Serving, Asked
  <2>9. QueueOK(h)'
    BY <2>1, <2>2, <2>3, <2>4, <2>5, <2>6, <2>7, <2>8, <1>ServedQueue, ZenonT(60) DEF QueueOK
  <2>10. LifeOK(h)'
    BY <2>2, <2>3, <2>4, Zenon DEF LifeOK
  <2>11. \A t \in Thread : WaitOK(t)'
    BY <2>3, <2>6, <1>WaitKept, ZenonT(60)
  <2> QED BY <2>2, <2>3, <2>5, <2>6, <2>7, <2>9, <2>10, <2>11, <1>OneHandle, Zenon

<1>QueryDoneContract.
    ASSUME CInv, NEW h \in Handle, NEW q \in queries[h], QueryDone(h, q)
    PROVE  ContractInv'
  <2> USE <1>QueryDoneContract
  <2>1. /\ UNCHANGED <<registry, next, pending, worker, job, stop, started, running, changed, fd, sender>>
        /\ UNCHANGED <<logs, logged, tickets, commands>>
        /\ queries' = [queries EXCEPT ![h] = @ \ {q}]
    BY Zenon DEF QueryDone, regVars, coreVars, logVars, bridgeVars
  <2>2. PICK r : call' = Replied(q, r)
    BY Zenon DEF QueryDone
  <2>3. /\ tickets \in Nat /\ LifeOK(h) /\ QueueOK(h) /\ RequestsTypeOK /\ CoreTypeOK
        /\ queries \in [Handle -> SUBSET Request]
    BY Zenon DEF CInv, ContractInv, RequestsTypeOK
  <2>4. q \in Asked(h) /\ q.fn \in Queries
    BY <2>3, Zenon DEF Asked, QueueOK
  <2>5. /\ queries' \in [Handle -> SUBSET Request] /\ queries'[h] \subseteq queries[h]
        /\ \A g \in Handle \ {h} : queries'[g] = queries[g]
    BY <2>1, <2>3, ZenonT(60)
  <2>6. RequestsTypeOK' /\ CoreTypeOK' /\ Monotone
    BY <2>1, <2>3, <2>5 DEF RequestsTypeOK, CoreTypeOK, Monotone
  <2>7. \A t \in Thread : WaitOK(t)'
    BY <2>2, <2>4, <2>6, <1>RepliedWaits, Zenon DEF Queries
  <2>8. \A g \in Handle \ {h} : \A d \in Asked(g) : \A t \in Thread : CallKept(t, g, d)
    BY <2>2, <2>4, <1>RepliedOthers, Zenon
  <2>9. Queue(h)' = Queue(h)
    BY <2>1, ZenonT(60) DEF Queue
  <2>10. QueueOK(h)'
    BY <2>1, <2>2, <2>3, <2>4, <2>5, <2>6, <2>9, <1>ReplyServed, ZenonT(60) DEF QueueOK
  <2>11. LifeOK(h)'
    BY <2>1, <2>3, <2>5, Zenon DEF LifeOK
  <2> QED BY <2>1, <2>5, <2>6, <2>7, <2>8, <2>10, <2>11, <1>OneHandle, Zenon

\* The worker is gone, and with it every request.
<1>ExitContract.
    ASSUME CInv, NEW h \in Handle, WorkerExits(h)
    PROVE  ContractInv'
  <2> USE <1>ExitContract
  <2>1. /\ UNCHANGED <<registry, next, pending, job, stop, started, running, changed, fd>>
        /\ UNCHANGED <<logs, logged, tickets, queries>>
        /\ worker[h] \in {"dropping", "unwinding"} /\ queries[h] = {}
        /\ worker' = [worker EXCEPT ![h] = IF @ = "dropping" THEN "gone" ELSE "panicked"]
        /\ commands' = [commands EXCEPT ![h] = <<>>]
        /\ sender' = [sender EXCEPT ![h] = "gone"]
    BY Zenon DEF WorkerExits, RuntimeJoined, regVars, coreVars, logVars
  <2>2. /\ tickets \in Nat /\ LifeOK(h) /\ QueueOK(h) /\ RequestsTypeOK /\ CoreTypeOK
        /\ commands \in [Handle -> Seq(Request)] /\ worker \in [Handle -> WorkerState]
        /\ sender \in [Handle -> SenderState] /\ <<>> \in Seq(Request)
    BY EmptyQueue, Zenon DEF CInv, ContractInv, RequestsTypeOK, IInv, HandleInv, HandleTypeOK,
       BridgeInv, BridgeTypeOK
  <2>3. /\ worker'[h] \in Exited /\ commands'[h] = <<>> /\ sender'[h] = "gone"
        /\ commands' \in [Handle -> Seq(Request)]
        /\ \A g \in Handle \ {h} : worker'[g] = worker[g] /\ commands'[g] = commands[g] /\ sender'[g] = sender[g]
    BY <2>1, <2>2, Zenon DEF Exited
  <2>4. worker'[h] # "none" /\ worker'[h] \notin {"starting", "select", "changing"} /\ job[h] = <<>>
    BY <2>1, <2>2, <2>3, Zenon DEF Exited, QueueOK
  <2>5. RequestsTypeOK' /\ CoreTypeOK'
    BY <2>1, <2>2, <2>3, ZenonT(60) DEF RequestsTypeOK, CoreTypeOK
  <2>6. Monotone
    <3>1. tickets' \in Nat /\ tickets <= tickets'
      BY <2>1, <2>2, AtLeast, Zenon
    <3>2. \A g \in Handle :
             /\ running[g] => running'[g]
             /\ stop[g] => stop'[g]
             /\ fd[g] => fd'[g]
             /\ worker[g] # "none" => worker'[g] # "none"
      BY <2>1, <2>3, <2>4, Zenon
    <3> QED BY <3>1, <3>2, Zenon DEF Monotone
  <2>7. QueueOK(h)'
    <3>1. Queue(h)' = {} /\ Len(commands'[h]) = 0
      <4>1. \A i : i \notin 1..0
        OBVIOUS
      <4>2. Len(commands'[h]) = 0
        BY <2>3, EmptyQueue, Zenon
      <4> QED BY <4>1, <4>2, Zenon DEF Queue, Members
    <3>2. Serving(h)' = {} /\ queries'[h] = {} /\ worker'[h] # "starting" /\ job'[h] = <<>>
      BY <2>1, <2>4, Zenon DEF Serving
    <3>3. Asked(h)' = {}
      BY <3>1, <3>2, Zenon DEF Asked
    <3>4. \A i, j \in 1..Len(commands'[h]) : i < j => commands'[h][i].ticket < commands'[h][j].ticket
      <4>1. \A i : i \notin 1..0
        OBVIOUS
      <4> QED BY <3>1, <4>1, Zenon
    <3>5. /\ \A c \in Asked(h)' : AskedOK(h, c)'
          /\ \A c \in queries'[h] : c.fn \in Queries
          /\ \A c \in Serving(h)' : c.fn = "start" /\ \A d \in Queue(h)' : c.ticket < d.ticket
      BY <3>2, <3>3, Zenon
    <3> QED BY <3>2, <3>4, <3>5, Zenon DEF QueueOK
  <2>8. LifeOK(h)'
    BY <2>1, <2>2, <2>3, <2>4, Zenon DEF LifeOK
  <2>9. ASSUME NEW u \in Thread
        PROVE  \/ call'[u] = call[u]
               \/ /\ call'[u] = WithReply(call[u], "dropped")
                  /\ \E c \in Asked(h) : c.ticket = call[u].ticket
    <3>1. call'[u] = IF \E i \in DOMAIN commands[h] : commands[h][i].ticket = call[u].ticket
                     THEN WithReply(call[u], "dropped") ELSE call[u]
      BY Zenon DEF WorkerExits
    <3>2. \A i \in DOMAIN commands[h] : commands[h][i] \in Asked(h)
      BY <2>2 DEF Asked, Queue, Members
    <3> QED BY <3>1, <3>2, Zenon
  <2>10. ASSUME NEW g \in Handle \ {h}, NEW c \in Asked(g), NEW u \in Thread PROVE CallKept(u, g, c)
    <3>1. CASE call'[u] = call[u]
      BY <3>1, Zenon DEF CallKept
    <3>2. CASE call'[u] = WithReply(call[u], "dropped") /\ \E d \in Asked(h) : d.ticket = call[u].ticket
      <4> DEFINE w == WithReply(call[u], "dropped")
      <4>1. IsCall(call[u])
        BY ZenonT(60) DEF CInv, IInv, HandleInv, HandleTypeOK, CallsTypeOK
      <4>2. w.fn = call[u].fn /\ w.h = call[u].h /\ w.at = call[u].at /\ w.ticket = call[u].ticket
        <5>1. CallReplied(WithReply(call[u], "dropped"), call[u], "dropped")
          BY <4>1, ReplyFields, Zenon
        <5> QED BY <5>1, Zenon DEF CallReplied
      <4> HIDE DEF w
      <4>3. /\ call'[u].fn = call[u].fn /\ call'[u].h = call[u].h
            /\ call'[u].at = call[u].at /\ call'[u].ticket = call[u].ticket
        BY <3>2, <4>2, Zenon DEF w
      <4>4. PICK d \in Asked(h) : d.ticket = call[u].ticket
        BY <3>2, Zenon
      <4>5. AskedOK(h, d) /\ AskedOK(g, c)
        BY AskedFacts, ZenonT(60)
      <4>6. call[u].ticket # c.ticket
        <5>1. call[u].h = h
          BY <4>4, <4>5, Zenon DEF AskedOK
        <5>2. call[u].ticket = c.ticket => call[u].h = g
          BY <4>5, Zenon DEF AskedOK
        <5> QED BY <5>1, <5>2, Zenon
      <4> QED BY <4>3, <4>6, Zenon DEF CallKept
    <3> QED BY <2>9, <3>1, <3>2, Zenon
  <2>11. ASSUME NEW u \in Thread PROVE WaitOK(u)'
    <3>1. "dropped" # "ok" /\ "dropped" # "error"
      BY Zenon
    <3> QED BY <2>6, <2>9, <3>1, <1>WaitKept, <1>WaitReplied, Zenon
  <2>12. \A g \in Handle \ {h} :
            /\ commands'[g] = commands[g] /\ job'[g] = job[g] /\ queries'[g] = queries[g]
            /\ worker'[g] = worker[g] /\ stop'[g] = stop[g] /\ running'[g] = running[g]
            /\ started'[g] = started[g] /\ fd'[g] = fd[g] /\ sender'[g] = sender[g]
    BY <2>1, <2>3, Zenon
  <2> QED BY <2>1, <2>5, <2>6, <2>7, <2>8, <2>10, <2>11, <2>12, <1>OneHandle, ZenonT(60)

\* A handle is created: its worker has done nothing yet.
<1>CreateContract.
    ASSUME CInv, NEW t \in Thread, NEW f \in Creates, Create(t, f)
    PROVE  ContractInv'
  <2> USE <1>CreateContract
  <2>1. UNCHANGED <<job, commands, queries, stop, started, running, changed, fd, sender, pending, logs, logged>>
    BY Zenon DEF Create, coreVars, logVars, bridgeVars
  <2>2. next \in Nat /\ registry \subseteq Handle /\ worker \in [Handle -> WorkerState] /\ CoreTypeOK'
    BY <2>1, Zenon DEF CInv, ContractInv, CoreTypeOK, IInv, HandleInv, HandleTypeOK
  <2>3. CASE UNCHANGED <<registry, worker>> /\ next' \in {next, next + 1} /\ \E h, s : Call(t, f, h, s)
    <3>1. PICK h, s : Call(t, f, h, s)
      BY <2>3, Zenon
    <3>2. next' \in Nat /\ next' >= next
      BY <2>2, <2>3
    <3> QED BY <2>1, <2>2, <2>3, <3>1, <3>2, <1>CallContract, ZenonT(60)
  <2>4. CASE /\ next \in Handle /\ next' = next + 1 /\ Call(t, f, next, "OK")
             /\ registry' = registry \union {next}
             /\ worker' = [worker EXCEPT ![next] = "select"]
    <3>n. PICK h \in Handle : h = next
      BY <2>4, Zenon
    <3>1. WorkerOK(h) /\ LifeOK(h) /\ h >= next
      BY <2>2, <3>n DEF CInv, ContractInv, IInv, HandleInv
    <3>2. worker[h] = "none" /\ sender[h] = "off"
      BY <3>1, Zenon DEF WorkerOK
    <3>3. worker'[h] = "select" /\ \A g \in Handle \ {h} : worker'[g] = worker[g]
      BY <2>2, <2>4, <3>n, Zenon
    <3> DEFINE r == [fn |-> f, h |-> h, at |-> "idle", status |-> "OK", reply |-> "none", ticket |-> 0]
    <3>4. r.ticket = 0 /\ r.at = "idle"
      BY Zenon
    <3>5. call' = [call EXCEPT ![t] = r] /\ tickets' = tickets /\ Enter(t, f, h, "idle", "OK", 0)
      BY <2>4, <3>n, Zenon DEF Call, Enter
    <3> HIDE DEF r
    <3>6. tickets \in Nat /\ RequestsTypeOK' /\ call'[t] = r /\ \A u \in Thread \ {t} : call'[u] = call[u]
      BY <2>1, <3>5, ZenonT(60) DEF CInv, ContractInv, RequestsTypeOK, IInv, HandleInv, HandleTypeOK,
         CallsTypeOK
    <3>7. Monotone
      <4>1. \A g \in Handle : worker[g] # "none" => worker'[g] # "none"
        BY <3>2, <3>3, ZenonT(60)
      <4> QED BY <2>1, <3>5, <3>6, <4>1, AtLeast, ZenonT(60) DEF Monotone
    <3>8. ASSUME NEW g \in Handle PROVE QueueOK(g)'
      <4>1. \A c \in Asked(g) : \A u \in Thread : CallKept(u, g, c)
        BY <3>5, <1>EnterKept, Zenon
      <4>2. worker'[g] = "starting" <=> worker[g] = "starting"
        BY <3>2, <3>3, Zenon
      <4> QED BY <2>1, <3>6, <3>7, <4>1, <4>2, <1>QueueKept, ZenonT(60) DEF Monotone
    <3>9. ASSUME NEW g \in Handle PROVE LifeOK(g)'
      <4>0. next' \in Nat /\ next' >= next
        BY <2>2, <2>4
      <4>1. LifeOK(g) /\ Len(pending'[g]) <= 1 /\ next' \in Nat /\ next' >= next
        BY <2>1, <4>0, ZenonT(60) DEF CInv, ContractInv, LifeOK
      <4>2. CASE g # h
        BY <2>1, <2>4, <3>n, <3>3, <4>1, <4>2, <1>LifeKept, ZenonT(60)
      <4>3. CASE g = h
        <5>1. h < next'
          BY <2>2, <2>4, <3>n
        <5> QED BY <2>1, <3>1, <3>2, <3>3, <4>1, <4>3, <5>1, ZenonT(60) DEF LifeOK, Active
      <4> QED BY <4>2, <4>3, ZenonT(60)
    <3>10. ASSUME NEW u \in Thread PROVE WaitOK(u)'
      <4>1. CASE u = t
        BY <3>4, <3>6, <3>7, <4>1, <1>WaitOver, Zenon
      <4>2. CASE u # t
        BY <3>6, <3>7, <4>2, <1>WaitKept, Zenon
      <4> QED BY <4>1, <4>2, Zenon
    <3> QED BY <2>2, <3>6, <3>8, <3>9, <3>10, Zenon DEF ContractInv
  <2> QED BY <2>3, <2>4, Zenon DEF Create, regVars

(* Waiting calls go on *)

<1>ReturnContract.
    ASSUME CInv, NEW t \in Thread, NEW s, Return(t, s), CoreTypeOK', next' \in Nat, next' >= next,
           UNCHANGED <<requestVars, worker, running, started, fd, sender, pending>>,
           registry' \subseteq registry,
           \A h \in Handle : stop'[h] = stop[h] \/ (stop'[h] /\ worker[h] # "none"),
           call[t].at = "waiting" /\ call[t].fn = "start" /\ call[t].reply = "none" => stop'[call[t].h]
    PROVE  ContractInv'
  <2> DEFINE r == Ended(call[t], s)
  <2>1. r.ticket = 0 /\ r.at = "idle"
    <3>1. CallOver(Ended(call[t], s), call[t], s)
      BY EndedFields, Zenon
    <3> QED BY <3>1, Zenon DEF CallOver
  <2> USE <1>ReturnContract
  <2>2. call' = [call EXCEPT ![t] = r]
    BY Zenon DEF Return
  <2> HIDE DEF r
  <2> QED BY <2>1, <2>2, <1>LeaveInv, ZenonT(60)

<1>MoveContract.
    ASSUME CInv, NEW t \in Thread, NEW place \in {"joining", "joined"}, MoveTo(t, place),
           call[t].at \in {"locking", "joining"}, CoreTypeOK',
           UNCHANGED <<requestVars, lifeVars, stop, sender, pending>>
    PROVE  ContractInv'
  <2> DEFINE r == At(call[t], place)
  <2>1. IsCall(call[t]) /\ WaitOK(t) /\ next \in Nat
    BY <1>MoveContract, Zenon DEF CInv, ContractInv, IInv, HandleInv, HandleTypeOK, CallsTypeOK
  <2>2. r.ticket = call[t].ticket /\ r.at = place /\ r.fn = call[t].fn
    <3>1. CallAt(At(call[t], place), call[t], place)
      BY <2>1, AtFields, Zenon
    <3> QED BY <3>1, Zenon DEF CallAt
  <2> USE <1>MoveContract
  <2>3. call' = [call EXCEPT ![t] = r]
    BY Zenon DEF MoveTo
  <2> HIDE DEF r
  <2>4. r.ticket = 0 /\ r.fn \in Stops /\ r.at \in {"locking", "joining", "joined"}
    BY <2>1, <2>2, Zenon DEF WaitOK
  <2>5. next' \in Nat /\ next' >= next
    BY <2>1, AtLeast, Zenon DEF lifeVars
  <2> QED BY <2>3, <2>4, <2>5, <1>LeaveInv, Zenon DEF lifeVars

<1>CallStepContract.
    ASSUME CInv, NEW t \in Thread, CallStep(t)
    PROVE  ContractInv'
  <2> USE <1>CallStepContract
  <2> USE DEF regVars, coreVars, workerVars, logVars, bridgeVars
  <2>1. /\ next \in Nat /\ WaitOK(t) /\ CoreTypeOK /\ stop \in [Handle -> BOOLEAN]
    BY Zenon DEF CInv, ContractInv, CoreTypeOK, IInv, HandleInv, HandleTypeOK
  <2>2. CASE Answered(t)
    <3>1. PICK s : Return(t, s)
      BY <2>2, Zenon DEF Answered
    <3>2. /\ UNCHANGED <<requestVars, lifeVars, stop, sender, pending, changed, logs, logged>>
          /\ call[t].reply # "none"
      BY <2>2, Zenon DEF Answered, requestVars, lifeVars
    <3>3. CoreTypeOK' /\ next' \in Nat /\ next' >= next
      BY <2>1, <3>2, AtLeast, Zenon DEF CoreTypeOK, lifeVars
    <3> QED BY <3>1, <3>2, <3>3, <1>ReturnContract, Zenon DEF lifeVars
  <2>3. CASE Unanswered(t)
    <3>c. PICK h \in Handle : h = call[t].h
      BY <2>1, <2>3, Zenon DEF Unanswered, WaitOK
    <3>1. Return(t, "ERROR")
      BY <2>3, Zenon DEF Unanswered
    <3>2. /\ UNCHANGED <<requestVars, lifeVars, sender, pending, changed, logs, logged>>
          /\ stop' = [stop EXCEPT ![h] = @ \/ StopsOnTimeout(call[t].fn)]
      BY <2>3, <3>c, Zenon DEF Unanswered, requestVars, lifeVars
    <3>3. /\ stop' \in [Handle -> BOOLEAN] /\ (\A g \in Handle \ {h} : stop'[g] = stop[g])
          /\ stop'[h] = stop[h] \/ stop'[h]
          /\ call[t].fn = "start" => stop'[h]
      BY <2>1, <3>2, Zenon DEF StopsOnTimeout, Commands
    <3>4. worker[h] # "none"
      BY <2>1, <2>3, <3>c, ZenonT(60) DEF Unanswered, WaitOK
    <3>5. CoreTypeOK' /\ next' \in Nat /\ next' >= next
      BY <2>1, <3>2, <3>3, AtLeast, Zenon DEF CoreTypeOK, lifeVars
    <3> QED BY <3>c, <3>1, <3>2, <3>3, <3>4, <3>5, <1>ReturnContract, ZenonT(60) DEF lifeVars
  <2>4. CASE LockWorker(t)
    <3>1. /\ UNCHANGED <<requestVars, lifeVars, stop, sender, pending, changed, logs, logged>>
          /\ call[t].at = "locking" /\ \E place \in {"joining", "joined"} : MoveTo(t, place)
      BY <2>4, Zenon DEF LockWorker, requestVars, lifeVars
    <3>2. CoreTypeOK'
      BY <2>1, <3>1, Zenon DEF CoreTypeOK, lifeVars
    <3> QED BY <3>1, <3>2, <1>MoveContract, Zenon
  <2>5. CASE Join(t)
    <3>1. /\ UNCHANGED <<requestVars, lifeVars, stop, sender, pending, changed, logs, logged>>
          /\ call[t].at = "joining" /\ (Return(t, "ERROR") \/ MoveTo(t, "joined"))
      BY <2>5, ZenonT(60) DEF Join, requestVars, lifeVars
    <3>2. CoreTypeOK' /\ next' \in Nat /\ next' >= next
      BY <2>1, <3>1, AtLeast, Zenon DEF CoreTypeOK, lifeVars
    <3>3. CASE Return(t, "ERROR")
      BY <3>1, <3>2, <3>3, <1>ReturnContract, Zenon DEF lifeVars
    <3> QED BY <3>1, <3>2, <3>3, <1>MoveContract, Zenon
  <2>6. CASE Stopped(t)
    <3>1. /\ UNCHANGED <<requestVars, worker, running, started, fd, stop, sender, pending, changed, logs, logged, next>>
          /\ call[t].at = "joined" /\ Return(t, "OK") /\ registry' \subseteq registry
      BY <2>6, ZenonT(60) DEF Stopped, requestVars
    <3>2. CoreTypeOK' /\ next' \in Nat /\ next' >= next
      BY <2>1, <3>1, AtLeast, Zenon DEF CoreTypeOK
    <3> QED BY <3>1, <3>2, <1>ReturnContract, Zenon
  <2> QED BY <2>2, <2>3, <2>4, <2>5, <2>6, Zenon DEF CallStep

\* At most one packet is out of the channel.
<1>PendingOne.
    ASSUME CInv, NEW h \in Handle,
           UNCHANGED pending \/ \E p : pending' = [pending EXCEPT ![h] = <<p>>] \/ pending' = [pending EXCEPT ![h] = <<>>]
    PROVE  \A g \in Handle : Len(pending'[g]) <= 1
  <2> USE <1>PendingOne
  <2>1. pending \in [Handle -> Seq(Nat)] /\ \A g \in Handle : Len(pending[g]) <= 1
    BY Zenon DEF CInv, ContractInv, LifeOK, IInv, BridgeInv, BridgeTypeOK
  <2>2. Len(<<>>) = 0 /\ \A p : Len(<<p>>) = 1
    BY Zenon
  <2> TAKE g \in Handle
  <2>3. pending'[g] = pending[g] \/ pending'[g] = <<>> \/ \E p : pending'[g] = <<p>>
    BY <2>1, Zenon
  <2>4. CASE \E p : pending'[g] = <<p>>
    BY <2>2, <2>4
  <2> QED BY <2>1, <2>2, <2>3, <2>4

<1>PacketsContract.
    ASSUME CInv, NEW h \in Handle, WriterStep(h) \/ DrainStep(h)
    PROVE  ContractInv'
  <2> USE <1>PacketsContract
  <2>1. UNCHANGED <<requestVars, lifeVars, call, stop, changed, logs, logged>>
    BY Zenon DEF WriterStep, DrainStep, requestVars, lifeVars, regVars, coreVars, workerVars, logVars
  <2>2. CoreTypeOK' /\ sender \in [Handle -> SenderState]
    BY <2>1, Zenon DEF CInv, ContractInv, CoreTypeOK, lifeVars, IInv, BridgeInv, BridgeTypeOK
  <2>3. CASE WriterStep(h)
    <3>1. UNCHANGED pending
      BY <2>3, Zenon DEF WriterStep, Send, Queued, PacketReady
    <3>2. \A g \in Handle : Len(pending'[g]) <= 1
      BY <3>1, <1>PendingOne, Zenon
    <3>3. \A g \in Handle : sender'[g] = sender[g] \/ (sender[g] \in Active /\ sender'[g] \in Active)
      BY <2>2, <2>3, Zenon DEF WriterStep, Send, Queued, PacketReady, Active
    <3> QED BY <2>1, <2>2, <3>2, <3>3, <1>BridgeContract, Zenon
  <2>4. CASE DrainStep(h)
    <3>1. UNCHANGED sender
      BY <2>4, Zenon DEF DrainStep, StartTurn, ReadRefused, EndTurn, ReadEmpty, ReadReady, Rearm,
         Recheck, Draining
    <3>2. UNCHANGED pending \/ \E p : pending' = [pending EXCEPT ![h] = <<p>>] \/ pending' = [pending EXCEPT ![h] = <<>>]
      <4>1. CASE \E p : \E fits \in BOOLEAN : CopyOut(h, p, fits)
        BY <4>1, Zenon DEF CopyOut
      <4>2. CASE StartTurn(h) \/ ReadRefused(h) \/ ReadEmpty(h) \/ Rearm(h) \/ Recheck(h)
        BY <4>2, Zenon DEF StartTurn, ReadRefused, EndTurn, ReadEmpty, Rearm, Recheck
      <4> QED BY <2>4, <4>1, <4>2, Zenon DEF DrainStep, ReadReady, Draining
    <3>3. \A g \in Handle : Len(pending'[g]) <= 1
      BY <3>2, <1>PendingOne, ZenonT(60)
    <3> QED BY <2>1, <2>2, <3>1, <3>3, <1>BridgeContract, ZenonT(60)
  <2> QED BY <2>3, <2>4, Zenon

\* Steps that serve no request: packets in, the 5 s of the writer, protect_socket, logs.
<1>QuietContract.
    ASSUME CInv,
           \/ \E h \in Handle : \/ RecvPacket(h) \/ WriterTimeout(h)
                                \/ \E q \in queries[h] : Protect(h, q) \/ Protected(h, q)
           \/ Log \/ UNCHANGED hostVars
    PROVE  ContractInv'
  <2> USE <1>QuietContract
  <2> USE DEF regVars, coreVars, workerVars, logVars, bridgeVars
  <2>1. UNCHANGED <<requestVars, lifeVars, call, changed, sender, pending>>
    BY Zenon DEF RecvPacket, WriterTimeout, Protect, Protected, Log, hostVars, requestVars, lifeVars
  <2>2. /\ stop \in [Handle -> BOOLEAN] /\ CoreTypeOK /\ logs \in Seq(Nat) /\ logged \in Nat
        /\ \A g \in Handle : Len(pending'[g]) <= 1
    BY <2>1, Zenon DEF CInv, ContractInv, CoreTypeOK, LifeOK
  <2>3. /\ stop' \in [Handle -> BOOLEAN]
        /\ \A g \in Handle : stop'[g] = stop[g] \/ (stop'[g] /\ worker[g] # "none")
    <3>1. CASE UNCHANGED stop
      BY <2>2, <3>1, Zenon
    <3>2. ASSUME NEW h \in Handle, WriterTimeout(h)
          PROVE  /\ stop' \in [Handle -> BOOLEAN]
                 /\ \A g \in Handle : stop'[g] = stop[g] \/ (stop'[g] /\ worker[g] # "none")
      <4>1. stop' = [stop EXCEPT ![h] = TRUE] /\ sender[h] = "idle" /\ WorkerOK(h)
        BY <3>2, Zenon DEF WriterTimeout, CInv, IInv, HandleInv
      <4>2. worker[h] # "none"
        BY <4>1, Zenon DEF WorkerOK
      <4> QED BY <2>2, <4>1, <4>2, Zenon
    <3> QED BY <3>1, <3>2, Zenon DEF RecvPacket, Protect, Protected, Log, hostVars
  <2>4. logs' \in Seq(Nat) /\ logged' \in Nat
    <3>1. CASE UNCHANGED <<logs, logged>>
      BY <2>2, <3>1, Zenon
    <3>2. CASE Log
      <4>0. logged' = logged + 1
        BY <3>2, Zenon DEF Log
      <4>1. logged' \in Nat
        BY <2>2, <4>0
      <4> DEFINE kept == IF Len(logs) = LogCap THEN Tail(logs) ELSE logs
      <4>2. kept \in Seq(Nat)
        <5>1. CASE Len(logs) = LogCap
          <6>1. logs # <<>>
            BY <5>1, Zenon
          <6> QED BY <2>2, <5>1, <6>1, HeadAndTail, Zenon
        <5> QED BY <2>2, <5>1, Zenon
      <4>3. logs' = Append(kept, logged')
        BY <3>2, Zenon DEF Log
      <4> HIDE DEF kept
      <4> QED BY <4>1, <4>2, <4>3, Appended, Zenon
    <3> QED BY <3>1, <3>2, Zenon DEF RecvPacket, WriterTimeout, Protect, Protected, hostVars
  <2>5. CoreTypeOK'
    BY <2>1, <2>2, <2>3, <2>4, Zenon DEF CoreTypeOK, lifeVars
  <2> QED BY <2>1, <2>2, <2>3, <2>5, <1>BridgeContract, Zenon

<1>CallsContract.
    ASSUME CInv, NEW t \in Thread, NEW f \in Functions, Calls(t, f)
    PROVE  ContractInv'
  <2> USE <1>CallsContract
  <2> USE DEF regVars, coreVars, workerVars, logVars, bridgeVars
  <2>1. CoreTypeOK /\ next \in Nat /\ changed \in [Handle -> BOOLEAN] /\ logs \in Seq(Nat)
    BY Zenon DEF CInv, ContractInv, CoreTypeOK, IInv, HandleInv, HandleTypeOK
  <2>2. CASE f \in Creates /\ Create(t, f)
    BY <2>2, <1>CreateContract, Zenon
  <2>3. ASSUME NEW h, NEW s, Call(t, f, h, s), CoreTypeOK',
               UNCHANGED <<commands, job, queries, registry, next, worker, stop, running, started, fd, sender, pending>>
        PROVE  ContractInv'
    <3>1. next' \in Nat /\ next' >= next
      BY <2>1, <2>3
    <3> QED BY <2>3, <3>1, <1>CallContract, Zenon
  <2>4. CASE f = "drain_logs" /\ DrainLogs(t)
    <3>1. PICK s : Call(t, f, 0, s) /\ logs' = KeepLogs(s)
      BY <2>4, Zenon DEF DrainLogs
    <3>2. logs' \in Seq(Nat)
      BY <2>1, <3>1, EmptyQueue, Zenon DEF KeepLogs
    <3>3. CoreTypeOK'
      BY <2>1, <2>4, <3>2, Zenon DEF CoreTypeOK, DrainLogs
    <3> QED BY <2>3, <2>4, <3>1, <3>3, Zenon DEF DrainLogs
  <2>5. CASE Convert(t, f) \/ CheckOrTransfer(t, f)
    <3>1. PICK s : Call(t, f, 0, s)
      BY <2>5, Zenon DEF Convert, CheckOrTransfer, Stateless
    <3>2. CoreTypeOK'
      BY <2>1, <2>5, ZenonT(60) DEF CoreTypeOK, Convert, CheckOrTransfer, Stateless
    <3> QED BY <2>3, <2>5, <3>1, <3>2, Zenon DEF Convert, CheckOrTransfer, Stateless
  <2>6. ASSUME NEW h \in Handle, HandleCall(t, f, h) PROVE ContractInv'
    <3>1. CASE \E statuses : Immediate(t, f, h, statuses)
      <4>1. PICK s : Call(t, f, h, s)
        BY <3>1, Zenon DEF Immediate
      <4>2. CoreTypeOK'
        BY <2>1, <3>1, Zenon DEF CoreTypeOK, Immediate
      <4> QED BY <2>3, <3>1, <4>1, <4>2, Zenon DEF Immediate
    <3>2. CASE f = "network_changed" /\ NetworkChanged(t, h)
      <4>1. PICK s : Call(t, f, h, s)
        BY <3>2, Zenon DEF NetworkChanged
      <4>2. changed' \in [Handle -> BOOLEAN]
        BY <2>1, <3>2, Zenon DEF NetworkChanged
      <4>3. CoreTypeOK'
        BY <2>1, <3>2, <4>2, Zenon DEF CoreTypeOK, NetworkChanged
      <4> QED BY <2>3, <3>2, <4>1, <4>3, Zenon DEF NetworkChanged
    <3>3. CASE f = "write_packet" /\ WritePacket(t, h)
      <4>1. PICK s : Call(t, f, h, s)
        BY <3>3, Zenon DEF WritePacket
      <4>2. CoreTypeOK'
        BY <2>1, <3>3, Zenon DEF CoreTypeOK, WritePacket
      <4> QED BY <2>3, <3>3, <4>1, <4>2, Zenon DEF WritePacket
    <3>4. CASE \/ f \in Commands /\ Command(t, f, h)
               \/ f \in Queries /\ Query(t, f, h)
      <4>1. /\ UNCHANGED <<job, queries, lifeVars, stop, sender, pending>> /\ CoreTypeOK'
            /\ f \in Commands \union Queries
        BY <2>1, <3>4, Zenon DEF CoreTypeOK, Command, Query, lifeVars
      <4>2. (h \in registry /\ Enqueue(t, f, h)) \/ (Call(t, f, h, "ERROR") /\ UNCHANGED commands)
        BY <3>4, Zenon DEF Command, Query
      <4>3. CASE h \in registry /\ Enqueue(t, f, h)
        BY <4>1, <4>3, <1>EnqueueContract, Zenon
      <4>4. CASE Call(t, f, h, "ERROR") /\ UNCHANGED commands
        BY <2>3, <4>1, <4>4, Zenon DEF lifeVars
      <4> QED BY <4>2, <4>3, <4>4, Zenon
    <3>5. CASE f \in Stops /\ Shutdown(t, f, h)
      BY <3>5, <1>ShutdownContract, Zenon
    <3> QED BY <2>6, <3>1, <3>2, <3>3, <3>4, <3>5, Zenon
          DEF HandleCall, Snapshot, StatusOf, Update, Select, SetNetwork, CloseConnections,
              CloseConnection, DnsAudit
  <2> QED BY <2>2, <2>4, <2>5, <2>6, Zenon DEF Calls

<1> SUFFICES ASSUME CInv, [HostNext]_hostVars PROVE ContractInv'
  BY Zenon
<1> USE DEF regVars, coreVars, workerVars, logVars, bridgeVars
<1>1. ASSUME NEW h \in Handle, TakeStop(h) \/ TakeChange(h) \/ ChangeDone(h) PROVE ContractInv'
  <2>1. UNCHANGED <<requestVars, call, registry, next, pending, running, started, fd, stop, sender, logs, logged>>
    BY <1>1, Zenon DEF TakeStop, TakeChange, ChangeDone, requestVars
  <2>2. changed \in [Handle -> BOOLEAN] /\ CoreTypeOK
    BY Zenon DEF CInv, ContractInv, CoreTypeOK
  <2>3. changed' \in [Handle -> BOOLEAN]
    BY <1>1, <2>2, Zenon DEF TakeStop, TakeChange, ChangeDone
  <2>4. CoreTypeOK'
    BY <2>1, <2>2, <2>3, Zenon DEF CoreTypeOK
  <2>5. PICK w \in {"dropping", "changing", "select"} :
           /\ worker[h] \in {"select", "changing"} /\ worker' = [worker EXCEPT ![h] = w]
    BY <1>1, Zenon DEF TakeStop, TakeChange, ChangeDone
  <2>6. w \in WorkerState \ {"none", "starting"} /\ worker[h] \notin {"none", "starting"} /\ worker[h] \notin Exited
    BY <2>5, Zenon DEF WorkerState, Exited
  <2> QED BY <2>1, <2>4, <2>5, <2>6, <1>WorkerContract, ZenonT(60)
<1>2. ASSUME NEW h \in Handle, WorkerStep(h) \/ WorkerPanics(h) \/ QueryStep(h) PROVE ContractInv'
  <2>1. ASSUME NEW c, TakeStart(h, c) \/ TakeFd(h, c) \/ TakeQuery(h, c) PROVE ContractInv'
    BY <2>1, <1>TakeStartContract, <1>TakeFdContract, <1>TakeQueryContract, Zenon
  <2>2. ASSUME NEW q \in queries[h], Protected(h, q) \/ QueryDone(h, q) PROVE ContractInv'
    BY <2>2, <1>QuietContract, <1>QueryDoneContract, Zenon
  <2> QED BY <1>1, <1>2, <2>1, <2>2, <1>SpawnContract, <1>StartOkContract, <1>StartFailedContract,
             <1>ExitContract,
             <1>PanicContract, Zenon DEF WorkerStep, QueryStep
<1>3. ASSUME NEW h \in Handle, WriterStep(h) \/ DrainStep(h) PROVE ContractInv'
  BY <1>3, <1>PacketsContract, Zenon
<1>4. ASSUME \/ \E h \in Handle : \/ RecvPacket(h) \/ WriterTimeout(h)
                                  \/ \E q \in queries[h] : Protect(h, q)
             \/ Log \/ UNCHANGED hostVars
      PROVE  ContractInv'
  BY <1>4, <1>QuietContract, Zenon
<1> QED BY <1>2, <1>3, <1>4, <1>CallStepContract, <1>CallsContract, Zenon DEF HostNext, HostStep

\* Every request of Handle::start, set_fd and the queries is tied to the call that
\* waits for it, a start that gave up (command_within) has stopped its core, and a
\* reply of the worker tells what the core did.
THEOREM ContractInvariant == HostSpec => []CInv
<1>1. HostInit => CInv
  BY ContractInitInv, BridgeInitInv, HandleInitInv, Zenon DEF CInv, IInv
<1>2. CInv /\ [HostNext]_hostVars => CInv'
  BY StepInv, ContractStep, Zenon DEF CInv
<1> QED BY <1>1, <1>2, PTL DEF HostSpec

=============================================================================
