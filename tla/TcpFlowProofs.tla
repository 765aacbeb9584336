---------------------------- MODULE TcpFlowProofs ----------------------------
(***************************************************************************)
(* No byte of a TCP connection through the packet loop is lost, delivered  *)
(* twice or cut off by an early end, for any sizes of queues, chunks and   *)
(* buffers and any number of uses of the five-tuple.                       *)
(***************************************************************************)
EXTENDS TcpFlow, FiniteSetTheorems, TLAPS

Client ==
    [connection : Nat, state : {"none", "syn", "open", "ended", "fin", "closed", "reset"}, sent : Nat, got : Nat]
Packet == {"syn", "ack", "data", "fin", "rst"}
Flow ==
    [socket : {"syn", "open", "closeWait", "finWait", "lastAck", "closed"}, connection : Nat, rx : Nat, tx : Nat,
     input : BOOLEAN, in : Seq(Nat), out : Seq(Nat), pending : Nat, eof : BOOLEAN, wrote : Nat]
Task == [state : {"running", "done", "failed"}, reading : Nat, read : Nat, eof : BOOLEAN, shut : BOOLEAN]

TcpTypeOK ==
    /\ client \in Client
    /\ wire \in Seq(Packet)
    /\ flow \in {NoFlow} \cup Flow
    /\ DOMAIN tasks \in SUBSET Nat /\ tasks \in [DOMAIN tasks -> Task]
    /\ phase \in {"select", "join", "recv", "send", "retire"}

\* The loop and the running session work on the same flow; a SYN is the last
\* packet of a client that has not been admitted.
PlacesOK ==
    /\ phase \in {"recv", "send", "retire"} => flow # NoFlow
    /\ \A c \in DOMAIN tasks : Running(c) => flow # NoFlow /\ flow.connection = c
    /\ flow # NoFlow => flow.connection <= client.connection
    /\ \A i \in DOMAIN wire : wire[i] = "syn" => i = Len(wire) /\ client.state = "syn" /\ ~Mine
    /\ client.state = "syn" => client.sent = 0 /\ client.got = 0

\* The client is done sending.
Sent == client.state \in {"fin", "closed", "reset"}

\* Nothing the client sent follows its FIN, on the wire or past it.
FinOK ==
    /\ Mine => \A i \in DOMAIN wire : wire[i] = "fin" =>
          Sent /\ \A j \in DOMAIN wire : i < j => wire[j] # "data"
    /\ Mine /\ flow.socket \in {"closeWait", "lastAck"} => Sent /\ \A i \in DOMAIN wire : wire[i] # "data"
    /\ Mine /\ Flowing /\ ~flow.input => flow.socket \in {"closeWait", "lastAck"} /\ flow.rx = 0

UploadOK ==
    /\ Flowing /\ Mine /\ Running(flow.connection) =>
          client.sent = Unread + flow.rx + Total(flow.in)
                          + tasks[flow.connection].reading + tasks[flow.connection].read
    /\ \A c \in DOMAIN tasks : tasks[c].eof /\ Mine /\ Flowing /\ flow.connection = c =>
          Sent /\ ~flow.input /\ tasks[c].reading = 0 /\ flow.in = <<>> /\ tasks[c].read = client.sent

DownloadOK ==
    /\ Flowing /\ Mine => flow.wrote = Total(flow.out) + flow.pending + flow.tx + client.got
    /\ flow # NoFlow => /\ flow.eof => flow.out = <<>> /\ flow.pending = 0 /\ Disconnected
                        /\ flow.socket \in {"finWait", "lastAck"} => flow.eof
    /\ Mine /\ client.state \in {"ended", "closed"} => flow.eof /\ client.got = flow.wrote

TcpInv == TcpTypeOK /\ PlacesOK /\ FinOK /\ UploadOK /\ DownloadOK

-----------------------------------------------------------------------------
(***************************************************************************)
(* Bytes in queues, data on the wire.                                      *)
(***************************************************************************)
LEMMA ChunkBytes ==
    ASSUME NEW i, NEW n \in Nat PROVE IsFiniteSet({i} \X (1..n)) /\ Cardinality({i} \X (1..n)) = n
<1>1. IsFiniteSet({i}) /\ Cardinality({i}) = 1
  BY FS_Singleton, Zenon
<1>2. IsFiniteSet(1..n) /\ Cardinality(1..n) = n
  BY FS_Interval
<1>3. IsFiniteSet({i} \X (1..n)) /\ Cardinality({i} \X (1..n)) = Cardinality({i}) * Cardinality(1..n)
  BY <1>1, <1>2, FS_Product, Zenon
<1> QED BY <1>1, <1>2, <1>3

LEMMA BytesFinite ==
    ASSUME NEW queue \in Seq(Nat) PROVE IsFiniteSet(Bytes(queue)) /\ Total(queue) \in Nat
<1> DEFINE chunks == {{i} \X (1..queue[i]) : i \in DOMAIN queue}
           chunk == [i \in DOMAIN queue |-> {i} \X (1..queue[i])]
<1>1. IsFiniteSet(DOMAIN queue)
  BY FS_Interval, DOMAIN queue = 1..Len(queue), Len(queue) \in Nat
<1>2. chunk \in Surjection(DOMAIN queue, chunks)
  BY Zenon DEF Surjection
<1>3. IsFiniteSet(chunks)
  BY <1>1, <1>2, FS_Surjection, Zenon
<1>4. ASSUME NEW T \in chunks PROVE IsFiniteSet(T)
  <2>1. PICK i \in DOMAIN queue : T = {i} \X (1..queue[i])
    BY Zenon
  <2>2. queue[i] \in Nat
    OBVIOUS
  <2> QED BY <2>1, <2>2, ChunkBytes, Zenon
<1>5. IsFiniteSet(UNION chunks)
  BY <1>3, <1>4, FS_UNION, Zenon
<1> QED BY <1>5, FS_CardinalityType, Zenon DEF Bytes, Total

LEMMA NoBytes == Total(<<>>) = 0
BY FS_EmptySet DEF Bytes, Total

LEMMA TotalAppend ==
    ASSUME NEW queue \in Seq(Nat), NEW n \in Nat PROVE Total(Append(queue, n)) = Total(queue) + n
<1> DEFINE new == {Len(queue) + 1} \X (1..n)
           more == Append(queue, n)
<1>1. DOMAIN more = DOMAIN queue \cup {Len(queue) + 1} /\ Len(queue) + 1 \notin DOMAIN queue
  OBVIOUS
<1>2. more[Len(queue) + 1] = n /\ \A i \in DOMAIN queue : more[i] = queue[i]
  OBVIOUS
<1> HIDE DEF more
<1>3. Bytes(more) = Bytes(queue) \cup new
  BY <1>1, <1>2 DEF Bytes
<1>4. Bytes(queue) \cap new = {}
  BY <1>1 DEF Bytes
<1>5. IsFiniteSet(new) /\ Cardinality(new) = n
  BY ChunkBytes, Zenon
<1>6. IsFiniteSet(Bytes(queue)) /\ Cardinality(Bytes(queue)) \in Nat
  BY BytesFinite, Zenon DEF Total
<1> HIDE DEF new
<1>7. Cardinality(Bytes(queue) \cup new) = Cardinality(Bytes(queue)) + Cardinality(new) - Cardinality(Bytes(queue) \cap new)
  BY <1>5, <1>6, FS_Union, Zenon
<1>8. Cardinality(Bytes(queue) \cap new) = 0
  BY <1>4, FS_EmptySet, Zenon
<1> QED BY <1>3, <1>5, <1>6, <1>7, <1>8 DEF Total, more

LEMMA TotalTail ==
    ASSUME NEW queue \in Seq(Nat), queue # <<>>
    PROVE Head(queue) \in Nat /\ Tail(queue) \in Seq(Nat) /\ Total(queue) = Head(queue) + Total(Tail(queue))
<1> DEFINE first == {1} \X (1..queue[1])
           rest == Bytes(queue) \ first
           shift == [x \in Bytes(Tail(queue)) |-> <<x[1] + 1, x[2]>>]
<1>1. Head(queue) = queue[1] /\ queue[1] \in Nat /\ 1 \in DOMAIN queue /\ Tail(queue) \in Seq(Nat)
  OBVIOUS
<1>2. \A i \in DOMAIN Tail(queue) : i + 1 \in DOMAIN queue /\ i + 1 # 1 /\ Tail(queue)[i] = queue[i + 1] /\ i \in Nat
  OBVIOUS
<1>3. \A i \in DOMAIN queue \ {1} : i - 1 \in DOMAIN Tail(queue) /\ Tail(queue)[i - 1] = queue[i] /\ (i - 1) + 1 = i /\ i \in Nat
  OBVIOUS
<1>4. shift \in Bijection(Bytes(Tail(queue)), rest)
  <2>1. ASSUME NEW x \in Bytes(Tail(queue)) PROVE /\ <<x[1] + 1, x[2]>> \in rest
                                                 /\ x = <<x[1], x[2]>> /\ x[1] \in Nat
    <3>1. PICK i \in DOMAIN Tail(queue) : \E j \in 1..Tail(queue)[i] : x = <<i, j>>
      BY DEF Bytes
    <3>0. PICK j \in 1..Tail(queue)[i] : x = <<i, j>>
      BY <3>1, Zenon
    <3>2. j \in 1..queue[i + 1] /\ i + 1 \in DOMAIN queue /\ i + 1 # 1 /\ i \in Nat
      BY <1>2, <3>0, <3>1, Zenon
    <3>3. <<i + 1, j>> \in {i + 1} \X (1..queue[i + 1])
      BY <3>2, Zenon
    <3>4. <<i + 1, j>> \in Bytes(queue) /\ <<i + 1, j>> \notin first
      BY <3>2, <3>3, Zenon DEF Bytes
    <3> QED BY <3>0, <3>2, <3>4, Zenon
  <2>2. ASSUME NEW y \in rest PROVE \E x \in Bytes(Tail(queue)) : y = <<x[1] + 1, x[2]>>
    <3>1. PICK i \in DOMAIN queue : \E j \in 1..queue[i] : y = <<i, j>>
      BY DEF Bytes
    <3>0. PICK j \in 1..queue[i] : y = <<i, j>>
      BY <3>1, Zenon
    <3>2. i # 1
      BY <3>0, Zenon
    <3>3. i - 1 \in DOMAIN Tail(queue) /\ j \in 1..Tail(queue)[i - 1] /\ (i - 1) + 1 = i
      BY <1>3, <3>0, <3>1, <3>2, Zenon
    <3>4. <<i - 1, j>> \in {i - 1} \X (1..Tail(queue)[i - 1])
      BY <3>3, Zenon
    <3>5. <<i - 1, j>> \in Bytes(Tail(queue))
      BY <3>3, <3>4, Zenon DEF Bytes
    <3> QED BY <3>0, <3>3, <3>5, Zenon
  <2> HIDE DEF rest
  <2>3. shift \in [Bytes(Tail(queue)) -> rest]
    BY <2>1, Zenon
  <2>4. \A x, y \in Bytes(Tail(queue)) : shift[x] = shift[y] => x = y
    BY <2>1
  <2>5. \A y \in rest : \E x \in Bytes(Tail(queue)) : shift[x] = y
    BY <2>2, Zenon
  <2> QED BY <2>3, <2>4, <2>5, Zenon DEF Bijection, Injection, Surjection, IsInjective
<1>5. IsFiniteSet(Bytes(Tail(queue)))
  BY <1>1, BytesFinite, Zenon
<1>6. Cardinality(rest) = Total(Tail(queue))
  BY <1>4, <1>5, FS_Bijection, Zenon DEF ExistsBijection, Total
<1>7. first \subseteq Bytes(queue) /\ IsFiniteSet(Bytes(queue)) /\ Cardinality(Bytes(queue)) \in Nat
  BY <1>1, BytesFinite, Zenon DEF Bytes, Total
<1>8. Cardinality(rest) = Cardinality(Bytes(queue)) - Cardinality(Bytes(queue) \cap first)
  BY <1>7, FS_Difference, Zenon
<1>9. Cardinality(Bytes(queue) \cap first) = queue[1]
  <2>1. Bytes(queue) \cap first = first
    BY <1>7, Zenon
  <2> QED BY <1>1, <2>1, ChunkBytes, ZenonT(60)
<1> HIDE DEF rest, first
<1> QED BY <1>1, <1>6, <1>7, <1>8, <1>9 DEF Total

DataAt(packets) == {i \in DOMAIN packets : packets[i] = "data"}

LEMMA DataFinite ==
    ASSUME NEW packets \in Seq(Packet) PROVE IsFiniteSet(DataAt(packets)) /\ DataIn(packets) \in Nat
<1>1. IsFiniteSet(DOMAIN packets)
  BY FS_Interval, DOMAIN packets = 1..Len(packets), Len(packets) \in Nat
<1>2. DataAt(packets) \subseteq DOMAIN packets
  BY Zenon DEF DataAt
<1>3. IsFiniteSet(DataAt(packets))
  BY <1>1, <1>2, FS_Subset, Zenon
<1> QED BY <1>3, FS_CardinalityType, Zenon DEF DataAt, DataIn

LEMMA NoData ==
    ASSUME NEW packets \in Seq(Packet), \A i \in DOMAIN packets : packets[i] # "data" PROVE DataIn(packets) = 0
<1>1. DataAt(packets) = {}
  BY Zenon DEF DataAt
<1> QED BY <1>1, FS_EmptySet, Zenon DEF DataAt, DataIn

LEMMA DataAppend ==
    ASSUME NEW packets \in Seq(Packet), NEW p \in Packet
    PROVE DataIn(Append(packets, p)) = DataIn(packets) + (IF p = "data" THEN 1 ELSE 0)
<1> DEFINE more == Append(packets, p)
           last == Len(packets) + 1
<1>1. DOMAIN more = DOMAIN packets \cup {last} /\ last \notin DOMAIN packets
  OBVIOUS
<1>2. more[last] = p /\ \A i \in DOMAIN packets : more[i] = packets[i]
  OBVIOUS
<1>3. IsFiniteSet(DataAt(packets)) /\ Cardinality(DataAt(packets)) \in Nat
  BY DataFinite, Zenon DEF DataAt, DataIn
<1> HIDE DEF more, last
<1>4. CASE p = "data"
  <2>1. DataAt(more) = DataAt(packets) \cup {last} /\ last \notin DataAt(packets)
    BY <1>1, <1>2, <1>4, Zenon DEF DataAt
  <2>2. Cardinality(DataAt(packets) \cup {last}) = Cardinality(DataAt(packets)) + 1
    BY <1>3, <2>1, FS_AddElement, Zenon
  <2> QED BY <1>4, <2>1, <2>2, Zenon DEF DataAt, DataIn, more
<1>5. CASE p # "data"
  <2>1. DataAt(more) = DataAt(packets)
    BY <1>1, <1>2, <1>5, Zenon DEF DataAt
  <2>2. DataIn(more) = Cardinality(DataAt(more)) /\ DataIn(packets) = Cardinality(DataAt(packets))
    BY Zenon DEF DataAt, DataIn
  <2> QED BY <1>3, <1>5, <2>1, <2>2 DEF more
<1> QED BY <1>4, <1>5, Zenon

LEMMA DataTail ==
    ASSUME NEW packets \in Seq(Packet), packets # <<>>
    PROVE /\ Head(packets) \in Packet /\ Tail(packets) \in Seq(Packet)
          /\ DataIn(packets) = DataIn(Tail(packets)) + (IF Head(packets) = "data" THEN 1 ELSE 0)
<1> DEFINE rest == DataAt(packets) \ {1}
           shift == [i \in DataAt(Tail(packets)) |-> i + 1]
<1>1. Head(packets) = packets[1] /\ packets[1] \in Packet /\ 1 \in DOMAIN packets /\ Tail(packets) \in Seq(Packet)
  OBVIOUS
<1>2. \A i \in DOMAIN Tail(packets) : i + 1 \in DOMAIN packets /\ i + 1 # 1 /\ Tail(packets)[i] = packets[i + 1] /\ i \in Nat
  OBVIOUS
<1>3. \A i \in DOMAIN packets \ {1} : i - 1 \in DOMAIN Tail(packets) /\ Tail(packets)[i - 1] = packets[i] /\ (i - 1) + 1 = i
  OBVIOUS
<1>4. shift \in Bijection(DataAt(Tail(packets)), rest)
  <2>1. \A i \in DataAt(Tail(packets)) : i + 1 \in rest /\ i \in Nat
    BY <1>2, Zenon DEF DataAt
  <2>2. \A i \in rest : i - 1 \in DataAt(Tail(packets)) /\ (i - 1) + 1 = i
    BY <1>3, Zenon DEF DataAt
  <2> HIDE DEF rest
  <2>3. shift \in [DataAt(Tail(packets)) -> rest]
    BY <2>1, Zenon
  <2>4. \A i, j \in DataAt(Tail(packets)) : shift[i] = shift[j] => i = j
    BY <2>1
  <2>5. \A j \in rest : \E i \in DataAt(Tail(packets)) : shift[i] = j
    BY <2>2, Zenon
  <2> QED BY <2>3, <2>4, <2>5, Zenon DEF Bijection, Injection, Surjection, IsInjective
<1>5. IsFiniteSet(DataAt(Tail(packets))) /\ Cardinality(DataAt(Tail(packets))) \in Nat
  BY <1>1, DataFinite, Zenon DEF DataAt, DataIn
<1>6. IsFiniteSet(DataAt(packets)) /\ Cardinality(DataAt(packets)) \in Nat
  BY DataFinite, Zenon DEF DataAt, DataIn
<1>7. Cardinality(rest) = Cardinality(DataAt(Tail(packets)))
  BY <1>4, <1>5, FS_Bijection, Zenon DEF ExistsBijection
<1>10. DataIn(packets) = Cardinality(DataAt(packets)) /\ DataIn(Tail(packets)) = Cardinality(DataAt(Tail(packets)))
  BY Zenon DEF DataAt, DataIn
<1>8. CASE packets[1] = "data"
  <2>1. 1 \in DataAt(packets)
    BY <1>1, <1>8, Zenon DEF DataAt
  <2>2. Cardinality(rest) = Cardinality(DataAt(packets)) - 1
    BY <1>6, <2>1, FS_RemoveElement, Zenon
  <2> HIDE DEF rest
  <2> QED BY <1>1, <1>5, <1>6, <1>7, <1>8, <1>10, <2>2
<1>9. CASE packets[1] # "data"
  <2>1. rest = DataAt(packets)
    BY <1>9, Zenon DEF DataAt
  <2> HIDE DEF rest
  <2> QED BY <1>1, <1>5, <1>6, <1>7, <1>9, <1>10, <2>1
<1> QED BY <1>8, <1>9, Zenon

LEMMA NoDataTaken ==
    ASSUME NEW packets \in Seq(Packet), packets # <<>>, Head(packets) # "data"
    PROVE DataIn(packets) = DataIn(Tail(packets))
<1>1. DataIn(packets) = DataIn(Tail(packets)) + 0 /\ Tail(packets) \in Seq(Packet)
  BY DataTail, Zenon
<1>2. DataIn(Tail(packets)) \in Nat
  BY <1>1, DataFinite, Zenon
<1> QED BY <1>1, <1>2

\* Sums of the places a byte can be in.
LEMMA UploadSum ==
    ASSUME NEW a \in Nat, NEW b \in Nat, NEW c \in Nat, NEW d \in Nat, NEW e \in Nat
    PROVE (a + b + c + d + e) + 1 = (a + 1) + b + c + d + e
OBVIOUS

LEMMA DownloadSum ==
    ASSUME NEW a \in Nat, NEW b \in Nat, NEW c \in Nat, NEW d \in Nat
    PROVE a + b + c + d = a + b + (c - 1) + (d + 1)
OBVIOUS

LEMMA ReadSum ==
    ASSUME NEW a \in Nat, NEW b \in Nat, NEW c \in Nat, NEW d \in Nat, NEW e \in Nat, NEW n \in Nat
    PROVE /\ a + b + c + d + e = a + b + c + (d - n) + (e + n)
          /\ a + b + (d + c) + 0 + e = a + b + c + (d - n) + (e + n)
OBVIOUS

LEMMA ReceiveSum ==
    ASSUME NEW a \in Nat, NEW b \in Nat, NEW c \in Nat, NEW d \in Nat, NEW e \in Nat, NEW n \in Nat
    PROVE a + b + c + d + e = a + (b - n) + (c + n) + d + e
OBVIOUS

LEMMA ArriveSum ==
    ASSUME NEW a \in Nat, NEW b \in Nat, NEW c \in Nat, NEW d \in Nat, NEW e \in Nat
    PROVE (a + 1) + b + c + d + e = a + (b + 1) + c + d + e
OBVIOUS

LEMMA SendSum ==
    ASSUME NEW a \in Nat, NEW b \in Nat, NEW c \in Nat, NEW d \in Nat, NEW n \in Nat
    PROVE /\ a + b + c + d = a + (b - n) + (c + n) + d
          /\ (n + a) + 0 + c + d = a + n + c + d
OBVIOUS

LEMMA WriteSum ==
    ASSUME NEW a \in Nat, NEW b \in Nat, NEW c \in Nat, NEW d \in Nat, NEW n \in Nat
    PROVE (a + b + c + d) + n = (a + n) + b + c + d
OBVIOUS

LEMMA WireAppend ==
    ASSUME NEW packets \in Seq(Packet), NEW p \in Packet
    PROVE LET more == Append(packets, p)
          IN  /\ more \in Seq(Packet) /\ Len(more) = Len(packets) + 1 /\ Len(packets) \in Nat
              /\ DOMAIN more = 1..(Len(packets) + 1) /\ DOMAIN packets = 1..Len(packets)
              /\ more[Len(packets) + 1] = p /\ \A i \in DOMAIN packets : more[i] = packets[i]
OBVIOUS

LEMMA WireTail ==
    ASSUME NEW packets \in Seq(Packet), packets # <<>>
    PROVE /\ Tail(packets) \in Seq(Packet) /\ Len(Tail(packets)) = Len(packets) - 1 /\ Len(packets) \in Nat \ {0}
          /\ DOMAIN Tail(packets) = 1..(Len(packets) - 1) /\ DOMAIN packets = 1..Len(packets)
          /\ Head(packets) = packets[1] /\ \A i \in DOMAIN Tail(packets) : Tail(packets)[i] = packets[i + 1]
OBVIOUS

-----------------------------------------------------------------------------
(***************************************************************************)
(* The client's steps.                                                     *)
(***************************************************************************)
LEMMA ConnectKeeps == ASSUME TcpInv, Connect PROVE TcpInv'
<1> USE DEF TcpInv
<1>1. client \in Client /\ wire \in Seq(Packet) /\ flow' = flow /\ tasks' = tasks /\ phase' = phase
  BY Zenon DEF Connect, TcpTypeOK
<1>2. client' \in Client /\ client'.connection = client.connection + 1 /\ client'.state = "syn" /\ client'.sent = 0 /\ client'.got = 0
  BY <1>1 DEF Connect, Client
<1>3. wire' = Append(wire, "syn") /\ "syn" \in Packet
  BY Zenon DEF Connect, Packet
<1>4. TcpTypeOK'
  BY <1>1, <1>2, <1>3, WireAppend, Zenon DEF TcpTypeOK
<1>5. ~Mine' /\ (flow' # NoFlow => flow'.connection <= client'.connection)
  BY <1>1, <1>2 DEF PlacesOK, Mine, Client, TcpTypeOK, Flow
<1>6. \A i \in DOMAIN wire : wire[i] # "syn"
  BY Zenon DEF PlacesOK, Connect
<1>7. PlacesOK'
  BY <1>1, <1>2, <1>3, <1>5, <1>6, WireAppend DEF PlacesOK, Running
<1>8. FinOK' /\ UploadOK'
  BY <1>5, Zenon DEF FinOK, UploadOK
<1>9. DownloadOK'
  BY <1>1, <1>5, Zenon DEF DownloadOK, Disconnected, Running
<1> QED BY <1>4, <1>7, <1>8, <1>9, Zenon

LEMMA ConnectedKeeps == ASSUME TcpInv, Connected PROVE TcpInv'
<1> USE DEF TcpInv
<1>1. client \in Client /\ wire \in Seq(Packet) /\ flow' = flow /\ tasks' = tasks /\ phase' = phase
  BY Zenon DEF Connected, TcpTypeOK
<1>2. client' \in Client /\ client'.connection = client.connection /\ client'.state = "open" /\ client'.sent = client.sent /\ client'.got = client.got
  BY <1>1, Zenon DEF Connected, Client
<1>3. wire' = Append(wire, "ack") /\ "ack" \in Packet /\ client.state = "syn" /\ Mine
  BY Zenon DEF Connected, Packet
<1>4. TcpTypeOK'
  BY <1>1, <1>2, <1>3, WireAppend, Zenon DEF TcpTypeOK
<1>5. (Mine' <=> Mine) /\ (Flowing' <=> Flowing) /\ (\A c : Running(c)' <=> Running(c)) /\ Unread' = Unread
  BY <1>1, <1>2, <1>3, DataAppend, DataFinite DEF Mine, Flowing, Running, Unread
<1>6. \A i \in DOMAIN wire : wire[i] # "syn" /\ wire[i] # "fin"
  BY <1>3, Zenon DEF PlacesOK, FinOK, Sent
<1>7. \A i \in DOMAIN wire' : wire'[i] # "syn" /\ wire'[i] # "fin"
  BY <1>1, <1>3, <1>6, WireAppend
<1>8. PlacesOK'
  BY <1>1, <1>2, <1>5, <1>7, Zenon DEF PlacesOK
<1>9. FinOK'
  BY <1>1, <1>3, <1>5, <1>7, Zenon DEF FinOK, Sent
<1>10. UploadOK'
  BY <1>1, <1>2, <1>3, <1>5, Zenon DEF UploadOK, Sent
<1>11. DownloadOK'
  BY <1>1, <1>2, <1>5, Zenon DEF DownloadOK, Disconnected
<1> QED BY <1>4, <1>8, <1>9, <1>10, <1>11, Zenon

LEMMA SendDataKeeps == ASSUME TcpInv, SendData PROVE TcpInv'
<1> USE DEF TcpInv
<1>1. client \in Client /\ wire \in Seq(Packet) /\ flow' = flow /\ tasks' = tasks /\ phase' = phase
  BY Zenon DEF SendData, TcpTypeOK
<1>2. client' \in Client /\ client'.connection = client.connection /\ client'.state = client.state /\ client'.sent = client.sent + 1 /\ client'.got = client.got
  BY <1>1 DEF SendData, Client
<1>3. wire' = Append(wire, "data") /\ "data" \in Packet /\ client.state \in {"open", "ended"} /\ Mine
  BY Zenon DEF SendData, Packet
<1>4. TcpTypeOK'
  BY <1>1, <1>2, <1>3, WireAppend, Zenon DEF TcpTypeOK
<1>5. (Mine' <=> Mine) /\ (Flowing' <=> Flowing) /\ (\A c : Running(c)' <=> Running(c)) /\ Unread' = Unread + 1 /\ Unread \in Nat
  BY <1>1, <1>2, <1>3, DataAppend, DataFinite, Zenon DEF Mine, Flowing, Running, Unread
<1>6. \A i \in DOMAIN wire : wire[i] # "syn" /\ wire[i] # "fin"
  BY <1>3, Zenon DEF PlacesOK, FinOK, Sent
<1>7. \A i \in DOMAIN wire' : wire'[i] # "syn" /\ wire'[i] # "fin"
  BY <1>1, <1>3, <1>6, WireAppend
<1>8. PlacesOK'
  BY <1>1, <1>2, <1>3, <1>5, <1>7, Zenon DEF PlacesOK
<1>9. FinOK'
  BY <1>1, <1>3, <1>5, <1>7, Zenon DEF FinOK, Sent
<1>10. UploadOK'
  <2>1. ASSUME Flowing, Running(flow.connection)
        PROVE client'.sent = Unread' + flow'.rx + Total(flow'.in) + tasks'[flow'.connection].reading + tasks'[flow'.connection].read
    <3>1. flow \in Flow /\ tasks[flow.connection] \in Task
      BY <2>1, Zenon DEF Flowing, TcpTypeOK, Running
    <3>2. Total(flow.in) \in Nat
      BY <3>1, BytesFinite, Zenon DEF Flow
    <3>3. client.sent = Unread + flow.rx + Total(flow.in) + tasks[flow.connection].reading + tasks[flow.connection].read
      BY <2>1, <1>3, Zenon DEF UploadOK
    <3>4. flow.rx \in Nat /\ tasks[flow.connection].reading \in Nat /\ tasks[flow.connection].read \in Nat
      BY <3>1, Zenon DEF Flow, Task
    <3>5. client.sent + 1 = (Unread + 1) + flow.rx + Total(flow.in) + tasks[flow.connection].reading + tasks[flow.connection].read
      <4>1. PICK a \in Nat, b \in Nat, i \in Nat, d \in Nat, e \in Nat :
              a = Unread /\ b = flow.rx /\ i = Total(flow.in) /\ d = tasks[flow.connection].reading /\ e = tasks[flow.connection].read
        BY <1>5, <3>2, <3>4, Zenon
      <4>2. (a + b + i + d + e) + 1 = (a + 1) + b + i + d + e
        BY UploadSum
      <4> QED BY <3>3, <4>1, <4>2, Zenon
    <3> QED BY <1>1, <1>2, <1>5, <3>5, Zenon
  <2>2. \A c \in DOMAIN tasks : ~(tasks[c].eof /\ Flowing /\ flow.connection = c)
    BY <1>3, Zenon DEF UploadOK, Sent
  <2> QED BY <1>1, <1>5, <2>1, <2>2, Zenon DEF UploadOK
<1>11. DownloadOK'
  BY <1>1, <1>2, <1>5, Zenon DEF DownloadOK, Disconnected
<1> QED BY <1>4, <1>8, <1>9, <1>10, <1>11, Zenon

LEMMA SendFinKeeps == ASSUME TcpInv, SendFin PROVE TcpInv'
<1> USE DEF TcpInv
<1>1. client \in Client /\ wire \in Seq(Packet) /\ flow' = flow /\ tasks' = tasks /\ phase' = phase
  BY Zenon DEF SendFin, TcpTypeOK
<1>2. /\ client' \in Client /\ client'.connection = client.connection /\ client'.sent = client.sent /\ client'.got = client.got
      /\ client'.state \in {"fin", "closed"} /\ (client'.state = "closed" => client.state = "ended")
  BY <1>1, Zenon DEF SendFin, Client
<1>3. wire' = Append(wire, "fin") /\ "fin" \in Packet /\ client.state \in {"open", "ended"}
  BY Zenon DEF SendFin, Packet
<1>4. TcpTypeOK'
  BY <1>1, <1>2, <1>3, WireAppend, Zenon DEF TcpTypeOK
<1>5. (Mine' <=> Mine) /\ (Flowing' <=> Flowing) /\ (\A c : Running(c)' <=> Running(c)) /\ Unread' = Unread
  BY <1>1, <1>2, <1>3, DataAppend, DataFinite DEF Mine, Flowing, Running, Unread
<1>6. \A i \in DOMAIN wire : wire[i] # "syn" /\ (Mine => wire[i] # "fin")
  BY <1>3, Zenon DEF PlacesOK, FinOK, Sent
<1>7. PlacesOK'
  <2>1. \A i \in DOMAIN wire' : wire'[i] # "syn"
    BY <1>1, <1>3, <1>6, WireAppend
  <2> QED BY <1>1, <1>2, <1>5, <2>1, Zenon DEF PlacesOK
<1>8. FinOK'
  <2>1. Mine => \A i \in DOMAIN wire' : wire'[i] = "fin" => i = Len(wire') /\ \A j \in DOMAIN wire' : ~(i < j)
    BY <1>1, <1>3, <1>6, WireAppend
  <2>2. Sent'
    BY <1>2, Zenon DEF Sent
  <2>3. Mine => flow.socket \notin {"closeWait", "lastAck"}
    BY <1>3, Zenon DEF FinOK, Sent
  <2> QED BY <1>1, <1>5, <2>1, <2>2, <2>3, Zenon DEF FinOK
<1>9. UploadOK'
  BY <1>1, <1>2, <1>3, <1>5, Zenon DEF UploadOK, Sent
<1>10. DownloadOK'
  BY <1>1, <1>2, <1>5, Zenon DEF DownloadOK, Disconnected
<1> QED BY <1>4, <1>7, <1>8, <1>9, <1>10, Zenon

LEMMA SendResetKeeps == ASSUME TcpInv, SendReset PROVE TcpInv'
<1> USE DEF TcpInv
<1>1. client \in Client /\ wire \in Seq(Packet) /\ flow' = flow /\ tasks' = tasks /\ phase' = phase
  BY Zenon DEF SendReset, TcpTypeOK
<1>2. client' \in Client /\ client'.connection = client.connection /\ client'.sent = client.sent /\ client'.got = client.got /\ client'.state = "reset"
  BY <1>1, Zenon DEF SendReset, Client
<1>3. wire' = Append(wire, "rst") /\ "rst" \in Packet /\ client.state \in {"open", "ended", "fin"}
  BY Zenon DEF SendReset, Packet
<1>4. TcpTypeOK'
  BY <1>1, <1>2, <1>3, WireAppend, Zenon DEF TcpTypeOK
<1>5. (Mine' <=> Mine) /\ (Flowing' <=> Flowing) /\ (\A c : Running(c)' <=> Running(c)) /\ Unread' = Unread
  BY <1>1, <1>2, <1>3, DataAppend, DataFinite DEF Mine, Flowing, Running, Unread
<1>6. PlacesOK'
  <2>1. \A i \in DOMAIN wire : wire[i] # "syn"
    BY <1>3, Zenon DEF PlacesOK
  <2>2. \A i \in DOMAIN wire' : wire'[i] # "syn"
    BY <1>1, <1>3, <2>1, WireAppend
  <2> QED BY <1>1, <1>2, <1>5, <2>2, Zenon DEF PlacesOK
<1>7. FinOK'
  <2>1. /\ DOMAIN wire' = 1..(Len(wire) + 1) /\ DOMAIN wire = 1..Len(wire) /\ Len(wire) \in Nat
        /\ wire'[Len(wire) + 1] = "rst" /\ \A i \in DOMAIN wire : wire'[i] = wire[i]
    BY <1>1, <1>3, WireAppend, Zenon
  <2>2. Sent'
    BY <1>2, Zenon DEF Sent
  <2>3. Mine => \A i \in DOMAIN wire' : wire'[i] = "fin" => \A j \in DOMAIN wire' : i < j => wire'[j] # "data"
    BY <2>1 DEF FinOK
  <2>4. Mine /\ flow.socket \in {"closeWait", "lastAck"} => \A i \in DOMAIN wire' : wire'[i] # "data"
    BY <2>1 DEF FinOK
  <2> QED BY <1>1, <1>5, <2>2, <2>3, <2>4, Zenon DEF FinOK
<1>8. UploadOK'
  BY <1>1, <1>2, <1>3, <1>5, Zenon DEF UploadOK, Sent
<1>9. DownloadOK'
  BY <1>1, <1>2, <1>5, Zenon DEF DownloadOK, Disconnected
<1> QED BY <1>4, <1>6, <1>7, <1>8, <1>9, Zenon

LEMMA ResetSeenKeeps == ASSUME TcpInv, ResetSeen PROVE TcpInv'
<1> USE DEF TcpInv
<1>1. client \in Client /\ wire = <<>> /\ wire' = wire /\ flow' = flow /\ tasks' = tasks /\ phase' = phase
  BY Zenon DEF ResetSeen, TcpTypeOK
<1>2. client' \in Client /\ client'.connection = client.connection /\ client'.sent = client.sent /\ client'.got = client.got /\ client'.state = "reset"
  BY <1>1, Zenon DEF ResetSeen, Client
<1>3. TcpTypeOK'
  BY <1>1, <1>2, Zenon DEF TcpTypeOK
<1>4. (Mine' <=> Mine) /\ (Flowing' <=> Flowing) /\ (\A c : Running(c)' <=> Running(c)) /\ Unread' = Unread
  BY <1>1, <1>2, Zenon DEF Mine, Flowing, Running, Unread
<1>5. ~Mine \/ ~Flowing
  BY Zenon DEF ResetSeen, Flowing
<1>6. PlacesOK' /\ FinOK'
  BY <1>1, <1>2, <1>4, DOMAIN wire = {}, Zenon DEF PlacesOK, FinOK, Sent
<1>7. UploadOK'
  BY <1>4, <1>5, Zenon DEF UploadOK
<1>8. DownloadOK'
  BY <1>1, <1>2, <1>4, Zenon DEF DownloadOK, Disconnected
<1> QED BY <1>3, <1>6, <1>7, <1>8, Zenon

LEMMA DeliverDataKeeps == ASSUME TcpInv, DeliverData PROVE TcpInv'
<1> USE DEF TcpInv
<1>1. client \in Client /\ flow \in Flow /\ wire' = wire /\ tasks' = tasks /\ phase' = phase /\ Mine /\ flow.tx > 0
  BY Zenon DEF DeliverData, TcpTypeOK, Mine
<1>2. /\ client' \in Client /\ client'.connection = client.connection /\ client'.sent = client.sent
      /\ client'.got = client.got + 1 /\ client'.state = client.state /\ client.state \in {"open", "fin"}
  BY <1>1 DEF DeliverData, Client
<1>3. /\ flow' \in Flow /\ flow'.tx = flow.tx - 1 /\ flow'.connection = flow.connection /\ flow'.socket = flow.socket
      /\ flow'.rx = flow.rx /\ flow'.input = flow.input /\ flow'.in = flow.in /\ flow'.out = flow.out
      /\ flow'.pending = flow.pending /\ flow'.eof = flow.eof /\ flow'.wrote = flow.wrote
  <2>1. flow' = [flow EXCEPT !.tx = flow.tx - 1] /\ flow.tx - 1 \in Nat
    BY <1>1 DEF DeliverData, Flow
  <2> QED BY <1>1, <2>1, Zenon DEF Flow
<1>4. TcpTypeOK'
  BY <1>1, <1>2, <1>3, Zenon DEF TcpTypeOK
<1>5. flow # NoFlow /\ flow' # NoFlow
  BY <1>1, <1>3 DEF Flow, NoFlow
<1>6. (Mine' <=> Mine) /\ (Flowing' <=> Flowing) /\ (\A c : Running(c)' <=> Running(c)) /\ Unread' = Unread
  BY <1>1, <1>2, <1>3, <1>5, Zenon DEF Mine, Flowing, Running, Unread
<1>7. PlacesOK' /\ FinOK'
  BY <1>1, <1>2, <1>3, <1>5, <1>6 DEF PlacesOK, FinOK, Sent
<1>8. UploadOK'
  BY <1>1, <1>2, <1>3, <1>6, Zenon DEF UploadOK, Sent
<1>9. DownloadOK'
  <2>1. Total(flow.out) \in Nat /\ flow.pending \in Nat /\ flow.tx \in Nat /\ client.got \in Nat
    BY <1>1, BytesFinite, Zenon DEF Flow, Client
  <2>2. Flowing => flow.wrote = Total(flow.out) + flow.pending + flow.tx + client.got
    BY <1>1, Zenon DEF DownloadOK
  <2>3. Total(flow.out) + flow.pending + flow.tx + client.got = Total(flow.out) + flow.pending + (flow.tx - 1) + (client.got + 1)
    BY <2>1, DownloadSum
  <2>4. Flowing => flow'.wrote = Total(flow'.out) + flow'.pending + flow'.tx + client'.got
    BY <1>2, <1>3, <2>2, <2>3, Zenon
  <2> QED BY <1>1, <1>2, <1>3, <1>5, <1>6, <2>4, Zenon DEF DownloadOK, Disconnected
<1> QED BY <1>4, <1>7, <1>8, <1>9, Zenon

LEMMA DeliverFinKeeps == ASSUME TcpInv, DeliverFin PROVE TcpInv'
<1> USE DEF TcpInv
<1>1. client \in Client /\ flow \in Flow /\ flow # NoFlow /\ wire' = wire /\ tasks' = tasks /\ phase' = phase /\ Mine /\ flow.tx = 0
  BY Zenon DEF DeliverFin, TcpTypeOK, Mine
<1>2. /\ client' \in Client /\ client'.connection = client.connection /\ client'.sent = client.sent
      /\ client'.got = client.got /\ client.state \in {"open", "fin"}
      /\ client'.state = IF client.state = "open" THEN "ended" ELSE "closed"
  BY <1>1, Zenon DEF DeliverFin, Client
<1>3. /\ flow' \in Flow /\ flow'.tx = flow.tx /\ flow'.connection = flow.connection
      /\ flow'.rx = flow.rx /\ flow'.input = flow.input /\ flow'.in = flow.in /\ flow'.out = flow.out
      /\ flow'.pending = flow.pending /\ flow'.eof = flow.eof /\ flow'.wrote = flow.wrote
      /\ flow.socket \in {"finWait", "lastAck"}
      /\ flow'.socket = flow.socket \/ flow'.socket = "closed"
  BY <1>1, Zenon DEF DeliverFin, Flow
<1>4. TcpTypeOK'
  BY <1>1, <1>2, <1>3, Zenon DEF TcpTypeOK
<1>5. flow' # NoFlow /\ Flowing
  BY <1>1, <1>3 DEF Flow, NoFlow, Flowing
<1>6. (Mine' <=> Mine) /\ (Flowing' => Flowing /\ flow'.socket = flow.socket) /\ (\A c : Running(c)' <=> Running(c)) /\ Unread' = Unread
  BY <1>1, <1>2, <1>3, <1>5, Zenon DEF Mine, Flowing, Running, Unread
<1>7. PlacesOK'
  BY <1>1, <1>2, <1>3, <1>5, <1>6, Zenon DEF PlacesOK
<1>8. FinOK'
  BY <1>1, <1>2, <1>3, <1>5, <1>6 DEF FinOK, Sent
<1>9. UploadOK'
  BY <1>1, <1>2, <1>3, <1>6 DEF UploadOK, Sent
<1>10. DownloadOK'
  <2>1. flow.eof /\ flow.out = <<>> /\ flow.pending = 0
    BY <1>1, <1>3, Zenon DEF DownloadOK
  <2>2. client.got = flow.wrote
    BY <1>1, <1>5, <2>1, NoBytes DEF DownloadOK, Client
  <2> QED BY <1>1, <1>2, <1>3, <1>5, <1>6, <2>1, <2>2, Zenon DEF DownloadOK, Disconnected
<1> QED BY <1>4, <1>7, <1>8, <1>9, <1>10, Zenon

-----------------------------------------------------------------------------
(***************************************************************************)
(* The session's steps.                                                    *)
(***************************************************************************)
\* A running session has the flow of its connection.
LEMMA SessionFlow ==
    ASSUME TcpInv, NEW c \in DOMAIN tasks, Running(c)
    PROVE flow \in Flow /\ flow # NoFlow /\ flow.connection = c /\ tasks[c] \in Task
BY Zenon DEF TcpInv, TcpTypeOK, PlacesOK

LEMMA ReadKeeps == ASSUME TcpInv, NEW c \in DOMAIN tasks, NEW n \in 1..Chunk, Read(c, n) PROVE TcpInv'
<1> USE DEF TcpInv
<1>1. /\ Running(c) /\ flow \in Flow /\ flow # NoFlow /\ flow.connection = c /\ tasks[c] \in Task
      /\ client' = client /\ wire' = wire /\ phase' = phase /\ n \in Nat /\ n > 0
  BY SessionFlow, SizeAssumption DEF Read
<1>2. /\ flow' \in Flow /\ flow' # NoFlow /\ flow'.connection = c /\ flow'.socket = flow.socket /\ flow'.tx = flow.tx
      /\ flow'.rx = flow.rx /\ flow'.input = flow.input /\ flow'.out = flow.out
      /\ flow'.pending = flow.pending /\ flow'.eof = flow.eof /\ flow'.wrote = flow.wrote
      /\ \/ tasks[c].reading > 0 /\ n <= tasks[c].reading /\ flow' = flow
         \/ tasks[c].reading = 0 /\ flow.in # <<>> /\ flow'.in = Tail(flow.in) /\ n <= Head(flow.in)
  <2>1. CASE tasks[c].reading > 0
    BY <1>1, <2>1, Zenon DEF Read
  <2>2. CASE ~(tasks[c].reading > 0)
    <3>1. flow' = [flow EXCEPT !.in = Tail(flow.in)] /\ flow.in # <<>> /\ flow.in \in Seq(Nat) /\ n <= Head(flow.in)
      BY <1>1, <2>2, Zenon DEF Read, Flow
    <3>2. Tail(flow.in) \in Seq(Nat)
      BY <3>1, TotalTail, Zenon
    <3>3. flow' \in Flow /\ flow'.in = Tail(flow.in)
      BY <1>1, <3>1, <3>2, Zenon DEF Flow
    <3>4. flow' # NoFlow
      BY <3>3 DEF Flow, NoFlow
    <3>5. tasks[c].reading = 0
      BY <1>1, <2>2 DEF Task
    <3> QED BY <1>1, <3>1, <3>3, <3>4, <3>5, Zenon DEF Flow
  <2> QED BY <2>1, <2>2, Zenon
<1>3. PICK left \in Nat : /\ tasks' = [tasks EXCEPT ![c] = [tasks[c] EXCEPT !.reading = left - n, !.read = tasks[c].read + n]]
                          /\ n <= left
                          /\ \/ left = tasks[c].reading /\ flow' = flow /\ tasks[c].reading > 0
                             \/ /\ tasks[c].reading = 0 /\ flow.in # <<>> /\ flow'.in = Tail(flow.in) /\ left = Head(flow.in)
  <2>1. CASE tasks[c].reading > 0
    BY <1>1, <2>1, Zenon DEF Read, Rest, Task
  <2>2. CASE ~(tasks[c].reading > 0)
    <3>1. flow.in # <<>> /\ flow.in \in Seq(Nat)
      BY <1>1, <2>2, Zenon DEF Read, Flow
    <3>2. Head(flow.in) \in Nat
      BY <3>1, TotalTail, Zenon
    <3> QED BY <1>1, <1>2, <2>2, <3>1, <3>2, Zenon DEF Read, Rest
  <2> QED BY <2>1, <2>2, Zenon
<1>4. /\ tasks[c].read + n \in Nat /\ left - n \in Nat /\ DOMAIN tasks' = DOMAIN tasks /\ tasks'[c] \in Task
      /\ tasks'[c].reading = left - n /\ tasks'[c].read = tasks[c].read + n /\ tasks'[c].state = tasks[c].state
      /\ tasks'[c].eof = tasks[c].eof /\ tasks'[c].shut = tasks[c].shut
      /\ \A d \in DOMAIN tasks \ {c} : tasks'[d] = tasks[d]
  <2>1. tasks[c].read + n \in Nat /\ left - n \in Nat
    BY <1>1, <1>3 DEF Task
  <2> QED BY <1>1, <1>3, <2>1, Zenon DEF Task
<1>5. TcpTypeOK'
  <2>1. tasks' \in [DOMAIN tasks -> Task]
    BY <1>3, <1>4, Zenon DEF TcpTypeOK
  <2> QED BY <1>1, <1>2, <1>4, <2>1, Zenon DEF TcpTypeOK
<1>6. (Mine' <=> Mine) /\ (Flowing' <=> Flowing) /\ (\A d : Running(d)' <=> Running(d)) /\ Unread' = Unread
  BY <1>1, <1>2, <1>4, Zenon DEF Mine, Flowing, Running, Unread
<1>7. PlacesOK' /\ FinOK'
  BY <1>1, <1>2, <1>4, <1>6 DEF PlacesOK, FinOK, Sent
<1>8. UploadOK'
  <2>1. /\ Unread \in Nat /\ flow.rx \in Nat /\ flow.in \in Seq(Nat) /\ Total(flow.in) \in Nat
        /\ tasks[c].reading \in Nat /\ tasks[c].read \in Nat
    BY <1>1, BytesFinite, DataFinite, Zenon DEF Flow, Task, TcpTypeOK, Unread
  <2>2. Unread + flow.rx + Total(flow.in) + tasks[c].reading + tasks[c].read
          = Unread + flow.rx + Total(flow'.in) + (left - n) + (tasks[c].read + n)
    <3> HIDE DEF TcpInv
    <3>0. n \in Nat /\ left \in Nat
      BY <1>1, Zenon
    <3>1. CASE left = tasks[c].reading /\ flow' = flow
      <4>1. PICK a \in Nat, b \in Nat, i \in Nat, d \in Nat, e \in Nat :
              a = Unread /\ b = flow.rx /\ i = Total(flow.in) /\ d = tasks[c].reading /\ e = tasks[c].read
        BY <2>1, Zenon
      <4>2. a + b + i + d + e = a + b + i + (d - n) + (e + n)
        BY <3>0
      <4> QED BY <3>1, <4>1, <4>2, Zenon
    <3>2. CASE tasks[c].reading = 0 /\ flow.in # <<>> /\ flow'.in = Tail(flow.in) /\ left = Head(flow.in)
      <4>1. Total(flow.in) = left + Total(flow'.in) /\ flow'.in \in Seq(Nat)
        BY <2>1, <3>2, TotalTail, Zenon
      <4>2. Total(flow'.in) \in Nat
        BY <4>1, BytesFinite, Zenon
      <4>3. PICK a \in Nat, b \in Nat, i \in Nat, e \in Nat :
              a = Unread /\ b = flow.rx /\ i = Total(flow'.in) /\ e = tasks[c].read
        BY <2>1, <4>2, Zenon
      <4>4. a + b + (left + i) + 0 + e = a + b + i + (left - n) + (e + n)
        BY <3>0
      <4> QED BY <3>2, <4>1, <4>3, <4>4, Zenon
    <3> QED BY <1>3, <3>1, <3>2, Zenon
  <2>3. Flowing /\ Mine => client.sent = Unread + flow.rx + Total(flow.in) + tasks[c].reading + tasks[c].read
    BY <1>1, Zenon DEF UploadOK
  <2>4. Flowing /\ Mine =>
          client'.sent = Unread' + flow'.rx + Total(flow'.in) + tasks'[flow'.connection].reading + tasks'[flow'.connection].read
    BY <1>1, <1>2, <1>4, <1>6, <2>2, <2>3
  <2>5. ~(tasks[c].eof /\ Mine /\ Flowing)
    BY <1>1, <1>3 DEF UploadOK
  <2>6. \A d \in DOMAIN tasks' : ~(tasks'[d].eof /\ Mine' /\ Flowing' /\ flow'.connection = d)
    BY <1>2, <1>4, <1>6, <2>5, Zenon
  <2> QED BY <1>6, <2>4, <2>6, Zenon DEF UploadOK
<1>9. DownloadOK'
  BY <1>1, <1>2, <1>4, <1>6, Zenon DEF DownloadOK, Disconnected
<1> QED BY <1>5, <1>7, <1>8, <1>9, Zenon

LEMMA ReadEofKeeps == ASSUME TcpInv, NEW c \in DOMAIN tasks, ReadEof(c) PROVE TcpInv'
<1> USE DEF TcpInv
<1>1. /\ Running(c) /\ flow \in Flow /\ flow # NoFlow /\ flow.connection = c /\ tasks[c] \in Task
      /\ client' = client /\ wire' = wire /\ phase' = phase /\ flow' = flow
      /\ tasks[c].reading = 0 /\ flow.in = <<>> /\ ~flow.input
      /\ tasks' = [tasks EXCEPT ![c] = [tasks[c] EXCEPT !.eof = TRUE]]
  BY SessionFlow, Zenon DEF ReadEof
<1>2. /\ DOMAIN tasks' = DOMAIN tasks /\ tasks'[c] \in Task
      /\ tasks'[c].reading = 0 /\ tasks'[c].read = tasks[c].read /\ tasks'[c].state = tasks[c].state
      /\ tasks'[c].shut = tasks[c].shut /\ \A d \in DOMAIN tasks \ {c} : tasks'[d] = tasks[d]
  BY <1>1, Zenon DEF Task
<1>3. TcpTypeOK'
  <2>1. tasks' \in [DOMAIN tasks -> Task]
    BY <1>1, <1>2, Zenon DEF TcpTypeOK
  <2> QED BY <1>1, <1>2, <2>1, Zenon DEF TcpTypeOK
<1>4. (Mine' <=> Mine) /\ (Flowing' <=> Flowing) /\ (\A d : Running(d)' <=> Running(d)) /\ Unread' = Unread
  BY <1>1, <1>2, Zenon DEF Mine, Flowing, Running, Unread
<1>5. PlacesOK' /\ FinOK'
  BY <1>1, <1>2, <1>4 DEF PlacesOK, FinOK, Sent
<1>6. UploadOK'
  <2>1. ASSUME Mine, Flowing PROVE Sent /\ client.sent = tasks[c].read
    <3>1. flow.socket \in {"closeWait", "lastAck"} /\ flow.rx = 0
      BY <1>1, <2>1, Zenon DEF FinOK
    <3>2. Sent /\ Unread = 0
      BY <2>1, <3>1, NoData, Zenon DEF FinOK, Unread, TcpTypeOK
    <3>3. client.sent = Unread + flow.rx + Total(flow.in) + tasks[c].reading + tasks[c].read
      BY <1>1, <2>1, Zenon DEF UploadOK
    <3>4. client.sent = 0 + 0 + 0 + 0 + tasks[c].read
      BY <1>1, <3>1, <3>2, <3>3, NoBytes, Zenon
    <3>5. tasks[c].read \in Nat
      BY <1>1, Zenon DEF Task
    <3> QED BY <3>2, <3>4, <3>5
  <2>2. \A d \in DOMAIN tasks' : tasks'[d].eof /\ Mine' /\ Flowing' /\ flow'.connection = d =>
          Sent' /\ ~flow'.input /\ tasks'[d].reading = 0 /\ flow'.in = <<>> /\ tasks'[d].read = client'.sent
    BY <1>1, <1>2, <1>4, <2>1, Zenon DEF Sent
  <2>3. Flowing' /\ Mine' /\ Running(flow.connection)' =>
          client'.sent = Unread' + flow'.rx + Total(flow'.in) + tasks'[flow'.connection].reading + tasks'[flow'.connection].read
    BY <1>1, <1>2, <1>4 DEF UploadOK
  <2> QED BY <2>2, <2>3, Zenon DEF UploadOK
<1>7. DownloadOK'
  BY <1>1, <1>2, <1>4, Zenon DEF DownloadOK, Disconnected
<1> QED BY <1>3, <1>5, <1>6, <1>7, Zenon

LEMMA WriteKeeps == ASSUME TcpInv, NEW c \in DOMAIN tasks, NEW n \in 1..Chunk, Write(c, n) PROVE TcpInv'
<1> USE DEF TcpInv
<1>1. /\ Running(c) /\ flow \in Flow /\ flow # NoFlow /\ flow.connection = c /\ tasks[c] \in Task /\ ~tasks[c].shut
      /\ client' = client /\ wire' = wire /\ phase' = phase /\ tasks' = tasks /\ n \in Nat
  BY SessionFlow, SizeAssumption DEF Write
<1>2. flow.out \in Seq(Nat) /\ flow.wrote \in Nat /\ flow.pending \in Nat /\ flow.tx \in Nat /\ client.got \in Nat /\ Total(flow.out) \in Nat
  BY <1>1, BytesFinite, Zenon DEF Flow, TcpTypeOK, Client
<1>3. /\ flow' \in Flow /\ flow'.connection = c /\ flow'.socket = flow.socket /\ flow'.tx = flow.tx
      /\ flow'.rx = flow.rx /\ flow'.input = flow.input /\ flow'.in = flow.in /\ flow'.out = Append(flow.out, n)
      /\ flow'.pending = flow.pending /\ flow'.eof = flow.eof /\ flow'.wrote = flow.wrote + n
  <2>1. Append(flow.out, n) \in Seq(Nat) /\ flow.wrote + n \in Nat
    BY <1>1, <1>2
  <2> QED BY <1>1, <2>1, Zenon DEF Write, Flow
<1>4. flow' # NoFlow
  BY <1>3 DEF Flow, NoFlow
<1>5. TcpTypeOK'
  BY <1>1, <1>3, Zenon DEF TcpTypeOK
<1>6. (Mine' <=> Mine) /\ (Flowing' <=> Flowing) /\ (\A d : Running(d)' <=> Running(d)) /\ Unread' = Unread
  BY <1>1, <1>3, <1>4, Zenon DEF Mine, Flowing, Running, Unread
<1>7. PlacesOK' /\ FinOK'
  BY <1>1, <1>3, <1>4, <1>6 DEF PlacesOK, FinOK, Sent
<1>8. UploadOK'
  BY <1>1, <1>3, <1>6 DEF UploadOK, Sent
<1>9. ~flow.eof /\ flow.socket \notin {"finWait", "lastAck"} /\ ~(Mine /\ client.state \in {"ended", "closed"})
  BY <1>1, Zenon DEF DownloadOK, Disconnected
<1>10. DownloadOK'
  <2>1. Flowing /\ Mine => flow.wrote = Total(flow.out) + flow.pending + flow.tx + client.got
    BY Zenon DEF DownloadOK
  <2>2. (Total(flow.out) + flow.pending + flow.tx + client.got) + n = (Total(flow.out) + n) + flow.pending + flow.tx + client.got
    <3>1. PICK o \in Nat, p \in Nat, t \in Nat, g \in Nat : o = Total(flow.out) /\ p = flow.pending /\ t = flow.tx /\ g = client.got
      BY <1>1, <1>2, Zenon
    <3>2. n \in Nat
      BY <1>1, Zenon
    <3>3. (o + p + t + g) + n = (o + n) + p + t + g
      BY <3>2, WriteSum
    <3> QED BY <3>1, <3>3, Zenon
  <2>3. Total(flow'.out) = Total(flow.out) + n
    BY <1>1, <1>2, <1>3, TotalAppend, Zenon
  <2>4. Flowing /\ Mine => flow'.wrote = Total(flow'.out) + flow'.pending + flow'.tx + client'.got
    BY <1>1, <1>3, <2>1, <2>2, <2>3, Zenon
  <2> QED BY <1>1, <1>3, <1>6, <1>9, <2>4, Zenon DEF DownloadOK
<1> QED BY <1>5, <1>7, <1>8, <1>10, Zenon

LEMMA ShutdownKeeps == ASSUME TcpInv, NEW c \in DOMAIN tasks, Shutdown(c) PROVE TcpInv'
<1> USE DEF TcpInv
<1>1. /\ Running(c) /\ flow \in Flow /\ flow # NoFlow /\ flow.connection = c /\ tasks[c] \in Task
      /\ client' = client /\ wire' = wire /\ phase' = phase /\ flow' = flow
      /\ tasks' = [tasks EXCEPT ![c] = [tasks[c] EXCEPT !.shut = TRUE]]
  BY SessionFlow, Zenon DEF Shutdown
<1>2. /\ DOMAIN tasks' = DOMAIN tasks /\ tasks'[c] \in Task
      /\ tasks'[c].reading = tasks[c].reading /\ tasks'[c].read = tasks[c].read /\ tasks'[c].state = tasks[c].state
      /\ tasks'[c].eof = tasks[c].eof /\ tasks'[c].shut /\ \A d \in DOMAIN tasks \ {c} : tasks'[d] = tasks[d]
  BY <1>1, Zenon DEF Task
<1>3. TcpTypeOK'
  <2>1. tasks' \in [DOMAIN tasks -> Task]
    BY <1>1, <1>2, Zenon DEF TcpTypeOK
  <2> QED BY <1>1, <1>2, <2>1, Zenon DEF TcpTypeOK
<1>4. (Mine' <=> Mine) /\ (Flowing' <=> Flowing) /\ (\A d : Running(d)' <=> Running(d)) /\ Unread' = Unread
  BY <1>1, <1>2, Zenon DEF Mine, Flowing, Running, Unread
<1>5. PlacesOK' /\ FinOK'
  BY <1>1, <1>2, <1>4 DEF PlacesOK, FinOK, Sent
<1>6. UploadOK'
  BY <1>1, <1>2, <1>4 DEF UploadOK, Sent
<1>7. Disconnected'
  BY <1>1, <1>2, <1>4, Zenon DEF Disconnected
<1>8. DownloadOK'
  BY <1>1, <1>2, <1>4, <1>7, Zenon DEF DownloadOK
<1> QED BY <1>3, <1>5, <1>6, <1>8, Zenon

LEMMA EndKeeps == ASSUME TcpInv, NEW c \in DOMAIN tasks, NEW result \in {"done", "failed"}, End(c, result) PROVE TcpInv'
<1> USE DEF TcpInv
<1>1. /\ Running(c) /\ flow \in Flow /\ flow # NoFlow /\ flow.connection = c /\ tasks[c] \in Task
      /\ client' = client /\ wire' = wire /\ phase' = phase
      /\ tasks' = [tasks EXCEPT ![c] = [tasks[c] EXCEPT !.state = result]]
  BY SessionFlow, Zenon DEF End
<1>2. /\ DOMAIN tasks' = DOMAIN tasks /\ tasks'[c] \in Task
      /\ tasks'[c].reading = tasks[c].reading /\ tasks'[c].read = tasks[c].read /\ tasks'[c].state # "running"
      /\ tasks'[c].eof = tasks[c].eof /\ \A d \in DOMAIN tasks \ {c} : tasks'[d] = tasks[d]
  BY <1>1, Zenon DEF Task
<1>3. /\ flow' \in Flow /\ flow'.connection = c /\ flow'.socket = flow.socket /\ flow'.tx = flow.tx
      /\ flow'.rx = flow.rx /\ flow'.input = flow.input /\ flow'.in = <<>> /\ flow'.out = flow.out
      /\ flow'.pending = flow.pending /\ flow'.eof = flow.eof /\ flow'.wrote = flow.wrote
  <2>1. flow' = [flow EXCEPT !.in = <<>>] /\ <<>> \in Seq(Nat)
    BY DEF End
  <2> QED BY <1>1, <2>1, Zenon DEF Flow
<1>4. flow' # NoFlow
  BY <1>3 DEF Flow, NoFlow
<1>5. TcpTypeOK'
  <2>1. tasks' \in [DOMAIN tasks -> Task]
    BY <1>1, <1>2, Zenon DEF TcpTypeOK
  <2> QED BY <1>1, <1>2, <1>3, <2>1, Zenon DEF TcpTypeOK
<1>6. (Mine' <=> Mine) /\ (Flowing' <=> Flowing) /\ ~Running(c)' /\ (\A d : Running(d)' => Running(d)) /\ Unread' = Unread
  BY <1>1, <1>2, <1>3, <1>4, Zenon DEF Mine, Flowing, Running, Unread
<1>7. PlacesOK' /\ FinOK'
  BY <1>1, <1>2, <1>3, <1>4, <1>6 DEF PlacesOK, FinOK, Sent
<1>8. UploadOK'
  BY <1>1, <1>2, <1>3, <1>6 DEF UploadOK, Sent
<1>9. Disconnected'
  BY <1>1, <1>3, <1>6, Zenon DEF Disconnected
<1>10. DownloadOK'
  BY <1>1, <1>3, <1>4, <1>6, <1>9, Zenon DEF DownloadOK
<1> QED BY <1>5, <1>7, <1>8, <1>10, Zenon

-----------------------------------------------------------------------------
(***************************************************************************)
(* The packet loop's steps.                                                *)
(***************************************************************************)
\* A socket that received the FIN keeps it; a closed one stays closed.
LEMMA AcceptedSocket ==
    ASSUME NEW socket \in {"syn", "open", "closeWait", "finWait", "lastAck", "closed"}, NEW p \in Packet
    PROVE /\ Accepted(socket, p) \in {"syn", "open", "closeWait", "finWait", "lastAck", "closed"}
          /\ socket = "closed" => Accepted(socket, p) = "closed"
          /\ Accepted(socket, p) = "closeWait" => socket = "closeWait" \/ p = "fin"
          /\ Accepted(socket, p) = "lastAck" => socket = "lastAck"
          /\ Accepted(socket, p) = "finWait" => socket = "finWait"
          /\ socket \in {"closeWait", "lastAck"} => Accepted(socket, p) \in {socket, "closed"}
BY Zenon DEF Accepted, Packet

LEMMA AdmitKeeps ==
    ASSUME TcpInv, Receive, flow = NoFlow, Head(wire) = "syn", flow' = NewFlow(client.connection),
           tasks' = [c \in DOMAIN tasks \cup {client.connection} |-> IF c = client.connection THEN NewTask ELSE tasks[c]]
    PROVE TcpInv'
<1> USE DEF TcpInv
<1> DEFINE k == client.connection
<1>1. client \in Client /\ k \in Nat /\ wire \in Seq(Packet) /\ wire # <<>> /\ client' = client /\ phase' = "join" /\ wire' = Tail(wire)
  BY Zenon DEF Receive, TcpTypeOK, Client
<1>2. wire[1] = "syn" /\ 1 \in DOMAIN wire
  BY <1>1
<1>3. Len(wire) = 1 /\ client.state = "syn" /\ client.sent = 0 /\ client.got = 0
  BY <1>2, Zenon DEF PlacesOK
<1>4. wire' = <<>> /\ DOMAIN wire' = {} /\ wire' \in Seq(Packet)
  BY <1>1, <1>3
<1>5. /\ flow'.socket = "syn" /\ flow'.connection = k /\ flow'.rx = 0 /\ flow'.tx = 0 /\ flow'.input /\ flow'.in = <<>>
      /\ flow'.out = <<>> /\ flow'.pending = 0 /\ ~flow'.eof /\ flow'.wrote = 0
  BY Zenon DEF NewFlow
<1>6. flow' \in Flow /\ flow' # NoFlow
  <2>1. <<>> \in Seq(Nat)
    OBVIOUS
  <2> QED BY <1>1, <1>5, <2>1, Zenon DEF NewFlow, Flow, NoFlow
<1>7. NewTask \in Task /\ NewTask.state = "running" /\ NewTask.reading = 0 /\ NewTask.read = 0 /\ ~NewTask.eof
  BY Zenon DEF NewTask, Task
<1>8. /\ DOMAIN tasks' = DOMAIN tasks \cup {k} /\ tasks'[k] = NewTask
      /\ \A c \in DOMAIN tasks \ {k} : tasks'[c] = tasks[c]
  BY Zenon
<1>9. TcpTypeOK'
  <2>1. tasks' \in [DOMAIN tasks \cup {k} -> Task]
    BY <1>7, Zenon DEF TcpTypeOK
  <2>2. DOMAIN tasks' \in SUBSET Nat /\ tasks' \in [DOMAIN tasks' -> Task]
    BY <1>1, <1>8, <2>1, Zenon DEF TcpTypeOK
  <2> QED BY <1>1, <1>4, <1>6, <2>2, Zenon DEF TcpTypeOK
<1>10. \A c \in DOMAIN tasks : ~Running(c)
  BY Zenon DEF PlacesOK
<1>11. \A c \in DOMAIN tasks' : Running(c)' => c = k
  BY <1>8, <1>10, Zenon DEF Running
<1>12. Mine' /\ Unread' = 0
  BY <1>1, <1>4, <1>5, <1>6, NoData, Zenon DEF Mine, Unread
<1>13. PlacesOK'
  BY <1>1, <1>3, <1>4, <1>5, <1>6, <1>11 DEF PlacesOK
<1>14. FinOK'
  BY <1>4, <1>5, Zenon DEF FinOK
<1>15. UploadOK'
  <2>1. 0 = 0 + 0 + 0 + 0 + 0
    OBVIOUS
  <2>2. client'.sent = Unread' + flow'.rx + Total(flow'.in) + tasks'[flow'.connection].reading + tasks'[flow'.connection].read
    BY <1>1, <1>3, <1>5, <1>7, <1>8, <1>12, <2>1, NoBytes, Zenon
  <2> QED BY <1>5, <1>7, <1>8, <2>2 DEF UploadOK
<1>16. DownloadOK'
  <2>1. 0 = 0 + 0 + 0 + 0
    OBVIOUS
  <2>2. flow'.wrote = Total(flow'.out) + flow'.pending + flow'.tx + client'.got
    BY <1>1, <1>3, <1>5, <2>1, NoBytes, Zenon
  <2> QED BY <1>1, <1>3, <1>5, <2>2, Zenon DEF DownloadOK
<1> QED BY <1>9, <1>13, <1>14, <1>15, <1>16, Zenon

LEMMA PacketKeeps ==
    ASSUME TcpInv, Receive, flow # NoFlow
    PROVE TcpInv'
<1> USE DEF TcpInv
<1> DEFINE p == Head(wire)
<1>1. flow \in Flow /\ wire \in Seq(Packet) /\ wire # <<>> /\ client' = client /\ tasks' = tasks /\ phase' = "join" /\ wire' = Tail(wire)
  BY Zenon DEF Receive, TcpTypeOK
<1>2. /\ wire' \in Seq(Packet) /\ Len(wire') = Len(wire) - 1 /\ Len(wire) \in Nat \ {0} /\ DOMAIN wire' = 1..(Len(wire) - 1)
      /\ DOMAIN wire = 1..Len(wire) /\ p = wire[1] /\ \A i \in DOMAIN wire' : wire'[i] = wire[i + 1] /\ i + 1 \in DOMAIN wire
  BY <1>1, WireTail
<1>3. p \in Packet /\ Unread = Unread' + (IF p = "data" THEN 1 ELSE 0) /\ Unread' \in Nat /\ Unread \in Nat
  BY <1>1, <1>2, DataTail, DataFinite, Zenon DEF Unread
<1>4. /\ flow' \in Flow /\ flow'.connection = flow.connection /\ flow'.tx = flow.tx /\ flow'.input = flow.input
      /\ flow'.in = flow.in /\ flow'.out = flow.out /\ flow'.pending = flow.pending /\ flow'.eof = flow.eof /\ flow'.wrote = flow.wrote
      /\ flow'.rx = (IF p = "data" THEN flow.rx + 1 ELSE flow.rx)
      /\ flow'.socket = (IF p = "syn" THEN flow.socket ELSE Accepted(flow.socket, p))
  <2>1. CASE p = "syn"
    BY <1>1, <2>1, Zenon DEF Receive
  <2>2. CASE p # "syn"
    <3>1. flow' = [flow EXCEPT !.socket = Accepted(flow.socket, p), !.rx = IF p = "data" THEN flow.rx + 1 ELSE flow.rx]
      BY <2>2, Zenon DEF Receive
    <3>2. Accepted(flow.socket, p) \in {"syn", "open", "closeWait", "finWait", "lastAck", "closed"}
      BY <1>1, <1>3, AcceptedSocket, Zenon DEF Flow
    <3>3. (IF p = "data" THEN flow.rx + 1 ELSE flow.rx) \in Nat
      BY <1>1 DEF Flow
    <3> QED BY <1>1, <2>2, <3>1, <3>2, <3>3, Zenon DEF Flow
  <2> QED BY <2>1, <2>2, Zenon
<1> HIDE DEF p
<1>5. /\ flow.socket = "closed" => flow'.socket = "closed"
      /\ flow'.socket = "closeWait" => flow.socket = "closeWait" \/ p = "fin"
      /\ flow'.socket = "lastAck" => flow.socket = "lastAck"
      /\ flow'.socket = "finWait" => flow.socket = "finWait"
      /\ flow.socket \in {"closeWait", "lastAck"} => flow'.socket \in {flow.socket, "closed"}
  BY <1>1, <1>3, <1>4, AcceptedSocket DEF Flow
<1>6. flow' # NoFlow
  BY <1>4 DEF Flow, NoFlow
<1>7. (Mine' <=> Mine) /\ (Flowing' => Flowing) /\ (\A c : Running(c)' <=> Running(c))
  BY <1>1, <1>4, <1>5, <1>6, Zenon DEF Mine, Flowing, Running
<1>8. TcpTypeOK'
  BY <1>1, <1>2, <1>4, Zenon DEF TcpTypeOK
<1>9. PlacesOK'
  <2>1. \A i \in DOMAIN wire' : wire'[i] = "syn" => i = Len(wire') /\ client'.state = "syn" /\ ~Mine'
    BY <1>1, <1>2, <1>7 DEF PlacesOK
  <2> QED BY <1>1, <1>4, <1>6, <1>7, <2>1, Zenon DEF PlacesOK
<1>10. FinOK'
  <2>1. Mine => \A i \in DOMAIN wire' : wire'[i] = "fin" => Sent /\ \A j \in DOMAIN wire' : i < j => wire'[j] # "data"
    BY <1>2 DEF FinOK
  <2>2. ASSUME Mine, flow'.socket \in {"closeWait", "lastAck"} PROVE Sent /\ \A i \in DOMAIN wire' : wire'[i] # "data"
    <3>1. CASE flow.socket \in {"closeWait", "lastAck"}
      BY <1>2, <2>2, <3>1, Zenon DEF FinOK
    <3>2. CASE p = "fin"
      <4>1. 1 \in DOMAIN wire /\ wire[1] = "fin"
        BY <1>2, <3>2
      <4>2. Sent /\ \A j \in DOMAIN wire : 1 < j => wire[j] # "data"
        BY <2>2, <4>1, Zenon DEF FinOK
      <4>3. \A i \in DOMAIN wire' : 1 < i + 1
        BY <1>2
      <4> QED BY <1>2, <4>2, <4>3, Zenon
    <3> QED BY <1>5, <2>2, <3>1, <3>2, Zenon
  <2>3. ASSUME Mine, Flowing', ~flow'.input PROVE flow'.socket \in {"closeWait", "lastAck"} /\ flow'.rx = 0
    <3>1. flow.socket \in {"closeWait", "lastAck"} /\ flow.rx = 0
      BY <1>4, <1>7, <2>3, Zenon DEF FinOK
    <3>2. p # "data"
      BY <1>2, <2>3, <3>1 DEF FinOK
    <3> QED BY <1>4, <1>5, <2>3, <3>1, <3>2, Zenon DEF Flowing
  <2>4. Sent' <=> Sent
    BY <1>1, Zenon DEF Sent
  <2> QED BY <1>7, <2>1, <2>2, <2>3, <2>4, Zenon DEF FinOK
<1>11. UploadOK'
  <2>1. ASSUME Flowing, Mine, Running(flow.connection)
        PROVE client'.sent = Unread' + flow'.rx + Total(flow'.in) + tasks'[flow'.connection].reading + tasks'[flow'.connection].read
    <3>1. tasks[flow.connection] \in Task
      BY <2>1, Zenon DEF TcpTypeOK, Running
    <3>2. /\ flow.rx \in Nat /\ Total(flow.in) \in Nat
          /\ tasks[flow.connection].reading \in Nat /\ tasks[flow.connection].read \in Nat
      BY <1>1, <3>1, BytesFinite, Zenon DEF Flow, Task
    <3>3. client.sent = Unread + flow.rx + Total(flow.in) + tasks[flow.connection].reading + tasks[flow.connection].read
      BY <2>1, Zenon DEF UploadOK
    <3>4. CASE p = "data"
      <4>1. Unread = Unread' + 1 /\ flow'.rx = flow.rx + 1
        BY <1>3, <1>4, <3>4, Zenon
      <4>2. (Unread' + 1) + flow.rx + Total(flow.in) + tasks[flow.connection].reading + tasks[flow.connection].read
              = Unread' + (flow.rx + 1) + Total(flow.in) + tasks[flow.connection].reading + tasks[flow.connection].read
        BY <1>3, <3>2, ArriveSum
      <4> QED BY <1>1, <1>4, <3>3, <4>1, <4>2, Zenon
    <3>5. CASE p # "data"
      <4>1. Unread = Unread' /\ flow'.rx = flow.rx
        BY <1>1, <1>4, <3>5, NoDataTaken, Zenon DEF Unread, p
      <4> QED BY <1>1, <1>4, <3>3, <4>1, Zenon
    <3> QED BY <3>4, <3>5, Zenon
  <2>2. \A c \in DOMAIN tasks' : tasks'[c].eof /\ Mine' /\ Flowing' /\ flow'.connection = c =>
          Sent' /\ ~flow'.input /\ tasks'[c].reading = 0 /\ flow'.in = <<>> /\ tasks'[c].read = client'.sent
    BY <1>1, <1>4, <1>7, Zenon DEF UploadOK, Sent
  <2>3. Running(flow.connection)' <=> Running(flow.connection)
    BY <1>1, <1>4, Zenon DEF Running
  <2> QED BY <1>7, <2>1, <2>2, <2>3, Zenon DEF UploadOK
<1>12. DownloadOK'
  BY <1>1, <1>4, <1>5, <1>6, <1>7, Zenon DEF DownloadOK, Disconnected
<1> QED BY <1>8, <1>9, <1>10, <1>11, <1>12, Zenon

LEMMA ReceiveKeeps == ASSUME TcpInv, Receive PROVE TcpInv'
<1>1. CASE flow # NoFlow
  BY <1>1, PacketKeeps, Zenon
<1>2. CASE flow = NoFlow /\ Head(wire) = "syn" /\ flow' # flow
  BY <1>2, AdmitKeeps, Zenon DEF Receive, Admit
<1>3. CASE flow = NoFlow /\ flow' = flow
  <2>1. /\ wire \in Seq(Packet) /\ wire # <<>> /\ client' = client /\ phase' = "join" /\ wire' = Tail(wire) /\ flow' = NoFlow
        /\ tasks' = tasks
    BY <1>3, Zenon DEF Receive, TcpInv, TcpTypeOK, Admit, NewFlow, NoFlow
  <2>2. /\ wire' \in Seq(Packet) /\ Len(wire') = Len(wire) - 1 /\ Len(wire) \in Nat \ {0} /\ DOMAIN wire' = 1..(Len(wire) - 1)
        /\ \A i \in DOMAIN wire' : wire'[i] = wire[i + 1] /\ i + 1 \in DOMAIN wire
    BY <2>1, WireTail
  <2>3. TcpTypeOK'
    BY <2>1, <2>2, Zenon DEF TcpInv, TcpTypeOK
  <2>4. ~Mine /\ ~Mine' /\ ~Flowing' /\ \A c : Running(c)' <=> Running(c)
    BY <1>3, <2>1, Zenon DEF Mine, Flowing, Running
  <2>5. PlacesOK'
    BY <1>3, <2>1, <2>2, <2>4 DEF TcpInv, PlacesOK
  <2>6. FinOK' /\ UploadOK' /\ DownloadOK'
    BY <2>1, <2>4, Zenon DEF FinOK, UploadOK, DownloadOK
  <2> QED BY <2>3, <2>5, <2>6, Zenon DEF TcpInv
<1> QED BY <1>1, <1>2, <1>3, Zenon DEF Receive

LEMMA WakeKeeps == ASSUME TcpInv, Wake PROVE TcpInv'
<1>1. client' = client /\ wire' = wire /\ flow' = flow /\ tasks' = tasks /\ phase' = "join" /\ phase = "select"
  BY Zenon DEF Wake
<1>2. Unread' = Unread /\ (Mine' <=> Mine) /\ (Flowing' <=> Flowing) /\ (Sent' <=> Sent) /\ (\A c : Running(c)' <=> Running(c))
      /\ (Disconnected' <=> Disconnected)
  BY <1>1, Zenon DEF Unread, Mine, Flowing, Sent, Running, Disconnected
<1>3. TcpTypeOK' /\ PlacesOK'
  BY <1>1, <1>2, Zenon DEF TcpInv, TcpTypeOK, PlacesOK
<1>4. FinOK' /\ DownloadOK'
  BY <1>1, <1>2 DEF TcpInv, FinOK, DownloadOK
<1>5. UploadOK'
  BY <1>1, <1>2, Zenon DEF TcpInv, UploadOK
<1> QED BY <1>3, <1>4, <1>5, Zenon DEF TcpInv

\* An aborted socket drops what it holds; nothing is claimed of its bytes any
\* more, and what the client has got is what it was.
LEMMA AbortKeeps ==
    ASSUME TcpInv, flow # NoFlow, flow' = [flow EXCEPT !.socket = "closed"], client' = client, wire' = wire,
           DOMAIN tasks' \subseteq DOMAIN tasks, tasks' = [c \in DOMAIN tasks' |-> tasks[c]],
           phase' \in {"select", "join", "recv", "send", "retire"}
    PROVE TcpInv'
<1> USE DEF TcpInv
<1>1. flow \in Flow
  BY Zenon DEF TcpTypeOK
<1>2. /\ flow' \in Flow /\ flow'.socket = "closed" /\ flow'.connection = flow.connection
      /\ flow'.rx = flow.rx /\ flow'.tx = flow.tx /\ flow'.input = flow.input /\ flow'.in = flow.in /\ flow'.out = flow.out
      /\ flow'.pending = flow.pending /\ flow'.eof = flow.eof /\ flow'.wrote = flow.wrote
  BY <1>1, Zenon DEF Flow
<1>3. flow' # NoFlow
  BY <1>2, Zenon DEF NoFlow, Flow
<1>4. \A c \in DOMAIN tasks' : tasks'[c] = tasks[c]
  BY Zenon
<1>5. TcpTypeOK'
  <2>1. tasks' \in [DOMAIN tasks' -> Task] /\ DOMAIN tasks' \in SUBSET Nat
    BY <1>4, Zenon DEF TcpTypeOK
  <2> QED BY <1>2, <2>1, Zenon DEF TcpTypeOK
<1>6. (Mine' <=> Mine) /\ ~Flowing' /\ (\A c : Running(c)' => Running(c))
  BY <1>2, <1>3, <1>4, Zenon DEF Mine, Flowing, Running
<1>7. PlacesOK'
  <2>1. \A c \in DOMAIN tasks' : Running(c)' => flow' # NoFlow /\ flow'.connection = c
    BY <1>2, <1>3, <1>6, Zenon DEF PlacesOK
  <2>2. flow' # NoFlow => flow'.connection <= client'.connection
    BY <1>2, Zenon DEF PlacesOK
  <2> QED BY <1>3, <1>6, <2>1, <2>2, Zenon DEF PlacesOK
<1>8. FinOK'
  BY <1>2, <1>6 DEF FinOK, Sent
<1>9. UploadOK'
  BY <1>6, Zenon DEF UploadOK
<1>10. Disconnected => Disconnected'
  BY <1>2, <1>4 DEF Disconnected, Running
<1>11. DownloadOK'
  BY <1>2, <1>3, <1>6, <1>10, Zenon DEF DownloadOK
<1> QED BY <1>5, <1>7, <1>8, <1>9, <1>11, Zenon

LEMMA MemoryCriticalKeeps == ASSUME TcpInv, MemoryCritical PROVE TcpInv'
<1>1. flow # NoFlow /\ flow' = [flow EXCEPT !.socket = "closed"] /\ client' = client /\ wire' = wire /\ phase' = "join"
  BY Zenon DEF MemoryCritical, Aborted
<1>2. tasks' = tasks \/ tasks' = Without(flow.connection)
  BY Zenon DEF MemoryCritical
<1>3. DOMAIN tasks' \subseteq DOMAIN tasks /\ tasks' = [c \in DOMAIN tasks' |-> tasks[c]]
  <2>1. tasks = [c \in DOMAIN tasks |-> tasks[c]]
    BY Zenon DEF TcpInv, TcpTypeOK
  <2> QED BY <1>2, <2>1, Zenon DEF Without
<1> QED BY <1>1, <1>3, AbortKeeps, Zenon

\* Joining forgets sessions that ended and changes no running one.
LEMMA JoinKeeps == ASSUME TcpInv, Join PROVE TcpInv'
<1>1. client' = client /\ wire' = wire /\ phase' = (IF flow = NoFlow THEN "select" ELSE "recv")
  BY Zenon DEF Join
<1>2. /\ DOMAIN tasks' = DOMAIN tasks \ Ended /\ \A c \in DOMAIN tasks' : tasks'[c] = tasks[c]
      /\ tasks' = [c \in DOMAIN tasks' |-> tasks[c]]
  BY Zenon DEF Join
<1>3. CASE flow # NoFlow /\ Failed # {}
  <2>1. flow' = [flow EXCEPT !.socket = "closed"]
    BY <1>3, Zenon DEF Join, Aborted
  <2> QED BY <1>1, <1>2, <1>3, <2>1, AbortKeeps, Zenon
<1>4. CASE flow = NoFlow \/ Failed = {}
  <2>1. flow' = flow
    BY <1>4, Zenon DEF Join, Aborted
  <2>2. TcpTypeOK'
    <3>1. tasks' \in [DOMAIN tasks' -> Task] /\ DOMAIN tasks' \in SUBSET Nat
      BY <1>2, Zenon DEF TcpInv, TcpTypeOK
    <3> QED BY <1>1, <2>1, <3>1, Zenon DEF TcpInv, TcpTypeOK
  <2>3. (Mine' <=> Mine) /\ (Flowing' <=> Flowing) /\ (\A c : Running(c)' <=> Running(c)) /\ Unread' = Unread
    BY <1>1, <1>2, <2>1, Zenon DEF Mine, Flowing, Running, Unread, Ended
  <2>4. PlacesOK'
    BY <1>1, <1>2, <2>1, <2>3, Zenon DEF TcpInv, PlacesOK
  <2>5. FinOK'
    BY <1>1, <2>1, <2>3 DEF TcpInv, FinOK, Sent
  <2>6. UploadOK'
    <3>1. Running(flow.connection)' => flow.connection \in DOMAIN tasks'
      BY <2>1, Zenon DEF Running
    <3> QED BY <1>1, <1>2, <2>1, <2>3, <3>1 DEF TcpInv, UploadOK, Sent
  <2>7. Disconnected' <=> Disconnected
    BY <1>2, <2>1, <2>3, Zenon DEF Disconnected, Running, Ended
  <2>8. DownloadOK'
    BY <1>1, <2>1, <2>3, <2>7, Zenon DEF TcpInv, DownloadOK
  <2> QED BY <2>2, <2>4, <2>5, <2>6, <2>8, Zenon DEF TcpInv
<1> QED BY <1>3, <1>4, Zenon

LEMMA ReceiveChunkKeeps == ASSUME TcpInv, ReceiveChunk PROVE TcpInv'
<1> USE DEF TcpInv
<1>1. /\ flow # NoFlow /\ flow \in Flow /\ client' = client /\ wire' = wire /\ tasks' = tasks /\ phase' = phase
      /\ flow.input /\ flow.rx > 0 /\ Running(flow.connection)
  BY Zenon DEF ReceiveChunk, PlacesOK, TcpTypeOK
<1>2. flow.rx \in Nat /\ flow.in \in Seq(Nat) /\ Total(flow.in) \in Nat
  BY <1>1, BytesFinite, Zenon DEF Flow
<1>3. Taken \in Nat /\ flow.rx - Taken \in Nat
  BY <1>2, SizeAssumption DEF Taken, Least2
<1>4. /\ flow' \in Flow /\ flow'.connection = flow.connection /\ flow'.socket = flow.socket
      /\ flow'.rx = flow.rx - Taken /\ flow'.in = Append(flow.in, Taken)
      /\ flow'.tx = flow.tx /\ flow'.input = flow.input /\ flow'.out = flow.out
      /\ flow'.pending = flow.pending /\ flow'.eof = flow.eof /\ flow'.wrote = flow.wrote
  <2>1. Append(flow.in, Taken) \in Seq(Nat)
    BY <1>2, <1>3
  <2> QED BY <1>1, <1>3, <2>1, Zenon DEF ReceiveChunk, Flow
<1>5. flow' # NoFlow
  BY <1>4 DEF Flow, NoFlow
<1>6. TcpTypeOK'
  BY <1>1, <1>4, Zenon DEF TcpTypeOK
<1>7. (Mine' <=> Mine) /\ (Flowing' <=> Flowing) /\ (\A c : Running(c)' <=> Running(c)) /\ Unread' = Unread
  BY <1>1, <1>4, <1>5, Zenon DEF Mine, Flowing, Running, Unread
<1>8. PlacesOK' /\ FinOK'
  BY <1>1, <1>4, <1>5, <1>7 DEF PlacesOK, FinOK, Sent
<1>9. UploadOK'
  <2> DEFINE t == tasks[flow.connection]
  <2>1. t \in Task
    BY <1>1, Zenon DEF TcpTypeOK, Running
  <2>2. Unread \in Nat /\ t.reading \in Nat /\ t.read \in Nat
    BY <2>1, DataFinite, Zenon DEF Task, TcpTypeOK, Unread
  <2>3. Flowing /\ Mine => client.sent = Unread + flow.rx + Total(flow.in) + t.reading + t.read
    BY <1>1, Zenon DEF UploadOK
  <2>4. Unread + flow.rx + Total(flow.in) + t.reading + t.read
          = Unread + (flow.rx - Taken) + (Total(flow.in) + Taken) + t.reading + t.read
    BY <1>2, <1>3, <2>2, ReceiveSum
  <2>5. Total(flow'.in) = Total(flow.in) + Taken
    BY <1>2, <1>3, <1>4, TotalAppend, Zenon
  <2>6. Flowing /\ Mine =>
          client'.sent = Unread' + flow'.rx + Total(flow'.in) + tasks'[flow'.connection].reading + tasks'[flow'.connection].read
    BY <1>1, <1>4, <1>7, <2>3, <2>4, <2>5, Zenon
  <2>7. \A c \in DOMAIN tasks : ~(tasks[c].eof /\ Mine /\ Flowing /\ flow.connection = c)
    BY <1>1, Zenon DEF UploadOK
  <2> QED BY <1>1, <1>4, <1>7, <2>6, <2>7, Zenon DEF UploadOK
<1>10. DownloadOK'
  BY <1>1, <1>4, <1>5, <1>7, Zenon DEF DownloadOK, Disconnected
<1> QED BY <1>6, <1>8, <1>9, <1>10, Zenon

LEMMA ReceiveAbortsKeeps == ASSUME TcpInv, ReceiveAborts PROVE TcpInv'
<1>1. flow # NoFlow
  BY Zenon DEF ReceiveAborts, TcpInv, PlacesOK
<1>2. flow' = [flow EXCEPT !.socket = "closed"] /\ client' = client /\ wire' = wire /\ tasks' = tasks /\ phase' = "send"
  BY <1>1, Zenon DEF ReceiveAborts, Aborted
<1>3. DOMAIN tasks' \subseteq DOMAIN tasks /\ tasks' = [c \in DOMAIN tasks' |-> tasks[c]]
  BY <1>2, Zenon DEF TcpInv, TcpTypeOK
<1> QED BY <1>1, <1>2, <1>3, AbortKeeps, Zenon

\* The input ends only when the socket can receive no more and is empty.
LEMMA ReceiveDoneKeeps == ASSUME TcpInv, ReceiveDone PROVE TcpInv'
<1> USE DEF TcpInv
<1>1. flow # NoFlow /\ flow \in Flow /\ client' = client /\ wire' = wire /\ tasks' = tasks /\ phase' = "send"
  BY Zenon DEF ReceiveDone, PlacesOK, TcpTypeOK
<1>2. /\ flow' \in Flow /\ flow'.connection = flow.connection /\ flow'.socket = flow.socket
      /\ flow'.rx = flow.rx /\ flow'.in = flow.in /\ flow'.tx = flow.tx /\ flow'.out = flow.out
      /\ flow'.pending = flow.pending /\ flow'.eof = flow.eof /\ flow'.wrote = flow.wrote
      /\ (flow'.input <=> flow.input /\ ~InputOver)
  <2>1. flow' = [flow EXCEPT !.input = flow.input /\ ~InputOver] /\ (flow.input /\ ~InputOver) \in BOOLEAN
    BY Zenon DEF ReceiveDone
  <2> QED BY <1>1, <2>1, Zenon DEF Flow
<1>3. flow' # NoFlow
  BY <1>2 DEF Flow, NoFlow
<1>4. TcpTypeOK'
  BY <1>1, <1>2, Zenon DEF TcpTypeOK
<1>5. (Mine' <=> Mine) /\ (Flowing' <=> Flowing) /\ (\A c : Running(c)' <=> Running(c)) /\ Unread' = Unread /\ (Sent' <=> Sent)
  BY <1>1, <1>2, <1>3, Zenon DEF Mine, Flowing, Running, Unread, Sent
<1>6. PlacesOK'
  BY <1>1, <1>2, <1>3, <1>5, Zenon DEF PlacesOK
<1>7. FinOK'
  <2>1. ASSUME Mine, Flowing, ~flow'.input PROVE flow'.socket \in {"closeWait", "lastAck"} /\ flow'.rx = 0
    <3>1. CASE ~flow.input
      BY <1>2, <2>1, <3>1, Zenon DEF FinOK
    <3>2. CASE InputOver
      <4>1. flow.socket \notin {"open", "finWait", "syn", "closed"} /\ ~(flow.rx > 0)
        BY <2>1, <3>2, Zenon DEF InputOver, MayReceive, Flowing
      <4> QED BY <1>1, <1>2, <4>1 DEF Flow
    <3> QED BY <1>2, <2>1, <3>1, <3>2, Zenon
  <2> QED BY <1>1, <1>2, <1>5, <2>1 DEF FinOK
<1>8. UploadOK'
  BY <1>1, <1>2, <1>5, Zenon DEF UploadOK
<1>9. DownloadOK'
  BY <1>1, <1>2, <1>3, <1>5, Zenon DEF DownloadOK, Disconnected
<1> QED BY <1>4, <1>6, <1>7, <1>8, <1>9, Zenon

\* What a step of the output side keeps when the sum of its places is kept.
LEMMA OutputKeeps ==
    ASSUME TcpInv, flow # NoFlow, flow' \in Flow, flow'.connection = flow.connection, flow'.socket = flow.socket,
           flow'.rx = flow.rx, flow'.input = flow.input, flow'.in = flow.in, flow'.wrote = flow.wrote,
           client' = client, wire' = wire, tasks' = tasks, phase' = phase,
           Total(flow.out) + flow.pending + flow.tx + client.got = Total(flow'.out) + flow'.pending + flow'.tx + client.got,
           flow.eof => flow'.eof, flow'.eof => flow'.out = <<>> /\ flow'.pending = 0 /\ Disconnected
    PROVE TcpInv'
<1> USE DEF TcpInv
<1>1. flow' # NoFlow
  BY DEF Flow, NoFlow
<1>2. TcpTypeOK'
  BY Zenon DEF TcpTypeOK
<1>3. (Mine' <=> Mine) /\ (Flowing' <=> Flowing) /\ (\A c : Running(c)' <=> Running(c)) /\ Unread' = Unread /\ (Sent' <=> Sent)
  BY <1>1, Zenon DEF Mine, Flowing, Running, Unread, Sent
<1>4. PlacesOK' /\ FinOK'
  BY <1>1, <1>3 DEF PlacesOK, FinOK
<1>5. UploadOK'
  BY <1>3, Zenon DEF UploadOK
<1>6. Disconnected' <=> Disconnected
  BY Zenon DEF Disconnected, Running
<1>7. Flowing' /\ Mine' => flow'.wrote = Total(flow'.out) + flow'.pending + flow'.tx + client'.got
  BY <1>3, Zenon DEF DownloadOK
<1>8. DownloadOK'
  BY <1>1, <1>3, <1>6, <1>7, Zenon DEF DownloadOK
<1> QED BY <1>2, <1>4, <1>5, <1>8, Zenon

LEMMA SendChunkKeeps == ASSUME TcpInv, SendChunk PROVE TcpInv'
<1>1. /\ flow # NoFlow /\ flow \in Flow /\ client' = client /\ wire' = wire /\ tasks' = tasks /\ phase' = phase
      /\ CanSend
  BY Zenon DEF SendChunk, TcpInv, PlacesOK, TcpTypeOK
<1>2. flow.out \in Seq(Nat) /\ flow.pending \in Nat /\ flow.tx \in Nat /\ client.got \in Nat /\ Total(flow.out) \in Nat
  BY <1>1, BytesFinite, Zenon DEF Flow, TcpInv, TcpTypeOK, Client
<1>3. flow.eof => flow.pending = 0 /\ flow.out = <<>>
  BY <1>1, Zenon DEF TcpInv, DownloadOK
<1> DEFINE n == Least2(flow.pending, Buffer - flow.tx)
<1>4. CASE flow.pending > 0 /\ flow' = [flow EXCEPT !.tx = flow.tx + n, !.pending = flow.pending - n]
  <2>1. n \in Nat /\ n <= flow.pending
    BY <1>1, <1>2, SizeAssumption DEF CanSend, Least2
  <2> HIDE DEF n
  <2>2. flow.tx + n \in Nat /\ flow.pending - n \in Nat
    BY <1>2, <2>1
  <2>3. /\ flow' \in Flow /\ flow'.connection = flow.connection /\ flow'.socket = flow.socket
        /\ flow'.rx = flow.rx /\ flow'.input = flow.input /\ flow'.in = flow.in /\ flow'.wrote = flow.wrote
        /\ flow'.out = flow.out /\ flow'.pending = flow.pending - n /\ flow'.tx = flow.tx + n /\ flow'.eof = flow.eof
    BY <1>1, <1>4, <2>2, Zenon DEF Flow
  <2>4. Total(flow.out) + flow.pending + flow.tx + client.got = Total(flow.out) + (flow.pending - n) + (flow.tx + n) + client.got
    BY <1>2, <2>1, SendSum
  <2>5. ~flow.eof
    BY <1>2, <1>3, <1>4
  <2> QED BY <1>1, <2>3, <2>4, <2>5, OutputKeeps, Zenon
<1>5. CASE flow.pending = 0 /\ ~flow.eof /\ flow.out # <<>> /\ flow' = [flow EXCEPT !.pending = Head(flow.out), !.out = Tail(flow.out)]
  <2>1. Head(flow.out) \in Nat /\ Tail(flow.out) \in Seq(Nat) /\ Total(flow.out) = Head(flow.out) + Total(Tail(flow.out))
    BY <1>2, <1>5, TotalTail, Zenon
  <2>2. Total(Tail(flow.out)) \in Nat
    BY <2>1, BytesFinite, Zenon
  <2>3. /\ flow' \in Flow /\ flow'.connection = flow.connection /\ flow'.socket = flow.socket
        /\ flow'.rx = flow.rx /\ flow'.input = flow.input /\ flow'.in = flow.in /\ flow'.wrote = flow.wrote
        /\ flow'.out = Tail(flow.out) /\ flow'.pending = Head(flow.out) /\ flow'.tx = flow.tx /\ flow'.eof = flow.eof
    BY <1>1, <1>5, <2>1, Zenon DEF Flow
  <2>4. (Head(flow.out) + Total(Tail(flow.out))) + 0 + flow.tx + client.got = Total(Tail(flow.out)) + Head(flow.out) + flow.tx + client.got
    BY <1>2, <2>1, <2>2, SendSum
  <2>5. Total(flow.out) + flow.pending + flow.tx + client.got = Total(flow'.out) + flow'.pending + flow'.tx + client.got
    BY <1>5, <2>1, <2>3, <2>4, Zenon
  <2> QED BY <1>1, <1>5, <2>3, <2>5, OutputKeeps, Zenon
<1>6. CASE flow.pending = 0 /\ flow.out = <<>> /\ Disconnected /\ flow' = [flow EXCEPT !.eof = TRUE]
  <2>1. /\ flow' \in Flow /\ flow'.connection = flow.connection /\ flow'.socket = flow.socket
        /\ flow'.rx = flow.rx /\ flow'.input = flow.input /\ flow'.in = flow.in /\ flow'.wrote = flow.wrote
        /\ flow'.out = flow.out /\ flow'.pending = flow.pending /\ flow'.tx = flow.tx /\ flow'.eof
    BY <1>1, <1>6, Zenon DEF Flow
  <2> QED BY <1>1, <1>6, <2>1, OutputKeeps, Zenon
<1> QED BY <1>4, <1>5, <1>6, Zenon DEF SendChunk, Left

\* The socket is closed only after the last byte was handed to it.
LEMMA SendDoneKeeps == ASSUME TcpInv, SendDone PROVE TcpInv'
<1> USE DEF TcpInv
<1>1. flow # NoFlow /\ flow \in Flow /\ client' = client /\ wire' = wire /\ tasks' = tasks /\ phase' = "retire"
  BY Zenon DEF SendDone, PlacesOK, TcpTypeOK
<1>2. /\ flow' \in Flow /\ flow'.connection = flow.connection /\ flow'.input = flow.input
      /\ flow'.rx = flow.rx /\ flow'.in = flow.in /\ flow'.tx = flow.tx /\ flow'.out = flow.out
      /\ flow'.pending = flow.pending /\ flow'.eof = flow.eof /\ flow'.wrote = flow.wrote
      /\ \/ flow'.socket = flow.socket
         \/ flow.socket = "open" /\ flow'.socket = "finWait" /\ flow.eof
         \/ flow.socket = "closeWait" /\ flow'.socket = "lastAck" /\ flow.eof
  <2>1. CASE ~(CanSend /\ CloseNow)
    BY <1>1, <2>1, Zenon DEF SendDone, Flow
  <2>2. CASE CanSend /\ CloseNow
    BY <1>1, <2>2, Zenon DEF SendDone, Flow, CanSend, CloseNow
  <2> QED BY <2>1, <2>2, Zenon
<1>3. flow' # NoFlow
  BY <1>2 DEF Flow, NoFlow
<1>4. TcpTypeOK'
  BY <1>1, <1>2, Zenon DEF TcpTypeOK
<1>5. (Mine' <=> Mine) /\ (Flowing' <=> Flowing) /\ (\A c : Running(c)' <=> Running(c)) /\ Unread' = Unread /\ (Sent' <=> Sent)
  BY <1>1, <1>2, <1>3, Zenon DEF Mine, Flowing, Running, Unread, Sent
<1>6. PlacesOK' /\ FinOK'
  BY <1>1, <1>2, <1>3, <1>5 DEF PlacesOK, FinOK
<1>7. UploadOK'
  BY <1>1, <1>2, <1>5, Zenon DEF UploadOK
<1>8. Disconnected' <=> Disconnected
  BY <1>1, <1>2, Zenon DEF Disconnected, Running
<1>9. DownloadOK'
  BY <1>1, <1>2, <1>3, <1>5, <1>8, Zenon DEF DownloadOK
<1> QED BY <1>4, <1>6, <1>7, <1>9, Zenon

LEMMA RetireKeeps == ASSUME TcpInv, Retire PROVE TcpInv'
<1> USE DEF TcpInv
<1>1. flow # NoFlow /\ client' = client /\ wire' = wire /\ phase' = "select"
  BY Zenon DEF Retire, PlacesOK
<1>2. CASE flow.socket # "closed"
  <2>1. flow' = flow /\ tasks' = tasks
    BY <1>2, Zenon DEF Retire
  <2>2. Unread' = Unread /\ (Mine' <=> Mine) /\ (Flowing' <=> Flowing) /\ (Sent' <=> Sent) /\ (\A c : Running(c)' <=> Running(c))
        /\ (Disconnected' <=> Disconnected)
    BY <1>1, <2>1, Zenon DEF Unread, Mine, Flowing, Sent, Running, Disconnected
  <2>3. TcpTypeOK' /\ PlacesOK'
    BY <1>1, <2>1, <2>2, Zenon DEF TcpTypeOK, PlacesOK
  <2>4. FinOK' /\ DownloadOK'
    BY <1>1, <2>1, <2>2 DEF FinOK, DownloadOK
  <2>5. UploadOK'
    BY <1>1, <2>1, <2>2, Zenon DEF UploadOK
  <2> QED BY <2>3, <2>4, <2>5, Zenon
<1>3. CASE flow.socket = "closed"
  <2>1. flow' = NoFlow /\ (tasks' = IF Running(flow.connection) THEN Without(flow.connection) ELSE tasks)
    BY <1>3, Zenon DEF Retire
  <2>2. /\ DOMAIN tasks' \subseteq DOMAIN tasks /\ tasks' \in [DOMAIN tasks' -> Task] /\ \A c \in DOMAIN tasks' : tasks'[c] = tasks[c]
        /\ Running(flow.connection) => flow.connection \notin DOMAIN tasks'
    BY <2>1, Zenon DEF Without, TcpTypeOK
  <2>3. TcpTypeOK'
    BY <1>1, <2>1, <2>2, Zenon DEF TcpTypeOK
  <2>4. ~Mine' /\ ~Flowing'
    BY <2>1, Zenon DEF Mine, Flowing
  <2>5. \A c \in DOMAIN tasks' : ~Running(c)'
    BY <2>2, Zenon DEF PlacesOK, Running
  <2>6. PlacesOK'
    BY <1>1, <2>1, <2>4, <2>5, Zenon DEF PlacesOK
  <2>7. FinOK' /\ UploadOK' /\ DownloadOK'
    BY <2>1, <2>4, Zenon DEF FinOK, UploadOK, DownloadOK
  <2> QED BY <2>3, <2>6, <2>7, Zenon
<1> QED BY <1>2, <1>3, Zenon

-----------------------------------------------------------------------------
LEMMA TcpInvInit == Init => TcpInv
<1> SUFFICES ASSUME Init PROVE TcpInv
  BY Zenon
<1>1. /\ client.state = "none" /\ wire = <<>> /\ DOMAIN wire = {} /\ flow = NoFlow /\ DOMAIN tasks = {} /\ phase = "select"
      /\ client \in Client
  BY DEF Init, Client
<1>2. TcpTypeOK
  <2>1. wire \in Seq(Packet) /\ tasks \in [DOMAIN tasks -> Task]
    BY DEF Init
  <2> QED BY <1>1, <2>1, Zenon DEF TcpTypeOK
<1>3. ~Mine /\ ~Flowing /\ \A c : ~Running(c)
  BY <1>1, Zenon DEF Mine, Flowing, Running
<1> QED BY <1>1, <1>2, <1>3, Zenon DEF TcpInv, PlacesOK, FinOK, UploadOK, DownloadOK

LEMMA TcpInvStep == TcpInv /\ [Next]_vars => TcpInv'
<1> SUFFICES ASSUME TcpInv, [Next]_vars PROVE TcpInv'
  BY Zenon
<1>1. CASE ClientStep
  BY <1>1, ConnectKeeps, ConnectedKeeps, SendDataKeeps, SendFinKeeps, SendResetKeeps, ResetSeenKeeps, Zenon DEF ClientStep
<1>2. CASE DeliverData \/ DeliverFin
  BY <1>2, DeliverDataKeeps, DeliverFinKeeps, Zenon
<1>3. CASE LoopStep
  BY <1>3, ReceiveKeeps, WakeKeeps, MemoryCriticalKeeps, JoinKeeps, ReceiveChunkKeeps, ReceiveAbortsKeeps,
     ReceiveDoneKeeps, SendChunkKeeps, SendDoneKeeps, RetireKeeps, Zenon DEF LoopStep
<1>4. ASSUME NEW c \in DOMAIN tasks, SessionStep(c) PROVE TcpInv'
  BY <1>4, ReadKeeps, WriteKeeps, ReadEofKeeps, ShutdownKeeps, EndKeeps, Zenon DEF SessionStep
<1>5. CASE UNCHANGED vars
  <2>1. client' = client /\ wire' = wire /\ flow' = flow /\ tasks' = tasks /\ phase' = phase
    BY <1>5, Zenon DEF vars
  <2>2. Unread' = Unread /\ (Mine' <=> Mine) /\ (Flowing' <=> Flowing) /\ (Sent' <=> Sent) /\ (\A c : Running(c)' <=> Running(c))
        /\ (Disconnected' <=> Disconnected)
    BY <2>1, Zenon DEF Unread, Mine, Flowing, Sent, Running, Disconnected
  <2>3. TcpTypeOK' /\ PlacesOK'
    BY <2>1, <2>2, Zenon DEF TcpInv, TcpTypeOK, PlacesOK
  <2>4. FinOK' /\ DownloadOK'
    BY <2>1, <2>2 DEF TcpInv, FinOK, DownloadOK
  <2>5. UploadOK'
    BY <2>1, <2>2, Zenon DEF TcpInv, UploadOK
  <2> QED BY <2>3, <2>4, <2>5, Zenon DEF TcpInv
<1> QED BY <1>1, <1>2, <1>3, <1>4, <1>5, Zenon DEF Next

\* Where every byte of a connection is, on both sides of the packet loop, for
\* any number of sessions of the five-tuple (packet.rs, run_packets).
THEOREM TcpInvariant == Spec => []TcpInv
BY TcpInvInit, TcpInvStep, PTL DEF Spec

\* No byte the client sends is lost or read twice on its way through socket,
\* queue and ChannelStream, and the session reads EOF only behind the last one.
THEOREM UploadAlwaysConserved == Spec => []UploadConserved
<1>1. TcpInv => UploadConserved
  <2> SUFFICES ASSUME TcpInv PROVE UploadConserved
    BY Zenon
  <2>1. UploadOK
    BY Zenon DEF TcpInv
  <2> QED BY <2>1, Zenon DEF UploadOK, UploadConserved, Sent
<1> QED BY <1>1, TcpInvariant, PTL

\* No byte the session writes is lost on its way to the client, and the client
\* sees a clean end only behind the last one (the eof flag of the flow).
THEOREM DownloadAlwaysConserved == Spec => []DownloadConserved
<1>1. TcpInv => DownloadConserved
  BY Zenon DEF TcpInv, DownloadOK, DownloadConserved
<1> QED BY <1>1, TcpInvariant, PTL
==============================================================================
