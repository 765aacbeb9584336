--------------------------- MODULE OutboundProofs ---------------------------
(***************************************************************************)
(* For any number of connections, limits and networks: outbound            *)
(* connections use the relays as Relay says, the gRPC pool keeps its       *)
(* limits with exact loads, and a proxy has one Hysteria2 client.          *)
(***************************************************************************)
EXTENDS Outbound, FiniteSetTheorems, WellFoundedInduction, TLAPS

-----------------------------------------------------------------------------
(***************************************************************************)
(* For any number of connections and every limit: the connection table is  *)
(* the set of live relays, and no hosted relay outstays its idle limit.    *)
(***************************************************************************)

RelayRecord ==
    [at : {"new", "checked", "relaying", "done", "expired"}, active : Nat,
     eof : SUBSET Sides, permit : BOOLEAN, wake : Nat]

\* A relay's watcher is told, or wakes before the limit in effect is over.
Watched(r) ==
    /\ r.at # "relaying" => r.eof = {}
    /\ r.active <= now
    /\ r.at = "relaying" => r.permit \/ r.wake <= r.active + LimitOf(r)
    /\ Hosted /\ r.at = "relaying" => r.permit \/ Quiet(r) <= LimitOf(r)

RelayInv ==
    /\ now \in Nat
    /\ relay \in [Conns -> RelayRecord]
    /\ \A c \in Conns : Watched(relay[c])
    /\ TableIsRelays

LEMMA LimitType == ASSUME NEW r PROVE LimitOf(r) \in Nat
BY RelayAssumption, Zenon DEF LimitOf

\* A step that gives one connection the record r, in the table if it relays.
Becomes(c, r) ==
    /\ relay' = [relay EXCEPT ![c] = r]
    /\ table' = IF r.at = "relaying" THEN table \cup {c} ELSE table \ {c}
    /\ now' = now

LEMMA BecomesInv ==
    ASSUME RelayInv, NEW c \in Conns, NEW r \in RelayRecord, Becomes(c, r), Watched(r),
           r.at = "relaying" /\ ~Relaying(c) => Room
    PROVE  RelayInv'
<1>1. /\ relay' \in [Conns -> RelayRecord] /\ relay'[c] = r
      /\ \A d \in Conns : d # c => relay'[d] = relay[d]
  BY Zenon DEF RelayInv, Becomes
<1>2. \A d \in Conns : Watched(relay[d])'
  BY <1>1, Zenon DEF RelayInv, Becomes, Watched, Quiet, LimitOf
<1>3. table' = {d \in Conns : Relaying(d)'}
  BY <1>1, Zenon DEF RelayInv, TableIsRelays, Relaying, Becomes
<1>4. IsFiniteSet(table) /\ Cardinality(table) \in Nat /\ Cardinality(table) <= Limit
  BY FS_CardinalityType, Zenon DEF RelayInv, TableIsRelays
<1>5. IsFiniteSet(table') /\ Cardinality(table') <= Limit
  <2>1. CASE r.at = "relaying"
    <3>1. CASE c \in table
      <4>1. table' = table
        BY <2>1, <3>1, Zenon DEF Becomes
      <4> QED BY <1>4, <4>1, Zenon
    <3>2. CASE c \notin table
      <4>1. table' = table \cup {c} /\ Room
        BY <2>1, <3>2, Zenon DEF Becomes, RelayInv, TableIsRelays
      <4>2. IsFiniteSet(table') /\ Cardinality(table') = Cardinality(table) + 1
        BY <1>4, <3>2, <4>1, FS_AddElement, Zenon
      <4> QED BY <1>4, <4>1, <4>2, RelayAssumption DEF Room
    <3> QED BY <3>1, <3>2, Zenon
  <2>2. CASE r.at # "relaying"
    <3>1. table' \subseteq table
      BY <2>2, Zenon DEF Becomes
    <3>2. IsFiniteSet(table') /\ Cardinality(table') <= Cardinality(table)
      BY <1>4, <3>1, FS_Subset, Zenon
    <3>3. Cardinality(table') \in Nat
      BY <3>2, FS_CardinalityType, Zenon
    <3> QED BY <1>4, <3>2, <3>3, RelayAssumption
  <2> QED BY <2>1, <2>2, Zenon
<1> QED BY <1>1, <1>2, <1>3, <1>5, Zenon DEF RelayInv, TableIsRelays, Becomes

LEMMA RelayFrame == ASSUME RelayInv, UNCHANGED <<relay, table, now>> PROVE RelayInv'
BY Zenon DEF RelayInv, Watched, Quiet, LimitOf, TableIsRelays, Relaying

LEMMA EndInv ==
    ASSUME RelayInv, NEW c \in Conns, NEW outcome \in Ends, End(c, outcome) PROVE RelayInv'
<1> DEFINE r == [NewRelay EXCEPT !.at = outcome]
<1>1. r \in RelayRecord /\ r.at # "relaying" /\ r.eof = {} /\ r.active = 0
  BY Zenon DEF NewRelay, RelayRecord, Ends, Sides
<1> HIDE DEF r
<1>2. Becomes(c, r)
  BY <1>1, Zenon DEF End, Becomes, r
<1>3. Watched(r)
  BY <1>1 DEF Watched, RelayInv
<1> QED BY <1>1, <1>2, <1>3, BecomesInv, Zenon

LEMMA OpenInv == ASSUME RelayInv, NEW c \in Conns, Open(c) PROVE RelayInv'
<1> relay[c] \in RelayRecord /\ Watched(relay[c]) /\ (Relaying(c) <=> c \in table) /\ now \in Nat
  BY Zenon DEF RelayInv, TableIsRelays
<1>1. CASE Check(c)
  <2> DEFINE r == [relay[c] EXCEPT !.at = IF stopped THEN "done" ELSE "checked"]
  <2>1. r \in RelayRecord /\ r.at # "relaying" /\ r.eof = relay[c].eof /\ r.active = relay[c].active
    BY Zenon DEF RelayRecord
  <2>2. relay' = [relay EXCEPT ![c] = r] /\ relay[c].at = "new" /\ table' = table /\ now' = now
    BY <1>1, Zenon DEF Check, RelayInv
  <2> HIDE DEF r
  <2>3. Becomes(c, r) /\ Watched(r)
    BY <2>1, <2>2, Zenon DEF Becomes, Watched, Relaying
  <2> QED BY <2>1, <2>3, BecomesInv, Zenon
<1>2. CASE Enter(c) /\ Room
  <2> DEFINE due == now + Idle
             r == [relay[c] EXCEPT !.at = "relaying", !.active = now, !.wake = due]
  <2>0. due \in Nat /\ relay[c].eof = {}
    BY <1>2, RelayAssumption DEF Enter, Watched
  <2> HIDE DEF due
  <2>1. /\ r \in RelayRecord /\ r.at = "relaying" /\ r.eof = {} /\ r.active = now /\ r.wake = due
    BY <2>0, Zenon DEF RelayRecord
  <2> USE DEF due
  <2>2. relay' = [relay EXCEPT ![c] = r] /\ table' = table \cup {c} /\ now' = now
    BY <1>2, Zenon DEF Enter, RelayInv
  <2> HIDE DEF r
  <2>3. Becomes(c, r) /\ Watched(r)
    BY <2>1, <2>2, RelayAssumption DEF Becomes, Watched, LimitOf, Quiet
  <2> QED BY <1>2, <2>1, <2>3, BecomesInv, Zenon
<1>3. CASE Enter(c) /\ ~Room
  <2> DEFINE r == [relay[c] EXCEPT !.at = "done"]
  <2>1. r \in RelayRecord /\ r.at = "done" /\ r.eof = {} /\ r.active = relay[c].active
    BY <1>3, Zenon DEF RelayRecord, Enter, Watched
  <2>2. relay' = [relay EXCEPT ![c] = r] /\ relay[c].at = "checked" /\ table' = table /\ now' = now
    BY <1>3, Zenon DEF Enter, RelayInv
  <2> HIDE DEF r
  <2>3. Becomes(c, r) /\ Watched(r)
    BY <2>1, <2>2, Zenon DEF Becomes, Watched, Relaying
  <2> QED BY <2>1, <2>3, BecomesInv, Zenon
<1> QED BY <1>1, <1>2, <1>3, Zenon DEF Open, Enter

LEMMA CopyInv == ASSUME RelayInv, NEW c \in Conns, Copy(c) PROVE RelayInv'
<1> relay[c] \in RelayRecord /\ Watched(relay[c]) /\ (Relaying(c) <=> c \in table) /\ now \in Nat
  BY Zenon DEF RelayInv, TableIsRelays
<1>1. CASE Record(c)
  <2> DEFINE r == [relay[c] EXCEPT !.active = now]
  <2>1. /\ r \in RelayRecord /\ r.at = relay[c].at /\ r.eof = relay[c].eof /\ r.active = now
        /\ r.permit = relay[c].permit /\ r.wake = relay[c].wake
    BY Zenon DEF RelayRecord
  <2>2. relay' = [relay EXCEPT ![c] = r] /\ Relaying(c) /\ table' = table /\ now' = now
    BY <1>1, Zenon DEF Record, RelayInv
  <2>3. relay[c].active \in Nat /\ relay[c].wake \in Nat
    BY Zenon DEF RelayRecord
  <2> HIDE DEF r
  <2>4. LimitOf(r) = LimitOf(relay[c]) /\ LimitOf(r) \in Nat
    BY <2>1, LimitType, Zenon DEF LimitOf
  <2>5. Becomes(c, r)
    BY <2>1, <2>2, Zenon DEF Becomes, Relaying
  <2>6. Watched(r)
    BY <2>1, <2>2, <2>3, <2>4 DEF Watched, Relaying, Quiet
  <2> QED BY <2>1, <2>2, <2>5, <2>6, BecomesInv, Zenon
<1>2. ASSUME NEW side \in Sides, Eof(c, side) PROVE RelayInv'
  <2>1. CASE relay[c].eof = {}
    <3> DEFINE r == [relay[c] EXCEPT !.eof = {side}, !.permit = Notified(relay[c])]
    <3>1. Notified(relay[c])
      BY <2>1, Zenon DEF Notified
    <3>2. /\ r \in RelayRecord /\ r.at = relay[c].at /\ r.active = relay[c].active /\ r.permit
      BY <3>1, Zenon DEF RelayRecord
    <3>3. relay' = [relay EXCEPT ![c] = r] /\ Relaying(c) /\ table' = table /\ now' = now
      BY <1>2, <2>1, Zenon DEF Eof, RelayInv
    <3> HIDE DEF r
    <3>4. Becomes(c, r) /\ Watched(r)
      BY <3>2, <3>3, Zenon DEF Becomes, Relaying, Watched
    <3> QED BY <3>2, <3>3, <3>4, BecomesInv, Zenon
  <2>2. CASE relay[c].eof # {}
    BY <1>2, <2>2, EndInv, Zenon DEF Eof, Ends
  <2> QED BY <2>1, <2>2, Zenon
<1>3. CASE Fail(c)
  BY <1>3, EndInv, Zenon DEF Fail, Ends
<1> QED BY <1>1, <1>2, <1>3, Zenon DEF Copy

LEMMA WatchInv == ASSUME RelayInv, NEW c \in Conns, Watch(c) PROVE RelayInv'
<1> relay[c] \in RelayRecord /\ Watched(relay[c]) /\ (Relaying(c) <=> c \in table) /\ now \in Nat
  BY Zenon DEF RelayInv, TableIsRelays
<1>1. CASE Expired(relay[c])
  BY <1>1, EndInv, Zenon DEF Watch, Ends
<1>2. CASE ~Expired(relay[c])
  <2> DEFINE due == relay[c].active + LimitOf(relay[c])
             r == [relay[c] EXCEPT !.permit = FALSE, !.wake = due]
  <2>1. relay[c].active \in Nat /\ LimitOf(relay[c]) \in Nat /\ due \in Nat
    BY LimitType DEF RelayRecord
  <2> HIDE DEF due
  <2>2. /\ r \in RelayRecord /\ r.at = relay[c].at /\ r.active = relay[c].active
        /\ r.eof = relay[c].eof /\ r.wake = due
    BY <2>1, Zenon DEF RelayRecord
  <2> USE DEF due
  <2>3. relay' = [relay EXCEPT ![c] = r] /\ Relaying(c) /\ table' = table /\ now' = now
    BY <1>2, Zenon DEF Watch, Due, RelayInv
  <2> HIDE DEF r
  <2>4. LimitOf(r) = LimitOf(relay[c]) /\ Quiet(r) = Quiet(relay[c])
    BY <2>2, Zenon DEF LimitOf, Quiet
  <2>5. Quiet(r) <= LimitOf(r)
    BY <1>2, <2>1, <2>4 DEF Expired, Quiet
  <2>6. Becomes(c, r)
    BY <2>2, <2>3, Zenon DEF Becomes, Relaying
  <2>7. Watched(r)
    BY <2>1, <2>2, <2>3, <2>4, <2>5 DEF Watched, Relaying
  <2> QED BY <2>2, <2>3, <2>6, <2>7, BecomesInv, Zenon
<1> QED BY <1>1, <1>2, Zenon

\* The clock waits for the watchers that are due, so no limit is passed.
LEMMA TickInv == ASSUME RelayInv, Tick PROVE RelayInv'
<1>1. now' = now + 1 /\ now \in Nat /\ UNCHANGED <<relay, table>>
  BY Zenon DEF Tick, Advance, RelayInv
<1>2. ASSUME NEW c \in Conns PROVE Watched(relay[c])'
  <2>1. Watched(relay[c]) /\ relay[c].active \in Nat /\ relay[c].wake \in Nat /\ LimitOf(relay[c]) \in Nat
    BY LimitType, Zenon DEF RelayInv, RelayRecord
  <2>2. Hosted /\ relay[c].at = "relaying" => ~relay[c].permit /\ now < relay[c].wake
    BY <1>1, <2>1 DEF Tick, Due, Relaying
  <2> QED BY <1>1, <2>1, <2>2 DEF Watched, Quiet, LimitOf
<1>3. TableIsRelays'
  BY <1>1, Zenon DEF RelayInv, TableIsRelays, Relaying
<1> QED BY <1>1, <1>2, <1>3 DEF RelayInv

LEMMA RelayNext == ASSUME RelayInv, [Next]_vars PROVE RelayInv'
<1>1. ASSUME NEW c \in Conns, Open(c) \/ Copy(c) \/ Cancel(c) \/ Watch(c) \/ CancelNext(c)
      PROVE  RelayInv'
  BY <1>1, OpenInv, CopyInv, WatchInv, EndInv, RelayFrame, Zenon DEF Cancel, CancelNext, Ends
<1>2. CASE \E copy \in {table} \cup {{c} : c \in table} : Close(copy)
  BY <1>2, RelayFrame, Zenon DEF Close
<1>3. CASE Stop \/ UNCHANGED vars
  BY <1>3, RelayFrame, Zenon DEF Stop, vars
<1>4. CASE Tick
  BY <1>4, TickInv, Zenon
<1> QED BY <1>1, <1>2, <1>3, <1>4, Zenon DEF Next

LEMMA RelayInitInv == Init => RelayInv
<1> SUFFICES ASSUME Init PROVE RelayInv
  BY Zenon
<1>1. NewRelay \in RelayRecord /\ NewRelay.at = "new" /\ NewRelay.eof = {} /\ NewRelay.active = 0
  BY Zenon DEF NewRelay, RelayRecord
<1>2. now = 0 /\ relay = [c \in Conns |-> NewRelay] /\ table = {}
  BY Zenon DEF Init, ClockInit
<1>3. TableIsRelays
  BY <1>1, <1>2, FS_EmptySet, RelayAssumption DEF TableIsRelays, Relaying
<1> QED BY <1>1, <1>2, <1>3 DEF RelayInv, Watched

\* The connection table is the set of live relays and keeps its limit, on every
\* way relay_io ends.
THEOREM RelayTableIsRelays == Spec => []TableIsRelays
<1>1. RelayInv => TableIsRelays
  BY Zenon DEF RelayInv
<1> QED BY <1>1, RelayInitInv, RelayNext, PTL DEF Spec

\* In a hosted tunnel no relay is quiet past the limit in effect, for every
\* pair of limits and every timing of bytes and EOFs (idle_expired).
THEOREM RelayQuietBounded == Spec => []QuietBounded
<1>1. RelayInv => QuietBounded
  BY Zenon DEF RelayInv, QuietBounded, Watched, Relaying
<1> QED BY <1>1, RelayInitInv, RelayNext, PTL DEF Spec

-----------------------------------------------------------------------------
-----------------------------------------------------------------------------
(* Outbound connections use the relays as Relay says *)

LEMMA OutStep == ASSUME [OutNext]_<<vars, outVars>> PROVE [Next]_vars
<1>1. ASSUME NEW c \in Conns, RelayStep(c) PROVE Next
  BY <1>1, Zenon DEF RelayStep, Next, Open
<1>2. CASE \E c \in Conns : CancelNext(c)
  BY <1>2, Zenon DEF Next
<1>3. CASE Moves \/ Shutdown \/ Tick
  BY <1>3, Zenon DEF Moves, Shutdown, Next
<1> QED BY <1>1, <1>2, <1>3, Zenon DEF OutNext

\* Dials, pools and network changes go through the relays' own operations.
THEOREM OutboundImplementsRelay == OutSpec => Spec
<1>1. OutInit => Init
  BY Zenon DEF OutInit
<1> QED BY <1>1, OutStep, PTL DEF OutSpec, Spec

\* Through every way a dial or a relay ends, the connection table is the set of
\* live relays and keeps its limit.
THEOREM OutboundTableIsRelays == OutSpec => []TableIsRelays
BY OutboundImplementsRelay, RelayTableIsRelays, PTL

\* In a hosted tunnel no relay over a dialed connection is quiet past the limit
\* in effect.
THEOREM OutboundQuietBounded == OutSpec => []QuietBounded
BY OutboundImplementsRelay, RelayQuietBounded, PTL

-----------------------------------------------------------------------------
(* Links and leases *)

DialRecord ==
    [at : {"idle", "dialed", "locked", "joining", "creating", "created", "resolving",
           "handshake", "opening", "again", "open", "done"},
     kind : Kinds \cup {None}, net : Nat, link : Nat \cup {None}, fresh : BOOLEAN]
LinkRecord == [kind : Kinds \cup {None}, net : Nat, alive : BOOLEAN, active : Int]

Count == Cardinality(DOMAIN links)

\* A dial that has no stream yet has no link.
WithLink == {"joining", "created", "opening", "open"}

OutTypes ==
    /\ options \in Options /\ network \in Nat
    /\ dial \in [Conns -> DialRecord]
    /\ holder \in [Kinds -> Conns \cup {None}]
    /\ Count \in Nat /\ DOMAIN links = 1..Count /\ links \in [1..Count -> LinkRecord]
    /\ pool \subseteq DOMAIN links
    /\ slot \in DOMAIN links \cup {None}
    /\ \A c \in Conns : /\ dial[c].link \in DOMAIN links \cup {None}
                        /\ dial[c].at \notin WithLink => dial[c].link = None

\* The dials and relays that hold a stream of connection i.
On(i) == {c \in Conns : Leased(c) /\ dial[c].link = i}
Loads == \A i \in DOMAIN links : links[i].active = Cardinality(On(i))

LEMMA OnFinite == \A i : IsFiniteSet(On(i)) /\ Cardinality(On(i)) \in Nat
<1> TAKE i
<1>1. On(i) \subseteq Conns
  BY Zenon DEF On
<1> QED BY <1>1, FS_Subset, FS_CardinalityType, OutboundAssumption, Zenon

LEMMA OnFinitePrime == \A i : IsFiniteSet(On(i)') /\ Cardinality(On(i)') \in Nat
<1> TAKE i
<1>1. On(i)' \subseteq Conns
  BY Zenon DEF On
<1> QED BY <1>1, FS_Subset, FS_CardinalityType, OutboundAssumption, Zenon

\* The dial of one connection changes.
DialTo(c, d) == dial' = [dial EXCEPT ![c] = d]
Leases(d) == d.kind = "grpc" /\ d.link # None

LEMMA DialIsNow ==
    ASSUME OutTypes, NEW c \in Conns, NEW d \in DialRecord, DialTo(c, d)
    PROVE  /\ dial' \in [Conns -> DialRecord] /\ dial'[c] = d
           /\ \A e \in Conns : e # c => dial'[e] = dial[e]
           /\ Leased(c)' <=> Leases(d)
           /\ \A e \in Conns : e # c => (Leased(e)' <=> Leased(e))
BY Zenon DEF OutTypes, DialTo, Leased, Leases

\* Who holds a stream of which connection, after a dial changed.
LEMMA OnNow ==
    ASSUME OutTypes, NEW c \in Conns, NEW d \in DialRecord, DialTo(c, d), NEW i
    PROVE  On(i)' = IF Leases(d) /\ d.link = i THEN On(i) \cup {c} ELSE On(i) \ {c}
BY DialIsNow DEF On

\* A counter of one link moves.
LEMMA CountedIs ==
    ASSUME OutTypes, NEW i \in DOMAIN links, NEW n \in Int, links' = Counted(i, n)
    PROVE  /\ DOMAIN links' = DOMAIN links /\ links' \in [1..Count -> LinkRecord]
           /\ links'[i].active = links[i].active + n
           /\ \A j \in DOMAIN links : /\ j # i => links'[j].active = links[j].active
                                      /\ links'[j].alive = links[j].alive
                                      /\ links'[j].kind = links[j].kind
<1> DEFINE sum == links[i].active + n
           r == [links[i] EXCEPT !.active = sum]
<1>1. links[i] \in LinkRecord /\ links[i].active \in Int /\ sum \in Int
  BY DEF OutTypes, LinkRecord
<1> HIDE DEF sum
<1>2. r \in LinkRecord /\ r.active = sum /\ r.alive = links[i].alive /\ r.kind = links[i].kind
  BY <1>1, Zenon DEF LinkRecord
<1>3. links' = [links EXCEPT ![i] = r]
  BY Zenon DEF Counted, sum
<1> HIDE DEF r
<1>4. DOMAIN links' = DOMAIN links /\ links'[i] = r /\ \A j \in DOMAIN links : j # i => links'[j] = links[j]
  BY <1>3, Zenon
<1>5. links' \in [1..Count -> LinkRecord]
  BY <1>2, <1>3, Zenon DEF OutTypes
<1> QED BY <1>2, <1>4, <1>5, Zenon DEF sum

\* What holds of the links whatever the step.
LinksKept ==
    \A i \in DOMAIN links :
       links'[i].kind = links[i].kind /\ (links'[i].alive => links[i].alive)

\* A dial takes a lease on link i.
LEMMA LeaseTaken ==
    ASSUME OutTypes, Loads, NEW c \in Conns, NEW d \in DialRecord, DialTo(c, d),
           NEW i \in DOMAIN links, ~Leased(c), Leases(d), d.link = i, links' = Counted(i, 1)
    PROVE  /\ Loads' /\ LinksKept /\ DOMAIN links' = DOMAIN links /\ links' \in [1..Count -> LinkRecord]
           /\ links'[i].active = links[i].active + 1
           /\ \A j \in DOMAIN links : j # i => links'[j].active = links[j].active
<1>1. /\ DOMAIN links' = DOMAIN links /\ links' \in [1..Count -> LinkRecord]
      /\ links'[i].active = links[i].active + 1
      /\ \A j \in DOMAIN links : j # i => links'[j].active = links[j].active
      /\ LinksKept
  BY CountedIs DEF LinksKept
<1>2. \A j : c \notin On(j)
  BY Zenon DEF On
<1>3. On(i)' = On(i) \cup {c}
  BY OnNow, Zenon
<1>4. Cardinality(On(i)') = Cardinality(On(i)) + 1
  BY <1>2, <1>3, OnFinite, FS_AddElement, ZenonT(60)
<1>5. ASSUME NEW j \in DOMAIN links' PROVE links'[j].active = Cardinality(On(j)')
  <2>1. CASE j = i
    BY <1>1, <1>4, <2>1, Zenon DEF Loads
  <2>2. CASE j # i
    <3>1. On(j)' = On(j) \ {c}
      BY <2>2, OnNow, Zenon
    <3>2. On(j)' = On(j)
      BY <1>2, <3>1, Zenon
    <3> QED BY <1>1, <1>5, <2>2, <3>2, Zenon DEF Loads
  <2> QED BY <2>1, <2>2, Zenon
<1>6. Loads'
  BY <1>5, Zenon DEF Loads
<1> QED BY <1>1, <1>6, Zenon

\* A dial gives up its lease, if it has one.
LEMMA LeaseReleased ==
    ASSUME OutTypes, Loads, NEW c \in Conns, NEW d \in DialRecord, DialTo(c, d),
           ~Leases(d), links' = Released(c)
    PROVE  /\ Loads' /\ LinksKept /\ DOMAIN links' = DOMAIN links /\ links' \in [1..Count -> LinkRecord]
           /\ \A j \in DOMAIN links : links'[j].active <= links[j].active
<1>0. \A j \in DOMAIN links : links[j].active \in Int
  BY Zenon DEF OutTypes, LinkRecord
<1>1. CASE Leased(c)
  <2> DEFINE i == dial[c].link
  <2>1. i \in DOMAIN links /\ links' = Counted(i, -1)
    BY <1>1, Zenon DEF OutTypes, Leased, Released
  <2>2. /\ DOMAIN links' = DOMAIN links /\ links' \in [1..Count -> LinkRecord]
        /\ links'[i].active = links[i].active - 1
        /\ \A j \in DOMAIN links : j # i => links'[j].active = links[j].active
        /\ LinksKept
    BY <1>0, <2>1, CountedIs DEF LinksKept
  <2>3. c \in On(i) /\ \A j \in DOMAIN links : j # i => c \notin On(j)
    BY <1>1, Zenon DEF On
  <2> HIDE DEF i
  <2>4. ASSUME NEW j \in DOMAIN links' PROVE links'[j].active = Cardinality(On(j)')
    <3>1. On(j)' = On(j) \ {c}
      BY OnNow, Zenon
    <3>2. CASE j = i
      <4>1. Cardinality(On(j)') = Cardinality(On(j)) - 1
        BY <2>3, <3>1, <3>2, OnFinite, FS_RemoveElement, Zenon
      <4> QED BY <2>1, <2>2, <3>2, <4>1, Zenon DEF Loads
    <3>3. CASE j # i
      <4>1. On(j)' = On(j)
        BY <2>2, <2>3, <2>4, <3>1, <3>3, Zenon
      <4> QED BY <2>2, <2>4, <3>3, <4>1, Zenon DEF Loads
    <3> QED BY <3>2, <3>3, Zenon
  <2>5. Loads'
    BY <2>4, Zenon DEF Loads
  <2>6. \A j \in DOMAIN links : links'[j].active <= links[j].active
    BY <1>0, <2>1, <2>2
  <2> QED BY <2>2, <2>5, <2>6, Zenon
<1>2. CASE ~Leased(c)
  <2>1. links' = links
    BY <1>2, Zenon DEF Released
  <2>2. ASSUME NEW j PROVE On(j)' = On(j)
    <3>1. c \notin On(j)
      BY <1>2, Zenon DEF On
    <3>2. On(j)' = On(j) \ {c}
      BY OnNow, Zenon
    <3> QED BY <3>1, <3>2, Zenon
  <2> QED BY <1>0, <2>1, <2>2 DEF Loads, LinksKept, OutTypes
<1> QED BY <1>1, <1>2, Zenon

\* Neither leases nor counters change.
LEMMA LoadsFrame ==
    ASSUME OutTypes, Loads, DOMAIN links' = DOMAIN links, \A i \in DOMAIN links : On(i)' = On(i),
           \A i \in DOMAIN links : links'[i].active = links[i].active
    PROVE  Loads'
BY Zenon DEF Loads

-----------------------------------------------------------------------------
(* Locks, limits and the client of the slot *)

\* Where a dial holds connect_lock, and the lock of the slot.
Held(d, kind) ==
    /\ d.kind = kind
    /\ d.at \in IF kind = "grpc" THEN {"locked", "joining", "creating", "created"}
                ELSE {"locked", "resolving", "handshake"}
Locks == \A c \in Conns : \A k \in Kinds : Held(dial[c], k) => holder[k] = c

\* The pool has room for the connection that is being made: it only shrinks
\* while the lock is held.
Creating(d) == d.kind = "grpc" /\ d.at = "creating"
Limits ==
    IF options.maxConnections > 0
    THEN /\ Cardinality(pool) <= options.maxConnections
         /\ \A c \in Conns : Creating(dial[c]) => Cardinality(pool) < options.maxConnections
    ELSE options.maxStreams > 0 => \A i \in DOMAIN links : links[i].active <= options.maxStreams

\* No live client exists while one is being made.
Making(d) == d.kind = "hysteria2" /\ d.at \in {"resolving", "handshake"}
Clients ==
    ~stopped => /\ OneClient
                /\ \A c \in Conns : Making(dial[c]) => ~Alive(slot)

OutInv == OutTypes /\ Loads /\ Locks /\ Limits /\ Clients

LEMMA OptionsNat ==
    ASSUME OutTypes PROVE options.maxConnections \in Nat /\ options.maxStreams \in Nat
BY OutboundAssumption, Zenon DEF OutTypes

LEMMA PoolFinite ==
    ASSUME OutTypes, NEW S \in SUBSET pool
    PROVE  IsFiniteSet(pool) /\ IsFiniteSet(S) /\ Cardinality(S) \in Nat /\ Cardinality(pool) \in Nat
           /\ Cardinality(S) <= Cardinality(pool)
<1>1. IsFiniteSet(1..Count) /\ pool \subseteq 1..Count
  BY FS_Interval DEF OutTypes
<1>2. IsFiniteSet(pool)
  BY <1>1, FS_Subset, Zenon
<1> QED BY <1>2, FS_Subset, FS_CardinalityType, Zenon

LEMMA TypesStep ==
    ASSUME OutTypes, NEW c \in Conns, NEW d \in DialRecord, DialTo(c, d), UNCHANGED <<options, slot>>,
           network' \in Nat, holder' \in [Kinds -> Conns \cup {None}],
           DOMAIN links' = DOMAIN links, links' \in [1..Count -> LinkRecord], pool' \subseteq pool,
           d.link \in DOMAIN links \cup {None}, d.at \notin WithLink => d.link = None
    PROVE  OutTypes'
<1>1. Count' = Count
  BY Zenon DEF Count
<1> QED BY <1>1, DialIsNow DEF OutTypes

\* Only the dial that moves takes or leaves a lock.
LEMMA LocksStep ==
    ASSUME OutTypes, Locks, NEW c \in Conns, NEW d \in DialRecord, DialTo(c, d),
           \A k \in Kinds : \A e \in Conns : e # c /\ holder[k] = e => holder'[k] = e,
           \A k \in Kinds : Held(d, k) => holder'[k] = c
    PROVE  Locks'
BY DialIsNow DEF Locks

LEMMA LimitsStep ==
    ASSUME OutTypes, Limits, NEW c \in Conns, NEW d \in DialRecord, DialTo(c, d), UNCHANGED options,
           DOMAIN links' = DOMAIN links, links' \in [1..Count -> LinkRecord], pool' \subseteq pool,
           \A i \in DOMAIN links : links'[i].active <= links[i].active,
           Creating(d) /\ options.maxConnections > 0 => Cardinality(pool) < options.maxConnections
    PROVE  Limits'
<1>1. options.maxConnections \in Nat /\ options.maxStreams \in Nat
  BY OptionsNat, Zenon
<1>2. /\ Cardinality(pool') \in Nat /\ Cardinality(pool) \in Nat
      /\ Cardinality(pool') <= Cardinality(pool)
  BY PoolFinite, Zenon
<1>3. CASE options.maxConnections > 0
  <2>1. \A e \in Conns : Creating(dial'[e]) => Cardinality(pool) < options.maxConnections
    BY <1>3, DialIsNow, Zenon DEF Limits
  <2> QED BY <1>1, <1>2, <1>3, <2>1 DEF Limits, Creating
<1>4. CASE ~(options.maxConnections > 0)
  <2>1. \A i \in DOMAIN links : links[i].active \in Int /\ links'[i].active \in Int
    BY Zenon DEF OutTypes, LinkRecord
  <2> QED BY <1>1, <1>4, <2>1 DEF Limits
<1> QED BY <1>3, <1>4, Zenon

LEMMA ClientsStep ==
    ASSUME OutTypes, Clients, NEW c \in Conns, NEW d \in DialRecord, DialTo(c, d), UNCHANGED slot,
           DOMAIN links' = DOMAIN links, LinksKept, stopped => stopped',
           Making(d) => Making(dial[c]) \/ ~Alive(slot)
    PROVE  Clients'
<1> SUFFICES ASSUME ~stopped' PROVE OneClient' /\ \A e \in Conns : Making(dial'[e]) => ~Alive(slot)'
  BY Zenon DEF Clients, Making
<1>1. OneClient /\ \A e \in Conns : Making(dial[e]) => ~Alive(slot)
  BY Zenon DEF Clients
<1>2. OneClient'
  BY <1>1, Zenon DEF OneClient, LinksKept, Clients
<1>3. ~Alive(slot) => ~Alive(slot)'
  BY Zenon DEF Alive, LinksKept, OutTypes
<1> QED BY <1>1, <1>2, <1>3, DialIsNow, Zenon

\* The dial of c changes, and links only lose streams or die.
LEMMA DialStepInv ==
    ASSUME OutInv, NEW c \in Conns, NEW d \in DialRecord, DialTo(c, d), UNCHANGED <<options, network, slot>>,
           holder' \in [Kinds -> Conns \cup {None}],
           \A k \in Kinds : \A e \in Conns : e # c /\ holder[k] = e => holder'[k] = e,
           \A k \in Kinds : Held(d, k) => holder'[k] = c,
           DOMAIN links' = DOMAIN links, links' \in [1..Count -> LinkRecord], LinksKept, Loads',
           \A i \in DOMAIN links : links'[i].active <= links[i].active,
           pool' \subseteq pool,
           d.link \in DOMAIN links \cup {None}, d.at \notin WithLink => d.link = None,
           Creating(d) /\ options.maxConnections > 0 => Cardinality(pool) < options.maxConnections,
           Making(d) => Making(dial[c]) \/ ~Alive(slot),
           stopped => stopped'
    PROVE  OutInv'
<1>1. OutTypes'
  BY TypesStep, Zenon DEF OutInv, OutTypes
<1>2. Locks'
  BY LocksStep, Zenon DEF OutInv
<1>3. Limits'
  BY LimitsStep, Zenon DEF OutInv
<1>4. Clients'
  BY ClientsStep, Zenon DEF OutInv
<1> QED BY <1>1, <1>2, <1>3, <1>4, Zenon DEF OutInv

\* What the locks may do when c moves.
HolderStep(c) ==
    /\ holder' \in [Kinds -> Conns \cup {None}]
    /\ \A k \in Kinds : \A e \in Conns : e # c /\ holder[k] = e => holder'[k] = e

LEMMA HolderSame == ASSUME OutTypes, NEW c \in Conns, UNCHANGED holder PROVE HolderStep(c)
BY Zenon DEF OutTypes, HolderStep

LEMMA HolderFree == ASSUME OutTypes, NEW c \in Conns, holder' = Free(c) PROVE HolderStep(c)
BY Zenon DEF OutTypes, HolderStep, Free

LEMMA HolderTaken ==
    ASSUME OutTypes, NEW c \in Conns, NEW k \in Kinds, LockFree(k), holder' = [holder EXCEPT ![k] = c]
    PROVE  HolderStep(c) /\ holder'[k] = c
BY OutboundAssumption, Zenon DEF OutTypes, HolderStep, LockFree

\* The dial of c changes and keeps what it leases; links and pool stay.
LEMMA PlainInv ==
    ASSUME OutInv, NEW c \in Conns, NEW d \in DialRecord, DialTo(c, d), HolderStep(c),
           UNCHANGED <<options, network, slot, links, pool, stopped>>,
           \A k \in Kinds : Held(d, k) => holder'[k] = c,
           Leases(d) <=> Leased(c), Leased(c) => d.link = dial[c].link,
           d.link \in DOMAIN links \cup {None}, d.at \notin WithLink => d.link = None,
           Creating(d) /\ options.maxConnections > 0 => Cardinality(pool) < options.maxConnections,
           Making(d) => Making(dial[c]) \/ ~Alive(slot)
    PROVE  OutInv'
<1>1. \A i \in DOMAIN links : links[i].active \in Int
  BY Zenon DEF OutInv, OutTypes, LinkRecord
<1>2. ASSUME NEW i \in DOMAIN links' PROVE links'[i].active = Cardinality(On(i)')
  <2>1. On(i)' = IF Leases(d) /\ d.link = i THEN On(i) \cup {c} ELSE On(i) \ {c}
    BY OnNow, Zenon DEF OutInv
  <2>2. On(i)' = On(i)
    BY <2>1, Zenon DEF On
  <2> QED BY <1>2, <2>2, ZenonT(60) DEF OutInv, Loads
<1>3. Loads'
  BY <1>2, Zenon DEF Loads
<1>4. LinksKept /\ links' \in [1..Count -> LinkRecord] /\ DOMAIN links' = DOMAIN links
      /\ \A i \in DOMAIN links : links'[i].active <= links[i].active
  BY <1>1 DEF LinksKept, OutInv, OutTypes
<1> QED BY <1>3, <1>4, DialStepInv, Zenon DEF HolderStep

\* A dial of no link yet moves to another such place.
LEMMA NoLeaseInv ==
    ASSUME OutInv, NEW c \in Conns, NEW d \in DialRecord, DialTo(c, d), HolderStep(c),
           UNCHANGED <<options, network, slot, links, pool, stopped>>,
           \A k \in Kinds : Held(d, k) => holder'[k] = c,
           dial[c].link = None, d.link = None,
           Creating(d) /\ options.maxConnections > 0 => Cardinality(pool) < options.maxConnections,
           Making(d) => Making(dial[c]) \/ ~Alive(slot)
    PROVE  OutInv'
BY PlainInv, Zenon DEF Leases, Leased

LEMMA ToRecord ==
    ASSUME OutTypes, NEW c \in Conns,
           NEW at \in {"idle", "dialed", "locked", "joining", "creating", "created", "resolving",
                       "handshake", "opening", "again", "open", "done"}
    PROVE  LET d == [dial[c] EXCEPT !.at = at]
           IN  /\ d \in DialRecord /\ d.at = at /\ d.kind = dial[c].kind /\ d.link = dial[c].link
               /\ dial' = To(c, at) => DialTo(c, d)
<1>1. dial[c] \in DialRecord
  BY Zenon DEF OutTypes
<1>2. LET d == [dial[c] EXCEPT !.at = at]
      IN  d \in DialRecord /\ d.at = at /\ d.kind = dial[c].kind /\ d.link = dial[c].link
  BY <1>1, Zenon DEF DialRecord
<1>3. dial' = To(c, at) => DialTo(c, [dial[c] EXCEPT !.at = at])
  BY Zenon DEF To, DialTo, OutTypes
<1> QED BY <1>2, <1>3, Zenon

LEMMA ConnectInv == ASSUME OutInv, NEW c \in Conns, Connect(c), UNCHANGED vars PROVE OutInv'
<1> DEFINE d == [NoDial EXCEPT !.at = "dialed", !.kind = "grpc", !.net = network]
<1>1. d \in DialRecord /\ d.at = "dialed" /\ d.kind = "grpc" /\ d.link = None
  BY Zenon DEF NoDial, DialRecord, Kinds, OutInv, OutTypes
<1>2. DialTo(c, d) /\ dial[c].at = "idle" /\ UNCHANGED <<options, network, slot, links, pool, stopped, holder>>
  BY Zenon DEF Connect, DialTo, vars
<1> HIDE DEF d
<1>3. dial[c].link = None
  BY <1>2, Zenon DEF OutInv, OutTypes, WithLink
<1>4. HolderStep(c) /\ (\A k \in Kinds : ~Held(d, k)) /\ ~Creating(d) /\ ~Making(d)
  BY <1>1, <1>2, HolderSame, Zenon DEF OutInv, Held, Creating, Making
<1> QED BY <1>1, <1>2, <1>3, <1>4, NoLeaseInv, Zenon

LEMMA LockInv == ASSUME OutInv, NEW c \in Conns, Lock(c), UNCHANGED vars PROVE OutInv'
<1> DEFINE d == [dial[c] EXCEPT !.at = "locked"]
<1>1. d \in DialRecord /\ d.at = "locked" /\ d.kind = dial[c].kind /\ d.link = dial[c].link /\ DialTo(c, d)
  BY ToRecord, ZenonT(60) DEF Lock, OutInv
<1>2. dial[c].kind = "grpc" /\ dial[c].at = "dialed" /\ UNCHANGED <<options, network, slot, links, pool, stopped>>
  BY Zenon DEF Lock, DialIs, vars
<1> HIDE DEF d
<1>3. dial[c].link = None
  BY <1>2, Zenon DEF OutInv, OutTypes, WithLink
<1>4. HolderStep(c) /\ holder'["grpc"] = c
  BY HolderTaken, Zenon DEF OutInv, Lock, Kinds
<1>5. (\A k \in Kinds : Held(d, k) => holder'[k] = c) /\ ~Creating(d) /\ ~Making(d)
  BY <1>1, <1>2, <1>4, Zenon DEF Held, Creating, Making
<1> QED BY <1>1, <1>2, <1>3, <1>4, <1>5, NoLeaseInv, Zenon

LEMMA LeastNatural ==
    ASSUME NEW T \in SUBSET Nat, T # {} PROVE \E x \in T : \A y \in T : x <= y
<1> DEFINE R == {ss \in Nat \X Nat : ss[1] < ss[2]}
<1>1. \A x, y \in Nat : <<y, x>> \notin R => x <= y
  OBVIOUS
<1>2. IsWellFoundedOn(R, Nat)
  BY NatLessThanWellFounded, Zenon DEF OpToRel
<1> HIDE DEF R
<1>3. \E x \in T : \A y \in T : ~(<<y, x>> \in R)
  BY <1>2, WFMin, Zenon
<1> QED BY <1>1, <1>3, Zenon

\* A pool that is not empty has a least loaded connection.
LEMMA LeastLoadedExists == ASSUME OutTypes, Loads, pool # {} PROVE LeastLoaded # {}
<1> DEFINE T == {links[i].active : i \in pool}
<1>1. \A i \in pool : links[i].active \in Nat
  BY OnFinite, Zenon DEF Loads, OutTypes
<1>2. T \in SUBSET Nat /\ T # {}
  BY <1>1, Zenon
<1>3. PICK x \in T : \A y \in T : x <= y
  <2> HIDE DEF T
  <2> QED BY <1>2, LeastNatural, Zenon
<1> QED BY <1>3 DEF LeastLoaded

LEMMA PickInv == ASSUME OutInv, NEW c \in Conns, Pick(c), UNCHANGED vars PROVE OutInv'
<1>1. /\ dial[c].kind = "grpc" /\ dial[c].at = "locked" /\ dial[c] \in DialRecord
      /\ UNCHANGED <<options, network, holder, pool, slot, stopped>>
  BY Zenon DEF Pick, DialIs, vars, OutInv, OutTypes
<1>2. dial[c].link = None /\ ~Leased(c)
  BY <1>1, Zenon DEF OutInv, OutTypes, WithLink, Leased
<1>3. HolderStep(c) /\ holder'["grpc"] = c
  <2>1. holder["grpc"] = c
    BY <1>1, Zenon DEF OutInv, Locks, Held, Kinds
  <2> QED BY <1>1, <2>1, HolderSame, Zenon DEF OutInv
<1>4. ASSUME NEW i \in LeastLoaded, ReuseLeastLoaded(links[i].active), links' = Counted(i, 1),
             dial' = [dial EXCEPT ![c] = [@ EXCEPT !.at = "joining", !.link = i]]
      PROVE  OutInv'
  <2> DEFINE d == [dial[c] EXCEPT !.at = "joining", !.link = i]
  <2>1. i \in DOMAIN links /\ i \in Nat
    BY DEF LeastLoaded, OutInv, OutTypes
  <2>2. d \in DialRecord /\ d.at = "joining" /\ d.kind = "grpc" /\ d.link = i
    BY <1>1, <2>1, Zenon DEF DialRecord
  <2>3. DialTo(c, d)
    BY <1>4, Zenon DEF DialTo, OutInv, OutTypes
  <2> HIDE DEF d
  <2>4. Leases(d)
    BY <2>1, <2>2, OutboundAssumption, Zenon DEF Leases
  <2>5. /\ Loads' /\ LinksKept /\ DOMAIN links' = DOMAIN links /\ links' \in [1..Count -> LinkRecord]
        /\ links'[i].active = links[i].active + 1
        /\ \A j \in DOMAIN links : j # i => links'[j].active = links[j].active
    BY <1>2, <1>4, <2>1, <2>2, <2>3, <2>4, LeaseTaken, ZenonT(60) DEF OutInv
  <2>6. OutTypes'
    BY <1>1, <1>3, <2>1, <2>2, <2>3, <2>5, TypesStep, ZenonT(60) DEF OutInv, OutTypes, HolderStep, WithLink
  <2>7. Locks'
    BY <1>1, <1>3, <2>2, <2>3, LocksStep, Zenon DEF OutInv, HolderStep, Held
  <2>8. Clients'
    BY <1>1, <2>2, <2>3, <2>5, ClientsStep, Zenon DEF OutInv, Making
  <2>9. Limits'
    <3>1. options.maxConnections \in Nat /\ options.maxStreams \in Nat /\ links[i].active \in Int
      BY <2>1, OptionsNat, Zenon DEF OutInv, OutTypes, LinkRecord
    <3>2. CASE options.maxConnections > 0
      <4>1. \A e \in Conns : Creating(dial'[e]) => Creating(dial[e])
        BY <2>2, <2>3, DialIsNow, ZenonT(60) DEF Creating, OutInv
      <4> QED BY <1>1, <3>2, <4>1, Zenon DEF OutInv, Limits, Creating
    <3>3. CASE ~(options.maxConnections > 0)
      <4>1. options.maxStreams > 0 => links'[i].active <= options.maxStreams
        BY <1>4, <2>5, <3>1, <3>3 DEF ReuseLeastLoaded
      <4> QED BY <1>1, <2>5, <3>3, <4>1, Zenon DEF OutInv, Limits
    <3> QED BY <3>2, <3>3, Zenon
  <2> QED BY <2>5, <2>6, <2>7, <2>8, <2>9, Zenon DEF OutInv
<1>5. ASSUME \A i \in LeastLoaded : ~ReuseLeastLoaded(links[i].active), dial' = To(c, "creating"),
             UNCHANGED links
      PROVE  OutInv'
  <2> DEFINE d == [dial[c] EXCEPT !.at = "creating"]
  <2>1. d \in DialRecord /\ d.at = "creating" /\ d.kind = dial[c].kind /\ d.link = dial[c].link /\ DialTo(c, d)
    BY <1>5, ToRecord, ZenonT(60) DEF OutInv
  <2> HIDE DEF d
  <2>2. options.maxConnections > 0 => Cardinality(pool) < options.maxConnections
    <3>1. options.maxConnections \in Nat /\ Cardinality(pool) \in Nat
      BY OptionsNat, PoolFinite, Zenon DEF OutInv
    <3>2. CASE pool = {}
      BY <3>1, <3>2, FS_EmptySet, Zenon
    <3>3. CASE pool # {}
      BY <1>5, <3>1, <3>3, LeastLoadedExists DEF OutInv, ReuseLeastLoaded
    <3> QED BY <3>2, <3>3, Zenon
  <2>3. (\A k \in Kinds : Held(d, k) => holder'[k] = c) /\ ~Making(d)
    BY <1>1, <1>3, <2>1, Zenon DEF Held, Making
  <2> QED BY <1>1, <1>2, <1>3, <1>5, <2>1, <2>2, <2>3, NoLeaseInv, ZenonT(60)
<1> QED BY <1>4, <1>5, Zenon DEF Pick

LEMMA JoinInv == ASSUME OutInv, NEW c \in Conns, Join(c), UNCHANGED vars PROVE OutInv'
<1>1. /\ dial[c].kind = "grpc" /\ dial[c].at = "joining" /\ dial[c] \in DialRecord
      /\ UNCHANGED <<options, network, slot, stopped>>
      /\ dial[c].link \in DOMAIN links \cup {None}
  BY Zenon DEF Join, DialIs, vars, OutInv, OutTypes
<1>2. CASE Alive(dial[c].link)
  <2> DEFINE d == [dial[c] EXCEPT !.at = "open"]
  <2>1. d \in DialRecord /\ d.at = "open" /\ d.kind = dial[c].kind /\ d.link = dial[c].link /\ DialTo(c, d)
    BY <1>2, ToRecord, ZenonT(60) DEF OutInv, Join
  <2> HIDE DEF d
  <2>2. HolderStep(c) /\ UNCHANGED <<links, pool>>
    BY <1>2, HolderFree, Zenon DEF OutInv, Join
  <2>3. (\A k \in Kinds : ~Held(d, k)) /\ ~Creating(d) /\ ~Making(d) /\ (Leases(d) <=> Leased(c))
    BY <2>1, Zenon DEF Held, Creating, Making, Leases, Leased
  <2> QED BY <1>1, <2>1, <2>2, <2>3, PlainInv, ZenonT(60) DEF WithLink
<1>3. CASE ~Alive(dial[c].link)
  <2> DEFINE d == [dial[c] EXCEPT !.at = "locked", !.link = None]
  <2>1. d \in DialRecord /\ d.at = "locked" /\ d.kind = "grpc" /\ d.link = None
    BY <1>1, Zenon DEF DialRecord
  <2>2. DialTo(c, d) /\ links' = Released(c) /\ pool' \subseteq pool /\ UNCHANGED holder
    BY <1>3, Zenon DEF Join, DialTo, OutInv, OutTypes
  <2> HIDE DEF d
  <2>3. HolderStep(c) /\ holder["grpc"] = c
    BY <1>1, <2>2, HolderSame, Zenon DEF OutInv, Locks, Held, Kinds
  <2>4. (\A k \in Kinds : Held(d, k) => holder'[k] = c) /\ ~Creating(d) /\ ~Making(d) /\ ~Leases(d)
    BY <2>1, <2>2, <2>3, Zenon DEF Held, Creating, Making, Leases
  <2>5. /\ Loads' /\ LinksKept /\ DOMAIN links' = DOMAIN links /\ links' \in [1..Count -> LinkRecord]
        /\ \A j \in DOMAIN links : links'[j].active <= links[j].active
    BY <2>1, <2>2, <2>4, LeaseReleased, Zenon DEF OutInv
  <2> QED BY <1>1, <2>1, <2>2, <2>3, <2>4, <2>5, DialStepInv, ZenonT(60) DEF HolderStep
<1> QED BY <1>2, <1>3, Zenon

LEMMA CreatedInv == ASSUME OutInv, NEW c \in Conns, Created(c), UNCHANGED vars PROVE OutInv'
<1> DEFINE d == [dial[c] EXCEPT !.at = "open"]
<1>1. d \in DialRecord /\ d.at = "open" /\ d.kind = dial[c].kind /\ d.link = dial[c].link /\ DialTo(c, d)
  BY ToRecord, ZenonT(60) DEF OutInv, Created
<1> HIDE DEF d
<1>2. HolderStep(c) /\ UNCHANGED <<options, network, slot, links, pool, stopped>>
  BY HolderFree, Zenon DEF OutInv, Created, vars
<1>3. (\A k \in Kinds : ~Held(d, k)) /\ ~Creating(d) /\ ~Making(d) /\ (Leases(d) <=> Leased(c))
  BY <1>1, Zenon DEF Held, Creating, Making, Leases, Leased
<1>4. d.link \in DOMAIN links \cup {None}
  BY <1>1, Zenon DEF OutInv, OutTypes
<1> QED BY <1>1, <1>2, <1>3, <1>4, PlainInv, Zenon DEF WithLink

\* A new connection gets the next number.
LEMMA LinkedIs ==
    ASSUME OutTypes, NEW c \in Conns, NEW active \in Int, links' = Linked(c, active)
    PROVE  /\ NewLink(c) = Count + 1 /\ Count' = Count + 1 /\ NewLink(c) \notin DOMAIN links
           /\ DOMAIN links' = 1..(Count + 1) /\ DOMAIN links' = DOMAIN links \cup {NewLink(c)}
           /\ links' \in [1..(Count + 1) -> LinkRecord]
           /\ links'[NewLink(c)].kind = dial[c].kind /\ links'[NewLink(c)].active = active
           /\ \A i \in DOMAIN links : links'[i] = links[i]
<1> DEFINE new == [kind |-> dial[c].kind, net |-> dial[c].net, alive |-> TRUE, active |-> active]
<1>1. NewLink(c) = Count + 1 /\ Count \in Nat /\ DOMAIN links = 1..Count
  BY Zenon DEF NewLink, Count, OutTypes
<1>2. new \in LinkRecord /\ new.kind = dial[c].kind /\ new.active = active
  BY Zenon DEF LinkRecord, OutTypes, DialRecord
<1>3. links' = [i \in DOMAIN links \cup {NewLink(c)} |-> IF i \in DOMAIN links THEN links[i] ELSE new]
  BY Zenon DEF Linked
<1> HIDE DEF new
<1>4. NewLink(c) \notin DOMAIN links /\ DOMAIN links \cup {NewLink(c)} = 1..(Count + 1)
  BY <1>1
<1>5. DOMAIN links' = 1..(Count + 1) /\ links'[NewLink(c)] = new
  BY <1>1, <1>3, <1>4, Zenon
<1>6. Count' = Count + 1
  <2>1. Cardinality(1..(Count + 1)) = Count + 1
    BY <1>1, FS_Interval
  <2> QED BY <1>5, <2>1, Zenon DEF Count
<1>7. links' \in [1..(Count + 1) -> LinkRecord]
  <2>1. \A i \in DOMAIN links : links[i] \in LinkRecord
    BY Zenon DEF OutTypes
  <2> QED BY <1>2, <1>3, <1>4, <2>1, Zenon
<1> QED BY <1>1, <1>2, <1>3, <1>4, <1>5, <1>6, <1>7, ZenonT(60)

\* Nobody is on a connection that does not exist yet.
LEMMA NobodyOnNew ==
    ASSUME OutTypes, NEW i, i \notin DOMAIN links, i # None PROVE On(i) = {}
BY Zenon DEF On, OutTypes

\* Types and loads after a new connection, whose maker leases it or not.
LEMMA LinkedLoads ==
    ASSUME OutTypes, Loads, NEW c \in Conns, NEW d \in DialRecord, DialTo(c, d), ~Leased(c),
           NEW active \in {0, 1}, links' = Linked(c, active), d.link = NewLink(c),
           active = IF d.kind = "grpc" THEN 1 ELSE 0
    PROVE  Loads'
<1> DEFINE n == NewLink(c)
<1>1. /\ n = Count + 1 /\ n \notin DOMAIN links /\ n # None
      /\ DOMAIN links' = DOMAIN links \cup {n} /\ links'[n].active = active
      /\ \A i \in DOMAIN links : links'[i] = links[i]
  <2>1. Count \in Nat /\ active \in Int
    BY DEF OutTypes
  <2>2. NewLink(c) = Count + 1
    BY <2>1, LinkedIs, Zenon
  <2>3. NewLink(c) # None
    BY <2>1, <2>2, OutboundAssumption
  <2> QED BY <2>1, <2>3, LinkedIs, Zenon
<1>2. \A i : c \notin On(i)
  BY Zenon DEF On
<1> HIDE DEF n
<1>3. Leases(d) <=> d.kind = "grpc"
  BY <1>1, Zenon DEF Leases, n
<1>4. ASSUME NEW i \in DOMAIN links' PROVE links'[i].active = Cardinality(On(i)')
  <2>1. On(i)' = IF Leases(d) /\ d.link = i THEN On(i) \cup {c} ELSE On(i) \ {c}
    BY OnNow, Zenon
  <2>2. CASE i = n
    <3>1. On(i) = {}
      BY <1>1, <2>2, NobodyOnNew, Zenon
    <3>2. CASE d.kind = "grpc"
      <4>1. On(i)' = {c}
        BY <1>3, <2>1, <2>2, <3>1, <3>2, Zenon DEF n
      <4> QED BY <1>1, <2>2, <3>2, <4>1, FS_Singleton, Zenon
    <3>3. CASE d.kind # "grpc"
      <4>1. On(i)' = {}
        BY <1>3, <2>1, <3>1, <3>3, Zenon
      <4> QED BY <1>1, <2>2, <3>3, <4>1, FS_EmptySet, Zenon
    <3> QED BY <3>2, <3>3, Zenon
  <2>3. CASE i # n
    <3>1. i \in DOMAIN links /\ links'[i] = links[i]
      BY <1>1, <1>4, <2>3, Zenon
    <3>2. On(i)' = On(i)
      BY <1>2, <2>1, <2>3, Zenon DEF n
    <3> QED BY <3>1, <3>2, Zenon DEF Loads
  <2> QED BY <2>2, <2>3, Zenon
<1> QED BY <1>4, Zenon DEF Loads

LEMMA LinkedTypes ==
    ASSUME OutTypes, NEW c \in Conns, NEW d \in DialRecord, DialTo(c, d), HolderStep(c),
           UNCHANGED <<options, network>>, NEW active \in Int, links' = Linked(c, active),
           d.link = NewLink(c), d.at \in WithLink,
           pool' \subseteq pool \cup {NewLink(c)}, slot' \in {slot, NewLink(c)}
    PROVE  OutTypes'
<1>1. /\ Count' = Count + 1 /\ DOMAIN links' = 1..(Count + 1) /\ links' \in [1..(Count + 1) -> LinkRecord]
      /\ DOMAIN links' = DOMAIN links \cup {NewLink(c)}
  BY LinkedIs, Zenon
<1>2. Count' \in Nat
  BY <1>1 DEF OutTypes
<1>3. \A e \in Conns : /\ dial'[e].link \in DOMAIN links' \cup {None}
                       /\ dial'[e].at \notin WithLink => dial'[e].link = None
  BY <1>1, DialIsNow DEF OutTypes
<1>4. dial' \in [Conns -> DialRecord] /\ pool' \subseteq DOMAIN links' /\ slot' \in DOMAIN links' \cup {None}
  BY <1>1, DialIsNow DEF OutTypes
<1> QED BY <1>1, <1>2, <1>3, <1>4, Zenon DEF OutTypes, HolderStep

LEMMA CreateInv == ASSUME OutInv, NEW c \in Conns, Create(c), UNCHANGED vars PROVE OutInv'
<1> DEFINE n == NewLink(c)
           d == [dial[c] EXCEPT !.at = "created", !.link = n]
<1>1. /\ dial[c].kind = "grpc" /\ dial[c].at = "creating" /\ dial[c] \in DialRecord
      /\ UNCHANGED <<options, network, holder, slot, stopped>>
      /\ links' = Linked(c, 1) /\ pool' = pool \cup {n}
  BY Zenon DEF Create, DialIs, vars, OutInv, OutTypes
<1>2. dial[c].link = None /\ ~Leased(c)
  BY <1>1, Zenon DEF OutInv, OutTypes, WithLink, Leased
<1>3. /\ n = Count + 1 /\ n \notin DOMAIN links /\ DOMAIN links' = DOMAIN links \cup {n}
      /\ links'[n].kind = "grpc" /\ links'[n].active = 1
      /\ \A i \in DOMAIN links : links'[i] = links[i]
  <2>1. OutTypes /\ 1 \in Int
    BY DEF OutInv
  <2> HIDE DEF d
  <2> QED BY <1>1, <2>1, LinkedIs, Zenon
<1>4. n \in Nat
  <2>1. Count \in Nat
    BY Zenon DEF OutInv, OutTypes
  <2> QED BY <1>3, <2>1
<1>5. DialTo(c, d)
  BY Zenon DEF Create, DialTo, OutInv, OutTypes
<1> HIDE DEF n
<1>6. d \in DialRecord /\ d.at = "created" /\ d.kind = "grpc" /\ d.link = n
  BY <1>1, <1>4, Zenon DEF DialRecord
<1> HIDE DEF d
<1>7. HolderStep(c) /\ holder["grpc"] = c
  BY <1>1, HolderSame, Zenon DEF OutInv, Locks, Held, Kinds
<1>8. OutTypes'
  <2>1. OutTypes /\ 1 \in Int
    BY DEF OutInv
  <2>2. d.link = NewLink(c) /\ d.at \in WithLink
    BY <1>6, Zenon DEF WithLink, n
  <2>3. pool' \subseteq pool \cup {NewLink(c)} /\ slot' \in {slot, NewLink(c)}
    BY <1>1, Zenon DEF n
  <2> QED BY <1>1, <1>5, <1>6, <1>7, <2>1, <2>2, <2>3, LinkedTypes, ZenonT(60)
<1>9. Loads'
  BY <1>1, <1>2, <1>5, <1>6, LinkedLoads, Zenon DEF OutInv, n
<1>10. Locks'
  BY <1>1, <1>5, <1>6, <1>7, LocksStep, Zenon DEF OutInv, HolderStep, Held
<1>11. Limits'
  <2>1. options.maxConnections \in Nat /\ options.maxStreams \in Nat /\ Cardinality(pool) \in Nat /\ IsFiniteSet(pool)
    BY OptionsNat, PoolFinite, Zenon DEF OutInv
  <2>2. CASE options.maxConnections > 0
    <3>1. Cardinality(pool) < options.maxConnections
      BY <1>1, <2>2, Zenon DEF OutInv, Limits, Creating
    <3>2. n \notin pool
      BY <1>3, Zenon DEF OutInv, OutTypes
    <3>3. Cardinality(pool') = Cardinality(pool) + 1
      BY <1>1, <2>1, <3>2, FS_AddElement, ZenonT(60)
    <3>4. \A e \in Conns : ~Creating(dial'[e])
      <4>1. \A e \in Conns : Creating(dial[e]) => e = c
        BY <1>7, Zenon DEF Creating, OutInv, Locks, Held, Kinds
      <4> QED BY <1>5, <1>6, <4>1, DialIsNow DEF OutInv, Creating
    <3>5. Cardinality(pool') <= options'.maxConnections /\ options'.maxConnections > 0
      BY <1>1, <2>1, <2>2, <3>1, <3>3
    <3>6. \A e \in Conns : ~Creating(dial[e])'
      BY <3>4, Zenon DEF Creating
    <3> QED BY <3>5, <3>6, Zenon DEF Limits
  <2>3. CASE ~(options.maxConnections > 0)
    <3>1. options.maxStreams > 0 => \A i \in DOMAIN links : links[i].active <= options.maxStreams
      BY <2>3, Zenon DEF OutInv, Limits
    <3>2. options.maxStreams > 0 => \A i \in DOMAIN links' : links'[i].active <= options.maxStreams
      BY <1>3, <2>1, <3>1
    <3> QED BY <1>1, <2>3, <3>2, Zenon DEF Limits
  <2> QED BY <2>2, <2>3, Zenon
<1>12. Clients'
  <2> SUFFICES ASSUME ~stopped PROVE OneClient' /\ \A e \in Conns : Making(dial'[e]) => ~Alive(slot)'
    BY <1>1, Zenon DEF Clients, Making
  <2>1. OneClient /\ \A e \in Conns : Making(dial[e]) => ~Alive(slot)
    BY Zenon DEF OutInv, Clients
  <2>2. OneClient'
    BY <1>1, <1>3, <2>1, Zenon DEF OneClient
  <2>3. ~Alive(slot) => ~Alive(slot)'
    BY <1>1, <1>3, Zenon DEF Alive, OutInv, OutTypes
  <2>4. \A e \in Conns : Making(dial'[e]) => Making(dial[e])
    BY <1>5, <1>6, DialIsNow, ZenonT(60) DEF OutInv, Making
  <2> QED BY <2>1, <2>2, <2>3, <2>4, Zenon
<1> QED BY <1>8, <1>9, <1>10, <1>11, <1>12, Zenon DEF OutInv

LEMMA FillInv == ASSUME OutInv, NEW c \in Conns, Fill(c), UNCHANGED vars PROVE OutInv'
<1> DEFINE n == NewLink(c)
           d == [dial[c] EXCEPT !.at = "opening", !.link = n]
<1>1. /\ dial[c].kind = "hysteria2" /\ dial[c].at = "handshake" /\ dial[c] \in DialRecord
      /\ UNCHANGED <<options, network, pool, stopped>>
      /\ links' = Linked(c, 0) /\ slot' = n /\ holder' = Free(c)
  BY Zenon DEF Fill, DialIs, vars, OutInv, OutTypes
<1>2. dial[c].link = None /\ ~Leased(c)
  BY <1>1, Zenon DEF OutInv, OutTypes, WithLink, Leased
<1>3. /\ n = Count + 1 /\ n \notin DOMAIN links /\ DOMAIN links' = DOMAIN links \cup {n}
      /\ links'[n].active = 0
      /\ \A i \in DOMAIN links : links'[i] = links[i]
  <2>1. OutTypes /\ 0 \in Int
    BY DEF OutInv
  <2> HIDE DEF d
  <2> QED BY <1>1, <2>1, LinkedIs, Zenon
<1>4. n \in Nat
  <2>1. Count \in Nat
    BY Zenon DEF OutInv, OutTypes
  <2> QED BY <1>3, <2>1
<1>5. DialTo(c, d)
  BY Zenon DEF Fill, DialTo, OutInv, OutTypes
<1> HIDE DEF n
<1>6. d \in DialRecord /\ d.at = "opening" /\ d.kind = "hysteria2" /\ d.link = n
  BY <1>1, <1>4, Zenon DEF DialRecord
<1> HIDE DEF d
<1>7. HolderStep(c) /\ holder["hysteria2"] = c
  BY <1>1, HolderFree, Zenon DEF OutInv, Locks, Held, Kinds
<1>8. OutTypes'
  <2>1. OutTypes /\ 0 \in Int
    BY DEF OutInv
  <2>2. d.link = NewLink(c) /\ d.at \in WithLink
    BY <1>6, Zenon DEF WithLink, n
  <2>3. pool' \subseteq pool \cup {NewLink(c)} /\ slot' \in {slot, NewLink(c)}
    BY <1>1, Zenon DEF n
  <2> QED BY <1>1, <1>5, <1>6, <1>7, <2>1, <2>2, <2>3, LinkedTypes, ZenonT(60)
<1>9. Loads'
  BY <1>1, <1>2, <1>5, <1>6, LinkedLoads, Zenon DEF OutInv, n
<1>10. Locks'
  BY <1>1, <1>5, <1>6, <1>7, LocksStep, ZenonT(60) DEF OutInv, HolderStep, Held
<1>11. Limits'
  <2>1. options.maxConnections \in Nat /\ options.maxStreams \in Nat
    BY OptionsNat, Zenon DEF OutInv
  <2>2. \A e \in Conns : Creating(dial'[e]) => Creating(dial[e])
    BY <1>5, <1>6, DialIsNow, Zenon DEF OutInv, Creating
  <2> QED BY <1>1, <1>3, <2>1, <2>2 DEF OutInv, Limits, Creating
<1>12. Clients'
  <2> SUFFICES ASSUME ~stopped PROVE OneClient' /\ \A e \in Conns : ~Making(dial'[e])
    BY <1>1, Zenon DEF Clients, Making
  <2>1. OneClient /\ ~Alive(slot)
    BY <1>1, Zenon DEF OutInv, Clients, Making
  <2>2. \A i \in DOMAIN links : i # None
    BY OutboundAssumption DEF OutInv, OutTypes
  <2>3. \A i \in DOMAIN links : ~(links[i].kind = "hysteria2" /\ links[i].alive)
    BY <2>1, <2>2, Zenon DEF OneClient, Alive
  <2>4. OneClient'
    BY <1>1, <1>3, <2>3, Zenon DEF OneClient
  <2>5. \A e \in Conns : Making(dial[e]) => e = c
    BY <1>7, Zenon DEF Making, OutInv, Locks, Held, Kinds
  <2> QED BY <1>5, <1>6, <2>4, <2>5, DialIsNow, ZenonT(60) DEF OutInv, Making
<1> QED BY <1>8, <1>9, <1>10, <1>11, <1>12, Zenon DEF OutInv

LEMMA LockSlotInv == ASSUME OutInv, NEW c \in Conns, LockSlot(c), UNCHANGED vars PROVE OutInv'
<1> DEFINE d == [NoDial EXCEPT !.at = "locked", !.kind = "hysteria2", !.fresh = dial[c].at = "again"]
<1>1. d \in DialRecord /\ d.at = "locked" /\ d.kind = "hysteria2" /\ d.link = None
  BY Zenon DEF NoDial, DialRecord, Kinds
<1>2. /\ DialTo(c, d) /\ dial[c].at \in {"idle", "again"}
      /\ UNCHANGED <<options, network, slot, links, pool, stopped>>
  BY Zenon DEF LockSlot, DialIs, DialTo, vars
<1> HIDE DEF d
<1>3. dial[c].link = None
  BY <1>2, Zenon DEF OutInv, OutTypes, WithLink
<1>4. HolderStep(c) /\ holder'["hysteria2"] = c
  BY HolderTaken, Zenon DEF OutInv, LockSlot, Kinds
<1>5. (\A k \in Kinds : Held(d, k) => holder'[k] = c) /\ ~Creating(d) /\ ~Making(d)
  BY <1>1, <1>4, Zenon DEF Held, Creating, Making
<1> QED BY <1>1, <1>2, <1>3, <1>4, <1>5, NoLeaseInv, Zenon

LEMMA LookSlotInv == ASSUME OutInv, NEW c \in Conns, LookSlot(c), UNCHANGED vars PROVE OutInv'
<1>1. /\ dial[c].kind = "hysteria2" /\ dial[c].at = "locked" /\ dial[c] \in DialRecord
      /\ UNCHANGED <<options, network, slot, links, pool, stopped>>
  BY Zenon DEF LookSlot, DialIs, vars, OutInv, OutTypes
<1>2. dial[c].link = None /\ ~Leased(c)
  BY <1>1, Zenon DEF OutInv, OutTypes, WithLink, Leased
<1>3. CASE Usable(slot)
  <2> DEFINE d == [dial[c] EXCEPT !.at = "opening", !.link = slot]
  <2>1. slot \in DOMAIN links \cup {None} /\ slot \in Nat \cup {None}
    BY DEF OutInv, OutTypes
  <2>2. d \in DialRecord /\ d.at = "opening" /\ d.kind = "hysteria2" /\ d.link = slot
    BY <1>1, <2>1, Zenon DEF DialRecord
  <2>3. DialTo(c, d)
    BY <1>3, Zenon DEF LookSlot, DialTo
  <2> HIDE DEF d
  <2>4. HolderStep(c)
    BY <1>3, HolderFree, Zenon DEF OutInv, LookSlot
  <2>5. (\A k \in Kinds : ~Held(d, k)) /\ ~Creating(d) /\ ~Making(d) /\ ~Leases(d)
    BY <2>2, Zenon DEF Held, Creating, Making, Leases
  <2> QED BY <1>1, <1>2, <2>1, <2>2, <2>3, <2>4, <2>5, PlainInv, ZenonT(60) DEF WithLink
<1>4. CASE ~Usable(slot)
  <2> DEFINE d == [dial[c] EXCEPT !.at = "resolving"]
  <2>1. d \in DialRecord /\ d.at = "resolving" /\ d.kind = dial[c].kind /\ d.link = dial[c].link /\ DialTo(c, d)
    BY <1>4, ToRecord, Zenon DEF OutInv, LookSlot
  <2> HIDE DEF d
  <2>2. HolderStep(c) /\ holder'["hysteria2"] = c
    <3>1. holder["hysteria2"] = c /\ holder' = holder
      BY <1>1, <1>4, Zenon DEF OutInv, Locks, Held, Kinds, LookSlot
    <3> QED BY <3>1, HolderSame, Zenon DEF OutInv
  <2>3. (\A k \in Kinds : Held(d, k) => holder'[k] = c) /\ ~Creating(d) /\ ~Alive(slot)
    BY <1>1, <1>4, <2>1, <2>2, Zenon DEF Held, Creating, Usable
  <2> QED BY <1>1, <1>2, <2>1, <2>2, <2>3, NoLeaseInv, Zenon
<1> QED BY <1>3, <1>4, Zenon

LEMMA BindInv == ASSUME OutInv, NEW c \in Conns, Bind(c), UNCHANGED vars PROVE OutInv'
<1> DEFINE d == [dial[c] EXCEPT !.at = "handshake", !.net = network]
<1>1. /\ dial[c].kind = "hysteria2" /\ dial[c].at = "resolving" /\ dial[c] \in DialRecord
      /\ UNCHANGED <<options, network, slot, links, pool, stopped, holder>> /\ network \in Nat
  BY Zenon DEF Bind, DialIs, vars, OutInv, OutTypes
<1>2. dial[c].link = None
  BY <1>1, Zenon DEF OutInv, OutTypes, WithLink
<1>3. d \in DialRecord /\ d.at = "handshake" /\ d.kind = "hysteria2" /\ d.link = None
  BY <1>1, <1>2, Zenon DEF DialRecord
<1>4. DialTo(c, d)
  BY Zenon DEF Bind, DialTo
<1> HIDE DEF d
<1>5. HolderStep(c) /\ holder'["hysteria2"] = c
  <2>1. holder["hysteria2"] = c
    BY <1>1, Zenon DEF OutInv, Locks, Held, Kinds
  <2> QED BY <1>1, <2>1, HolderSame, Zenon DEF OutInv
<1>6. (\A k \in Kinds : Held(d, k) => holder'[k] = c) /\ ~Creating(d) /\ Making(dial[c])
  BY <1>1, <1>3, <1>5, Zenon DEF Held, Creating, Making
<1> QED BY <1>1, <1>2, <1>3, <1>4, <1>5, <1>6, NoLeaseInv, Zenon

LEMMA OpenTcpInv == ASSUME OutInv, NEW c \in Conns, OpenTcp(c), UNCHANGED vars PROVE OutInv'
<1>1. /\ dial[c].kind = "hysteria2" /\ dial[c].at = "opening" /\ dial[c] \in DialRecord
      /\ dial[c].link \in DOMAIN links \cup {None}
      /\ UNCHANGED <<options, network, slot, links, pool, stopped, holder>>
  BY Zenon DEF OpenTcp, DialIs, vars, OutInv, OutTypes
<1>2. ~Leased(c) /\ HolderStep(c)
  BY <1>1, HolderSame, Zenon DEF Leased, OutInv
<1>3. ASSUME dial' = To(c, "open") PROVE OutInv'
  <2> DEFINE d == [dial[c] EXCEPT !.at = "open"]
  <2>1. d \in DialRecord /\ d.at = "open" /\ d.kind = dial[c].kind /\ d.link = dial[c].link /\ DialTo(c, d)
    BY <1>3, ToRecord, Zenon DEF OutInv
  <2> HIDE DEF d
  <2>2. (\A k \in Kinds : ~Held(d, k)) /\ ~Creating(d) /\ ~Making(d) /\ ~Leases(d)
    BY <1>1, <2>1, Zenon DEF Held, Creating, Making, Leases
  <2> QED BY <1>1, <1>2, <2>1, <2>2, PlainInv, Zenon DEF WithLink
<1>4. ASSUME dial' = [dial EXCEPT ![c] = [@ EXCEPT !.at = "again", !.link = None]] PROVE OutInv'
  <2> DEFINE d == [dial[c] EXCEPT !.at = "again", !.link = None]
  <2>1. d \in DialRecord /\ d.at = "again" /\ d.kind = "hysteria2" /\ d.link = None
    BY <1>1, Zenon DEF DialRecord
  <2>2. DialTo(c, d)
    BY <1>4, Zenon DEF DialTo
  <2> HIDE DEF d
  <2>3. (\A k \in Kinds : ~Held(d, k)) /\ ~Creating(d) /\ ~Making(d) /\ ~Leases(d)
    BY <2>1, Zenon DEF Held, Creating, Making, Leases
  <2> QED BY <1>1, <1>2, <2>1, <2>2, <2>3, PlainInv, Zenon
<1> QED BY <1>3, <1>4, Zenon DEF OpenTcp

\* The future of c is dropped, with its lease, and with the lock unless it had
\* let go of it before.
LEMMA DroppedInv ==
    ASSUME OutInv, NEW c \in Conns, dial' = [dial EXCEPT ![c] = [NoDial EXCEPT !.at = "done"]],
           links' = Released(c), HolderStep(c), UNCHANGED <<options, network, pool, slot>>,
           stopped => stopped'
    PROVE  OutInv'
<1> DEFINE d == [NoDial EXCEPT !.at = "done"]
<1>1. d \in DialRecord /\ d.at = "done" /\ d.kind = None /\ d.link = None
  BY Zenon DEF NoDial, DialRecord
<1>2. DialTo(c, d)
  BY Zenon DEF DialTo
<1> HIDE DEF d
<1>3. (\A k \in Kinds : ~Held(d, k)) /\ ~Creating(d) /\ ~Making(d) /\ ~Leases(d)
  BY <1>1, Zenon DEF Held, Creating, Making, Leases
<1>4. /\ Loads' /\ LinksKept /\ DOMAIN links' = DOMAIN links /\ links' \in [1..Count -> LinkRecord]
      /\ \A j \in DOMAIN links : links'[j].active <= links[j].active
  BY <1>1, <1>2, <1>3, LeaseReleased, Zenon DEF OutInv
<1> QED BY <1>1, <1>2, <1>3, <1>4, DialStepInv, Zenon DEF HolderStep

LEMMA AbandonInv == ASSUME OutInv, NEW c \in Conns, Abandon(c), UNCHANGED vars PROVE OutInv'
<1>1. HolderStep(c)
  BY HolderFree, Zenon DEF Abandon, Abandoned, OutInv
<1> QED BY <1>1, DroppedInv, Zenon DEF Abandon, vars

\* Dials and locks stay; links may die, connections leave the pool and the
\* client its slot.
LEMMA StillInv ==
    ASSUME OutInv, UNCHANGED <<dial, holder, options>>, network' \in Nat,
           DOMAIN links' = DOMAIN links, links' \in [1..Count -> LinkRecord], LinksKept,
           \A i \in DOMAIN links : links'[i].active = links[i].active,
           pool' \subseteq pool, slot' \in {slot, None}, stopped => stopped',
           stopped' \/ slot' = slot \/ (slot # None /\ ~links'[slot].alive)
    PROVE  OutInv'
<1>1. OutTypes'
  <2>1. Count' = Count
    BY Zenon DEF Count
  <2> QED BY <2>1, Zenon DEF OutInv, OutTypes
<1>2. Loads'
  BY LoadsFrame, Zenon DEF OutInv, On, Leased
<1>3. Locks'
  BY Zenon DEF OutInv, Locks
<1>4. Limits'
  <2>1. options.maxConnections \in Nat /\ options.maxStreams \in Nat
    BY OptionsNat, Zenon DEF OutInv
  <2>2. /\ Cardinality(pool') \in Nat /\ Cardinality(pool) \in Nat
        /\ Cardinality(pool') <= Cardinality(pool)
    BY PoolFinite, Zenon DEF OutInv
  <2>3. CASE options.maxConnections > 0
    BY <2>1, <2>2, <2>3 DEF OutInv, Limits, Creating
  <2>4. CASE ~(options.maxConnections > 0)
    BY <2>1, <2>4, Zenon DEF OutInv, Limits
  <2> QED BY <2>3, <2>4, Zenon
<1>5. Clients'
  <2> SUFFICES ASSUME ~stopped' PROVE OneClient' /\ \A e \in Conns : Making(dial[e]) => ~Alive(slot)'
    BY Zenon DEF Clients, Making
  <2>1. OneClient /\ ~stopped /\ \A e \in Conns : Making(dial[e]) => ~Alive(slot)
    BY Zenon DEF OutInv, Clients
  <2>2. OneClient'
    BY <2>1, Zenon DEF OneClient, LinksKept
  <2>3. ~Alive(slot) => ~Alive(slot)'
    BY Zenon DEF Alive, LinksKept, OutInv, OutTypes
  <2> QED BY <2>1, <2>2, <2>3, Zenon
<1> QED BY <1>1, <1>2, <1>3, <1>4, <1>5, Zenon DEF OutInv

LEMMA Killed ==
    ASSUME OutInv, NEW i \in DOMAIN links, links' = [links EXCEPT ![i].alive = FALSE]
    PROVE  /\ DOMAIN links' = DOMAIN links /\ links' \in [1..Count -> LinkRecord] /\ LinksKept
           /\ \A j \in DOMAIN links : links'[j].active = links[j].active
           /\ ~links'[i].alive
<1> DEFINE r == [links[i] EXCEPT !.alive = FALSE]
<1>1. links[i] \in LinkRecord /\ DOMAIN links = 1..Count /\ links \in [1..Count -> LinkRecord]
  BY Zenon DEF OutInv, OutTypes
<1>2. r \in LinkRecord /\ ~r.alive /\ r.kind = links[i].kind /\ r.active = links[i].active
  BY <1>1, Zenon DEF LinkRecord
<1>3. links' = [links EXCEPT ![i] = r]
  BY Zenon
<1> HIDE DEF r
<1>4. /\ DOMAIN links' = DOMAIN links /\ links' \in [1..Count -> LinkRecord]
      /\ links'[i] = r /\ \A j \in DOMAIN links : j # i => links'[j] = links[j]
  BY <1>1, <1>2, <1>3, Zenon
<1> QED BY <1>2, <1>4, Zenon DEF LinksKept

LEMMA SameLinks ==
    ASSUME OutInv, UNCHANGED links
    PROVE  /\ DOMAIN links' = DOMAIN links /\ links' \in [1..Count -> LinkRecord] /\ LinksKept
           /\ \A j \in DOMAIN links : links'[j].active = links[j].active
BY Zenon DEF OutInv, OutTypes, LinksKept

LEMMA LinkStepInv ==
    ASSUME OutInv, NEW i \in DOMAIN links, LinkStep(i), UNCHANGED vars PROVE OutInv'
<1>1. UNCHANGED <<dial, holder, options, network, slot, stopped>> /\ network \in Nat /\ pool' \subseteq pool
  BY Zenon DEF LinkStep, DriverEnds, PingTimesOut, Dies, vars, OutInv, OutTypes
<1>2. links' = links \/ links' = [links EXCEPT ![i].alive = FALSE]
  BY Zenon DEF LinkStep, DriverEnds, PingTimesOut, Dies
<1>3. /\ DOMAIN links' = DOMAIN links /\ links' \in [1..Count -> LinkRecord] /\ LinksKept
      /\ \A j \in DOMAIN links : links'[j].active = links[j].active
  BY <1>2, Killed, SameLinks, Zenon
<1> QED BY <1>1, <1>3, StillInv, Zenon

LEMMA TakeSlotInv == ASSUME OutInv, TakeSlot, UNCHANGED vars PROVE OutInv'
<1>1. UNCHANGED <<dial, holder, options, network, pool, stopped>> /\ network \in Nat
  BY Zenon DEF TakeSlot, vars, OutInv, OutTypes
<1>2. CASE holder["hysteria2"] = None /\ slot # None
  <2>1. slot' = None /\ links' = [links EXCEPT ![slot].alive = FALSE] /\ slot \in DOMAIN links
    BY <1>2, Zenon DEF TakeSlot, OutInv, OutTypes
  <2>2. /\ DOMAIN links' = DOMAIN links /\ links' \in [1..Count -> LinkRecord] /\ LinksKept
        /\ \A j \in DOMAIN links : links'[j].active = links[j].active
        /\ ~links'[slot].alive
    BY <2>1, Killed, Zenon
  <2> QED BY <1>1, <1>2, <2>1, <2>2, StillInv, Zenon
<1>3. CASE ~(holder["hysteria2"] = None /\ slot # None)
  BY <1>1, <1>3, SameLinks, StillInv, Zenon DEF TakeSlot
<1> QED BY <1>2, <1>3, Zenon

LEMMA RelayStepInv == ASSUME OutInv, NEW c \in Conns, RelayStep(c) PROVE OutInv'
<1>1. stopped' = stopped
  BY Zenon DEF RelayStep, Check, Enter, Copy, Record, Fail, Eof, Cancel, Watch, End
<1>2. CASE Over(c)'
  <2>1. HolderStep(c)
    BY <1>2, HolderSame, Zenon DEF RelayStep, OutInv
  <2> QED BY <1>1, <1>2, <2>1, DroppedInv, Zenon DEF RelayStep
<1>3. CASE ~Over(c)'
  BY <1>1, <1>3, SameLinks, StillInv, ZenonT(60) DEF RelayStep, outVars, OutInv, OutTypes
<1> QED BY <1>2, <1>3, Zenon

LEMMA DialInv == ASSUME OutInv, NEW c \in Conns, DialStep(c), UNCHANGED vars PROVE OutInv'
BY ConnectInv, LockInv, PickInv, JoinInv, CreateInv, CreatedInv, LockSlotInv, LookSlotInv, BindInv,
   FillInv, OpenTcpInv, AbandonInv DEF DialStep

LEMMA OutInitInv == ASSUME OutInit PROVE OutInv
<1>1. /\ dial = [c \in Conns |-> NoDial] /\ holder = [k \in Kinds |-> None] /\ network = 1
      /\ DOMAIN links = {} /\ links = [i \in {} |-> None] /\ pool = {} /\ slot = None /\ options \in Options
  BY Zenon DEF OutInit
<1>2. NoDial \in DialRecord /\ NoDial.at = "idle" /\ NoDial.kind = None /\ NoDial.link = None
  BY Zenon DEF NoDial, DialRecord
<1>3. Count = 0
  BY <1>1, FS_EmptySet, Zenon DEF Count
<1>4. OutTypes
  <2>1. links \in [1..Count -> LinkRecord] /\ DOMAIN links = 1..Count
    BY <1>1, <1>3
  <2> QED BY <1>1, <1>2, <1>3, <2>1, Zenon DEF OutTypes, WithLink
<1>5. Loads /\ Clients /\ Locks
  BY <1>1, <1>2, Zenon DEF Loads, Clients, OneClient, Locks, Held, Making
<1>6. Limits
  <2>1. Cardinality(pool) = 0 /\ options.maxConnections \in Nat
    BY <1>1, <1>4, OptionsNat, FS_EmptySet, Zenon
  <2>2. \A c \in Conns : ~Creating(dial[c])
    BY <1>1, <1>2, Zenon DEF Creating
  <2>3. Cardinality(pool) <= options.maxConnections
    BY <2>1
  <2> QED BY <1>1, <2>2, <2>3, Zenon DEF Limits
<1> QED BY <1>4, <1>5, <1>6, Zenon DEF OutInv

LEMMA OutNextInv == ASSUME OutInv, [OutNext]_<<vars, outVars>> PROVE OutInv'
<1>1. CASE UNCHANGED <<vars, outVars>>
  BY <1>1, SameLinks, StillInv, Zenon DEF vars, outVars, OutInv, OutTypes
<1>2. CASE \E c \in Conns : DialStep(c) /\ UNCHANGED vars
  BY <1>2, DialInv, Zenon
<1>3. CASE \E i \in DOMAIN links : LinkStep(i) /\ UNCHANGED vars
  BY <1>3, LinkStepInv, Zenon
<1>4. CASE \E c \in Conns : RelayStep(c)
  BY <1>4, RelayStepInv, Zenon
<1>5. CASE \/ \E c \in Conns : CancelNext(c) /\ UNCHANGED outVars
           \/ Tick /\ UNCHANGED outVars
  <2>1. UNCHANGED outVars /\ UNCHANGED stopped
    BY <1>5, Zenon DEF CancelNext, Tick
  <2>2. /\ UNCHANGED <<dial, holder, options, links, pool, slot, network>>
        /\ (stopped => stopped') /\ network' \in Nat
    BY <2>1, Zenon DEF outVars, OutInv, OutTypes
  <2> QED BY <2>2, SameLinks, StillInv, Zenon
<1>6. CASE ResetPool /\ UNCHANGED vars
  BY <1>6, SameLinks, StillInv, Zenon DEF ResetPool, vars, OutInv, OutTypes
<1>7. CASE TakeSlot /\ UNCHANGED vars
  BY <1>7, TakeSlotInv, Zenon
<1>8. CASE Moves
  <2>1. network' \in Nat
    BY <1>8, SMTT(30) DEF Moves, OutInv, OutTypes
  <2> QED BY <1>8, <2>1, SameLinks, StillInv, Zenon DEF Moves, Close
<1>9. CASE Shutdown
  BY <1>9, SameLinks, StillInv, Zenon DEF Shutdown, Stop, OutInv, OutTypes
<1> QED BY <1>1, <1>2, <1>3, <1>4, <1>5, <1>6, <1>7, <1>8, <1>9, ZenonT(60) DEF OutNext

\* However many connections dial at once: the load of a pooled connection is the
\* number of leases on it, and the pool and the connections keep their limits
\* (grpc::connect, Lease::drop and reset_pool).
THEOREM OutboundPoolWithinLimits == OutSpec => []PoolWithinLimits
<1>1. OutInv => PoolWithinLimits
  <2> SUFFICES ASSUME OutInv PROVE PoolWithinLimits
    BY Zenon
  <2>1. \A i \in DOMAIN links :
           links[i].active = Cardinality({c \in Conns : Leased(c) /\ dial[c].link = i})
    BY Zenon DEF OutInv, Loads, On
  <2>2. IF options.maxConnections > 0
        THEN Cardinality(pool) <= options.maxConnections
        ELSE options.maxStreams > 0 => \A i \in DOMAIN links : links[i].active <= options.maxStreams
    BY Zenon DEF OutInv, Limits
  <2> QED BY <2>1, <2>2, Zenon DEF PoolWithinLimits
<1> QED BY <1>1, OutInitInv, OutNextInv, PTL DEF OutSpec

\* However many dials race, time out and meet network changes, a running core
\* has no live Hysteria2 client but the one in the slot (hysteria2_client).
THEOREM OutboundOneClient == OutSpec => []OneClient
<1>1. OutInv => OneClient
  BY Zenon DEF OutInv, Clients, OneClient
<1> QED BY <1>1, OutInitInv, OutNextInv, PTL DEF OutSpec
=============================================================================
