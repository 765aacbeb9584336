------------------------------ MODULE FakeMap ------------------------------
(***************************************************************************)
(* The fake-IP map of the resolver (struct FakeMap and its callers in      *)
(* crates/core/src/dns.rs) and its saved copy (crates/core/src/profile.rs).*)
(* The map is one record, as the struct under its mutex is; each method is *)
(* an operator from a map to a map, and each caller that holds the lock is *)
(* one action.  An address is a family and a number; a range is the number *)
(* of its network address and its size.                                    *)
(***************************************************************************)
EXTENDS Integers, FiniteSets, Sequences, Functions

CONSTANTS
    Name,           \* host names as queries carry them, normalised
    Unsupported,    \* names absolute_name refuses; older versions mapped them
    Families,       \* the address families queried: FALSE is v4, TRUE is v6
    Ranges,         \* configurations: family -> [net, size]
    Capacities,     \* capacities a core may be started with
    CompactFloor    \* the 64 below which the use order is not compacted

ASSUME FakeMapAssumption ==
    /\ Unsupported \subseteq Name
    /\ Families \subseteq BOOLEAN
    /\ Ranges \subseteq [Families -> [net : Nat, size : Nat]]
    /\ Capacities \subseteq Nat \ {0}
    /\ CompactFloor \in Nat

VARIABLES
    map,        \* the FakeMap under its lock
    range,      \* fake-ip-range and fake-ip-range6 of the running core
    capacity,   \* its capacity
    file,       \* the mappings in the saved profile, least recently used first
    saved,      \* Core::saved_profile: {} or {generation last written}
    up          \* the core is running, stopped or failed to start

vars == <<map, range, capacity, file, saved, up>>

Key == [name : Name, v6 : Families]
Address == [v6 : Families, n : Nat]

EmptyMap ==
    [byName |-> [k \in {} |-> 0], byIp |-> [a \in {} |-> 0], order |-> <<>>,
     stamp |-> 0, next |-> [v6 \in Families |-> 2], generation |-> 0]

Put(fn, key, value) ==
    [x \in DOMAIN fn \cup {key} |-> IF x = key THEN value ELSE fn[x]]
Without(fn, keys) == Restrict(fn, DOMAIN fn \ keys)
Least(S) == CHOOSE i \in S : \A j \in S : i <= j
Greatest(S) == CHOOSE i \in S : \A j \in S : i >= j

-----------------------------------------------------------------------------
(***************************************************************************)
(* Methods of FakeMap.                                                     *)
(***************************************************************************)
OrderLimit == 2 * (IF capacity > CompactFloor THEN capacity ELSE CompactFloor)

\* Uses, oldest first: each at the place of as many as are older.
ByStamp(live) ==
    [i \in 1..Cardinality(live) |->
        CHOOSE e \in live : Cardinality({d \in live : d.stamp < e.stamp}) = i - 1]

\* The latest use of every mapping.
Compacted(m) == ByStamp(Range(m.byName))

NextStamp(m) == m.stamp + 1

Used(m, key) == [ip |-> m.byName[key].ip, stamp |-> NextStamp(m)]

Get(m, key) ==
    LET used == [m EXCEPT !.stamp = NextStamp(m),
                          !.byName[key] = Used(m, key),
                          !.order = Append(@, [ip |-> m.byName[key].ip, stamp |-> NextStamp(m)])]
    IN  IF Len(used.order) > OrderLimit THEN [used EXCEPT !.order = Compacted(used)] ELSE used

Changed(m) == m.generation + 1

Insert(m, key, ip) ==
    [m EXCEPT !.stamp = NextStamp(m),
              !.generation = Changed(m),
              !.order = Append(@, [ip |-> ip, stamp |-> NextStamp(m)]),
              !.byIp = Put(@, ip, key.name),
              !.byName = Put(@, key, [ip |-> ip, stamp |-> NextStamp(m)])]

KeyOf(m, ip) == [name |-> m.byIp[ip], v6 |-> ip.v6]

\* Mutant: any use of a mapped address counts, also one that was renewed since.
LatestAny(m, use) == use.ip \in DOMAIN m.byIp

\* The use is the latest of a mapping that still exists.
Latest(m, use) ==
    /\ use.ip \in DOMAIN m.byIp
    /\ KeyOf(m, use.ip) \in DOMAIN m.byName
    /\ m.byName[KeyOf(m, use.ip)].stamp = use.stamp

\* Pops uses until one is the latest of its mapping, and drops that mapping.
Evict(m) ==
    LET latest == {i \in 1..Len(m.order) : Latest(m, m.order[i])}
        i == Least(latest)
        ip == m.order[i].ip
    IN  IF latest = {} THEN [m EXCEPT !.order = <<>>]
        ELSE [m EXCEPT !.order = SubSeq(@, i + 1, Len(@)),
                       !.byName = Without(@, {KeyOf(m, ip)}),
                       !.byIp = Without(@, {ip}),
                       !.generation = Changed(m)]

\* The last usable offset: v4 also leaves out the broadcast address.
LastOffset(v6) ==
    IF v6 THEN range[v6].size - 1
    ELSE IF range[v6].size >= 2 THEN range[v6].size - 2 ELSE 0
Pool(v6) == {[v6 |-> v6, n |-> range[v6].net + o] : o \in 2..LastOffset(v6)}

\* The offset the i-th attempt of allocate tries, wrapping around the pool.
Attempt(m, v6, i) ==
    LET start == IF m.next[v6] > LastOffset(v6) THEN 2 ELSE m.next[v6]
    IN  2 + ((start - 2 + i) % (LastOffset(v6) - 1))
AttemptedIp(m, v6, i) == [v6 |-> v6, n |-> range[v6].net + Attempt(m, v6, i)]

\* Mutant: as many attempts as there are mappings, not one more.
AttemptsFew(m) == 0..(Cardinality(DOMAIN m.byIp) - 1)
Attempts(m) == 0..Cardinality(DOMAIN m.byIp)

\* Mutant: the search always starts at the first address.
AdvancedReset(m, v6, i) == m
Advanced(m, v6, i) == [m EXCEPT !.next[v6] = Attempt(m, v6, i) + 1]

\* Mutant: an address is handed out without looking whether it is mapped.
FreeAttemptsAny(m, v6) == IF LastOffset(v6) < 2 THEN {} ELSE Attempts(m)
FreeAttempts(m, v6) ==
    IF LastOffset(v6) < 2 THEN {}
    ELSE {i \in Attempts(m) : AttemptedIp(m, v6, i) \notin DOMAIN m.byIp}

Room(m) == IF Cardinality(DOMAIN m.byName) >= capacity THEN Evict(m) ELSE m

\* fake_address after the miss: evict at capacity, allocate, insert.
Mapped(m, key) ==
    LET r == Room(m)
        i == Least(FreeAttempts(r, key.v6))
    IN  Insert(Advanced(r, key.v6, i), key, AttemptedIp(r, key.v6, i))

\* allocate gave up: the eviction and the advance remain.
Exhausted(m, key) ==
    LET r == Room(m)
    IN  IF LastOffset(key.v6) < 2 THEN r
        ELSE Advanced(r, key.v6, Cardinality(DOMAIN r.byIp))

-----------------------------------------------------------------------------
(***************************************************************************)
(* The saved copy.                                                         *)
(***************************************************************************)
Export(m) ==
    LET sorted == Compacted(m)
    IN  [i \in 1..Len(sorted) |-> [name |-> m.byIp[sorted[i].ip], ip |-> sorted[i].ip]]

Offset(r, ip) == ip.n - r[ip.v6].net
InPool(r, ip) ==
    /\ ip.n >= r[ip.v6].net
    /\ Offset(r, ip) < r[ip.v6].size
    /\ ~ip.v6 => Offset(r, ip) # r[ip.v6].size - 1

\* Places in the file: in the pool, and with a name that is still supported.
InPoolAt(r) == {i \in 1..Len(file) : InPool(r, file[i].ip)}
SupportedAt(r) == {i \in InPoolAt(r) : file[i].name \notin Unsupported}
KeyAt(i) == [name |-> file[i].name, v6 |-> file[i].ip.v6]

\* One entry makes import_fake fail: a reserved offset, or a duplicate.
ImportFails(r) ==
    \/ \E i \in InPoolAt(r) : Offset(r, file[i].ip) < 2
    \/ \E i, j \in SupportedAt(r) : i # j /\ (file[i].ip = file[j].ip \/ KeyAt(i) = KeyAt(j))

\* Mutant: only the restored addresses are passed over.
AdvancePastRestored(r, v6) ==
    Greatest({2} \cup {Offset(r, file[i].ip) + 1 : i \in {j \in SupportedAt(r) : file[j].ip.v6 = v6}})

\* Addresses advance past everything saved, restored or not.
AdvancePast(r, v6) ==
    Greatest({2} \cup {Offset(r, file[i].ip) + 1 : i \in {j \in InPoolAt(r) : file[j].ip.v6 = v6}})

\* Entries are inserted in the order of the file; past the capacity only the
\* most recent are kept.
StampAt(r, i) == Cardinality({j \in SupportedAt(r) : j <= i})
KeptAt(r, cap) == {i \in SupportedAt(r) : StampAt(r, i) > Cardinality(SupportedAt(r)) - cap}
RestoredNames(r, cap) ==
    [k \in {KeyAt(i) : i \in KeptAt(r, cap)} |->
        LET i == CHOOSE i \in KeptAt(r, cap) : KeyAt(i) = k
        IN  [ip |-> file[i].ip, stamp |-> StampAt(r, i)]]
RestoredIps(r, cap) ==
    [a \in {file[i].ip : i \in KeptAt(r, cap)} |->
        file[CHOOSE i \in KeptAt(r, cap) : file[i].ip = a].name]

Imported(r, cap) ==
    [byName |-> RestoredNames(r, cap),
     byIp |-> RestoredIps(r, cap),
     order |-> ByStamp(Range(RestoredNames(r, cap))),
     stamp |-> Cardinality(SupportedAt(r)),
     next |-> [v6 \in Families |-> AdvancePast(r, v6)],
     generation |-> 0]

-----------------------------------------------------------------------------
(***************************************************************************)
(* Actions.                                                                *)
(***************************************************************************)
\* No profile was saved yet, or an older version saved an unsupported name.
Init ==
    /\ map = EmptyMap
    /\ range \in Ranges
    /\ capacity \in Capacities
    /\ file \in {<<>>} \cup {<<[name |-> u, ip |-> ip]>> :
                              u \in Unsupported, ip \in UNION {Pool(v6) : v6 \in Families}}
    /\ saved = {}
    /\ up = "stopped"

\* A query for a name that is mapped.
Hit(key) ==
    /\ up = "running"
    /\ key \in DOMAIN map.byName
    /\ map' = Get(map, key)
    /\ UNCHANGED <<range, capacity, file, saved, up>>

\* A query for another one: it gets an address, or the answer is SERVFAIL.
Miss(key) ==
    /\ up = "running"
    /\ key.name \notin Unsupported
    /\ key \notin DOMAIN map.byName
    /\ map' = IF FreeAttempts(Room(map), key.v6) # {} THEN Mapped(map, key) ELSE Exhausted(map, key)
    /\ UNCHANGED <<range, capacity, file, saved, up>>

\* save_profile, every few seconds: nothing is written without a change.
Save ==
    /\ up = "running"
    /\ saved # {map.generation}
    /\ file' = Export(map)
    /\ saved' = {map.generation}
    /\ UNCHANGED <<map, range, capacity, up>>

\* The process ends with or without a last save.
Exit ==
    /\ up = "running"
    /\ up' = "stopped"
    /\ map' = EmptyMap
    /\ saved' = {}
    /\ UNCHANGED <<range, capacity, file>>

\* Core::new sets the capacity, load_profile restores the mappings; an error
\* there stops the start.
Start(r, cap) ==
    /\ up = "stopped"
    /\ range' = r
    /\ capacity' = cap
    /\ IF ImportFails(r)
       THEN up' = "failed" /\ map' = EmptyMap
       ELSE up' = "running" /\ map' = Imported(r, cap)
    /\ UNCHANGED <<file, saved>>

Next ==
    \/ \E k \in Key : Hit(k) \/ Miss(k)
    \/ Save
    \/ Exit
    \/ \E r \in Ranges, cap \in Capacities : Start(r, cap)

Spec == Init /\ [][Next]_vars

-----------------------------------------------------------------------------
(***************************************************************************)
(* Properties.                                                             *)
(***************************************************************************)

\* by_name and by_ip are inverse to each other through every insert, eviction,
\* reuse of an address and restore: the address given for a name leads back to
\* that name (original), and to no other one.  A save is skipped only when the
\* file already holds them: the generation moves with every mapping.
MappingsPaired ==
    /\ \A k \in DOMAIN map.byName :
          /\ map.byName[k].ip.v6 = k.v6
          /\ map.byName[k].ip \in DOMAIN map.byIp
          /\ map.byIp[map.byName[k].ip] = k.name
    /\ \A a \in DOMAIN map.byIp :
          /\ KeyOf(map, a) \in DOMAIN map.byName
          /\ map.byName[KeyOf(map, a)].ip = a
    /\ saved = {map.generation} =>
          Range(file) = {[name |-> map.byIp[a], ip |-> a] : a \in DOMAIN map.byIp}

\* allocate gives up ("fake-IP pool exhausted") only when every address of the
\* family's pool is mapped: by_ip.len() + 1 attempts are enough.
AllocationComplete ==
    up = "running" =>
       \A v6 \in Families :
          FreeAttempts(Room(map), v6) = {} => Pool(v6) \subseteq DOMAIN Room(map).byIp

\* Past the capacity "the least recently queried name gives up its mapping": a
\* query drops at most one mapping, and every mapping it keeps was used later.
EvictsLeastRecent ==
    [][up = "running" /\ up' = "running" =>
          \A k \in DOMAIN map.byName \ DOMAIN map'.byName :
             \A j \in DOMAIN map.byName \ {k} :
                /\ j \in DOMAIN map'.byName
                /\ map.byName[k].stamp < map.byName[j].stamp]_vars

\* "changing a range does not stop the core": the profile the program itself
\* saved never makes a later start fail.
StartNeverFails == up # "failed"
=============================================================================
