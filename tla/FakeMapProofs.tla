--------------------------- MODULE FakeMapProofs ----------------------------
(***************************************************************************)
(* The fake-IP map of the resolver (crates/core/src/dns.rs), for any       *)
(* names, ranges and capacities.  The invariant pairs the two tables, and  *)
(* keeps the latest use of every mapping in the use order, which is sorted *)
(* by stamps: whatever stale uses it also holds, the first use evict       *)
(* accepts is the oldest of the latest ones.                               *)
(***************************************************************************)
EXTENDS FakeHistory, FiniteSetTheorems, TLAPS

Use == [ip : Address, stamp : Nat]
FakeRecord ==
    [byName : UNION {[S -> Use] : S \in SUBSET Key}, byIp : UNION {[S -> Name] : S \in SUBSET Address},
     order : Seq(Use), stamp : Nat, next : [Families -> Nat], generation : Nat]

Paired(names, ips) ==
    /\ \A k \in DOMAIN names :
          /\ names[k].ip.v6 = k.v6
          /\ names[k].ip \in DOMAIN ips
          /\ ips[names[k].ip] = k.name
    /\ \A a \in DOMAIN ips :
          /\ [name |-> ips[a], v6 |-> a.v6] \in DOMAIN names
          /\ names[[name |-> ips[a], v6 |-> a.v6]].ip = a

Stamped(names, stamp) ==
    /\ \A k \in DOMAIN names : names[k].stamp <= stamp
    /\ \A k, j \in DOMAIN names : names[k].stamp = names[j].stamp => k = j

Ordered(order, stamp) ==
    /\ \A i \in DOMAIN order : order[i].stamp <= stamp
    /\ \A i, j \in DOMAIN order : i < j => order[i].stamp < order[j].stamp

Holds(order, e) == \E i \in DOMAIN order : order[i] = e
Recorded(names, order) == \A k \in DOMAIN names : \E i \in DOMAIN order : order[i] = names[k]

MapOK(m) ==
    /\ m \in FakeRecord
    /\ IsFiniteSet(DOMAIN m.byName) /\ IsFiniteSet(DOMAIN m.byIp)
    /\ Paired(m.byName, m.byIp)
    /\ Stamped(m.byName, m.stamp)
    /\ Ordered(m.order, m.stamp)
    /\ Recorded(m.byName, m.order)
    /\ \A v6 \in Families : m.next[v6] >= 2

Entry == [name : Name, ip : Address]
Entries(ips) == {[name |-> ips[a], ip |-> a] : a \in DOMAIN ips}

FakeInv ==
    /\ MapOK(map)
    /\ range \in Ranges /\ capacity \in Capacities
    /\ file \in Seq(Entry)
    /\ up # "running" => saved = {}
    /\ \A g \in saved : g \in Nat /\ g <= map.generation
    /\ saved = {map.generation} => Range(file) = Entries(map.byIp)

LEMMA LeastNatural ==
    ASSUME NEW S \in SUBSET Nat, S # {} PROVE Least(S) \in S /\ \A j \in S : Least(S) <= j
<1> DEFINE R == {ss \in Nat \X Nat : ss[1] < ss[2]}
<1>1. \A x, y \in Nat : <<y, x>> \notin R => x <= y
  OBVIOUS
<1>2. IsWellFoundedOn(R, Nat)
  BY NatLessThanWellFounded, Zenon DEF OpToRel
<1> HIDE DEF R
<1>3. \E x \in S : \A y \in S : ~(<<y, x>> \in R)
  BY <1>2, WFMin, Zenon
<1>4. \E x \in S : \A y \in S : x <= y
  BY <1>1, <1>3, Zenon
<1> QED BY <1>4, Zenon DEF Least

LEMMA GreatestNatural ==
    ASSUME NEW S \in SUBSET Nat, S # {}, NEW bound \in Nat, \A j \in S : j <= bound
    PROVE Greatest(S) \in S /\ \A j \in S : Greatest(S) >= j
<1> DEFINE T == {bound - j : j \in S}
<1>1. T \in SUBSET Nat /\ T # {}
  <2>1. \A j \in S : bound - j \in Nat
    OBVIOUS
  <2> QED BY <2>1, Zenon
<1>2. Least(T) \in T /\ \A j \in T : Least(T) <= j
  BY <1>1, LeastNatural, Zenon
<1>3. PICK x \in S : Least(T) = bound - x
  BY <1>2, Zenon
<1>4. \A j \in S : bound - x <= bound - j
  BY <1>2, <1>3, Zenon
<1>5. \A j \in S : x >= j
  BY <1>4
<1> QED BY <1>5, Zenon DEF Greatest

\* Sorting uses by their stamps (sort_by_key on distinct stamps).
LEMMA ByStampSorts ==
    ASSUME NEW live \in SUBSET Use, IsFiniteSet(live), \A d, e \in live : d.stamp = e.stamp => d = e
    PROVE /\ ByStamp(live) \in Seq(live)
          /\ \A e \in live : \E i \in DOMAIN ByStamp(live) : ByStamp(live)[i] = e
          /\ \A i, j \in DOMAIN ByStamp(live) : i < j => ByStamp(live)[i].stamp < ByStamp(live)[j].stamp
<1> DEFINE older(e) == {d \in live : d.stamp < e.stamp}
           n == Cardinality(live)
           rank == [e \in live |-> Cardinality(older(e))]
<1>1. n \in Nat /\ \A e \in live : e.stamp \in Nat
  BY FS_CardinalityType, Zenon DEF Use
<1>2. ASSUME NEW e \in live PROVE IsFiniteSet(older(e)) /\ Cardinality(older(e)) \in Nat /\ Cardinality(older(e)) < n
  <2>1. IsFiniteSet(live \ {e}) /\ Cardinality(live \ {e}) = n - 1
    BY FS_RemoveElement, Zenon
  <2>2. older(e) \in SUBSET (live \ {e})
    BY <1>1
  <2>3. IsFiniteSet(older(e)) /\ Cardinality(older(e)) <= n - 1
    BY <2>1, <2>2, FS_Subset
  <2>4. Cardinality(older(e)) \in Nat
    BY <2>3, FS_CardinalityType, Zenon
  <2> QED BY <1>1, <2>3, <2>4
<1>3. ASSUME NEW d \in live, NEW e \in live, d.stamp < e.stamp PROVE rank[d] < rank[e]
  <2>1. d \in older(e) /\ older(d) \in SUBSET (older(e) \ {d})
    BY <1>1, <1>3
  <2>2. IsFiniteSet(older(e) \ {d}) /\ Cardinality(older(e) \ {d}) = Cardinality(older(e)) - 1
    BY <1>2, <2>1, FS_RemoveElement, Zenon
  <2>3. Cardinality(older(d)) <= Cardinality(older(e)) - 1
    BY <2>1, <2>2, FS_Subset
  <2>4. Cardinality(older(d)) \in Nat /\ Cardinality(older(e)) \in Nat
    BY <1>2, Zenon
  <2>5. Cardinality(older(d)) < Cardinality(older(e))
    BY <2>3, <2>4
  <2> QED BY <2>5, Zenon
<1>4. rank \in [live -> 0..(n - 1)]
  <2>1. ASSUME NEW e \in live PROVE Cardinality(older(e)) \in 0..(n - 1)
    <3>1. Cardinality(older(e)) \in Nat /\ Cardinality(older(e)) < n
      BY <1>2, Zenon
    <3> HIDE DEF older, n
    <3> QED BY <1>1, <3>1
  <2> QED BY <2>1, Zenon
<1>5. \A d, e \in live : rank[d] = rank[e] => d = e
  <2> SUFFICES ASSUME NEW d \in live, NEW e \in live, d # e PROVE rank[d] # rank[e]
    BY Zenon
  <2>1. d.stamp < e.stamp \/ e.stamp < d.stamp
    BY <1>1
  <2>2. rank[d] < rank[e] \/ rank[e] < rank[d]
    BY <1>3, <2>1, Zenon
  <2> HIDE DEF rank
  <2>3. rank[d] \in 0..(n - 1) /\ rank[e] \in 0..(n - 1)
    BY <1>4, Zenon
  <2> QED BY <1>1, <2>2, <2>3
<1> HIDE DEF rank
<1>6. rank \in Injection(live, 0..(n - 1))
  BY <1>4, <1>5, Zenon DEF Injection, IsInjective
<1>7. IsFiniteSet(0..(n - 1)) /\ Cardinality(0..(n - 1)) = n
  BY <1>1, FS_Interval
<1>8. rank \in Surjection(live, 0..(n - 1))
  BY <1>6, <1>7, FS_Injection, Zenon
<1>9. ASSUME NEW i \in 1..n PROVE ByStamp(live)[i] \in live /\ rank[ByStamp(live)[i]] = i - 1
  <2>1. i - 1 \in 0..(n - 1)
    BY <1>1
  <2>2. \E e \in live : rank[e] = i - 1
    BY <1>8, <2>1, Zenon DEF Surjection
  <2>3. \E e \in live : Cardinality({d \in live : d.stamp < e.stamp}) = i - 1
    BY <2>2, Zenon DEF rank
  <2>4. ByStamp(live)[i] = CHOOSE e \in live : Cardinality({d \in live : d.stamp < e.stamp}) = i - 1
    BY Zenon DEF ByStamp
  <2>5. ByStamp(live)[i] \in live /\ Cardinality({d \in live : d.stamp < ByStamp(live)[i].stamp}) = i - 1
    BY <2>3, <2>4, Zenon
  <2> QED BY <2>5, Zenon DEF rank
<1>10. DOMAIN ByStamp(live) = 1..n
  BY Zenon DEF ByStamp
<1>11. ByStamp(live) \in Seq(live)
  <2>1. ByStamp(live) \in [1..n -> live]
    BY <1>9, <1>10, Zenon DEF ByStamp
  <2> QED BY <1>1, <2>1
<1>12. ASSUME NEW e \in live PROVE \E i \in DOMAIN ByStamp(live) : ByStamp(live)[i] = e
  <2>1. rank[e] \in 0..(n - 1) /\ rank[e] + 1 \in 1..n /\ (rank[e] + 1) - 1 = rank[e]
    BY <1>1, <1>4
  <2>2. ByStamp(live)[rank[e] + 1] \in live /\ rank[ByStamp(live)[rank[e] + 1]] = rank[e]
    BY <1>9, <2>1, Zenon
  <2>3. ByStamp(live)[rank[e] + 1] = e
    BY <1>5, <2>2, Zenon
  <2> QED BY <1>10, <2>1, <2>3, Zenon
<1>13. ASSUME NEW i \in 1..n, NEW j \in 1..n, i < j PROVE ByStamp(live)[i].stamp < ByStamp(live)[j].stamp
  <2> DEFINE d == ByStamp(live)[i]
             e == ByStamp(live)[j]
  <2>1. d \in live /\ e \in live /\ rank[d] = i - 1 /\ rank[e] = j - 1
    BY <1>9, Zenon
  <2> HIDE DEF d, e
  <2>2. d # e /\ ~(rank[e] < rank[d])
    BY <1>13, <2>1
  <2>3. ~(e.stamp < d.stamp)
    BY <1>3, <2>1, <2>2, Zenon
  <2>4. d.stamp # e.stamp
    BY <2>1, <2>2, Zenon
  <2>5. d.stamp < e.stamp
    BY <1>1, <2>1, <2>3, <2>4
  <2> QED BY <2>5, Zenon DEF d, e
<1> QED BY <1>10, <1>11, <1>12, <1>13, Zenon

-----------------------------------------------------------------------------
LEMMA NamesType ==
    ASSUME NEW f, f \in UNION {[S -> Use] : S \in SUBSET Key}
    PROVE f = [k \in DOMAIN f |-> f[k]] /\ DOMAIN f \in SUBSET Key /\ \A k \in DOMAIN f : f[k] \in Use
BY Zenon

LEMMA IpsType ==
    ASSUME NEW f, f \in UNION {[S -> Name] : S \in SUBSET Address}
    PROVE f = [a \in DOMAIN f |-> f[a]] /\ DOMAIN f \in SUBSET Address /\ \A a \in DOMAIN f : f[a] \in Name
BY Zenon

LEMMA AreNames ==
    ASSUME NEW f, NEW D \in SUBSET Key, f \in [D -> Use] PROVE f \in UNION {[S -> Use] : S \in SUBSET Key}
BY Zenon

LEMMA AreIps ==
    ASSUME NEW f, NEW D \in SUBSET Address, f \in [D -> Name] PROVE f \in UNION {[S -> Name] : S \in SUBSET Address}
BY Zenon

\* What the parts of a map are.
LEMMA MapParts ==
    ASSUME NEW m, MapOK(m)
    PROVE /\ DOMAIN m = {"byName", "byIp", "order", "stamp", "next", "generation"} /\ m = [f \in DOMAIN m |-> m[f]]
          /\ DOMAIN m.byName \in SUBSET Key /\ m.byName \in [DOMAIN m.byName -> Use]
          /\ DOMAIN m.byIp \in SUBSET Address /\ m.byIp \in [DOMAIN m.byIp -> Name]
          /\ m.order \in Seq(Use) /\ m.stamp \in Nat /\ m.next \in [Families -> Nat] /\ m.generation \in Nat
<1>1. m \in FakeRecord
  BY Zenon DEF MapOK
<1>2. /\ DOMAIN m = {"byName", "byIp", "order", "stamp", "next", "generation"} /\ m = [f \in DOMAIN m |-> m[f]]
      /\ m.byName \in UNION {[S -> Use] : S \in SUBSET Key} /\ m.byIp \in UNION {[S -> Name] : S \in SUBSET Address}
      /\ m.order \in Seq(Use) /\ m.stamp \in Nat /\ m.next \in [Families -> Nat] /\ m.generation \in Nat
  BY <1>1, Zenon DEF FakeRecord
<1> QED BY <1>2, NamesType, IpsType, Zenon

LEMMA IsRecord ==
    ASSUME NEW m, DOMAIN m = {"byName", "byIp", "order", "stamp", "next", "generation"}, m = [f \in DOMAIN m |-> m[f]],
           m.order \in Seq(Use), m.stamp \in Nat, m.next \in [Families -> Nat], m.generation \in Nat,
           DOMAIN m.byName \in SUBSET Key, m.byName \in [DOMAIN m.byName -> Use],
           DOMAIN m.byIp \in SUBSET Address, m.byIp \in [DOMAIN m.byIp -> Name]
    PROVE m \in FakeRecord
<1>1. m.byName \in UNION {[S -> Use] : S \in SUBSET Key} /\ m.byIp \in UNION {[S -> Name] : S \in SUBSET Address}
  BY AreNames, AreIps, Zenon
<1> QED BY <1>1, Zenon DEF FakeRecord

\* The latest uses of all mappings, sorted: one mapping per key, one stamp per use.
LEMMA SortedUses ==
    ASSUME NEW names, names \in [DOMAIN names -> Use], IsFiniteSet(DOMAIN names), NEW stamp, Stamped(names, stamp)
    PROVE LET s == ByStamp(Range(names))
          IN  s \in Seq(Use) /\ Ordered(s, stamp) /\ Recorded(names, s) /\ \A i \in DOMAIN s : s[i] \in Range(names)
<1> DEFINE live == Range(names)
           s == ByStamp(live)
<1>1. names \in Surjection(DOMAIN names, live)
  BY Zenon DEF Surjection, Range
<1>2. IsFiniteSet(live)
  BY <1>1, FS_Surjection, Zenon
<1>3. live \in SUBSET Use /\ \A d, e \in live : d.stamp = e.stamp => d = e
  BY Zenon DEF Stamped, Range
<1>4. \A k \in DOMAIN names : names[k] \in live
  BY Zenon DEF Range
<1>5. \A e \in live : e.stamp <= stamp
  BY Zenon DEF Range, Stamped
<1> HIDE DEF live
<1>6. /\ s \in Seq(live) /\ \A e \in live : \E i \in DOMAIN s : s[i] = e
      /\ \A i, j \in DOMAIN s : i < j => s[i].stamp < s[j].stamp
  BY <1>2, <1>3, ByStampSorts, Zenon
<1> HIDE DEF s
<1>7. \A i \in DOMAIN s : s[i] \in live
  BY <1>6
<1>8. s \in Seq(Use)
  BY <1>3, <1>6
<1>9. Ordered(s, stamp) /\ Recorded(names, s)
  BY <1>4, <1>5, <1>6, <1>7, Zenon DEF Ordered, Recorded
<1> QED BY <1>7, <1>8, <1>9, Zenon DEF s, live

\* What compact leaves in the use order.
LEMMA CompactedOrder ==
    ASSUME NEW m, MapOK(m)
    PROVE Compacted(m) \in Seq(Use) /\ Ordered(Compacted(m), m.stamp) /\ Recorded(m.byName, Compacted(m))
          /\ \A i \in DOMAIN Compacted(m) : Compacted(m)[i] \in Range(m.byName)
<1>1. m.byName \in [DOMAIN m.byName -> Use]
  BY MapParts, Zenon
<1>2. IsFiniteSet(DOMAIN m.byName) /\ Stamped(m.byName, m.stamp)
  BY Zenon DEF MapOK
<1> QED BY <1>1, <1>2, SortedUses, Zenon DEF Compacted

\* A new use goes to the end of the use order.
LEMMA OrderAppend ==
    ASSUME NEW order \in Seq(Use), NEW stamp \in Nat, Ordered(order, stamp), NEW use \in Use, use.stamp = stamp + 1
    PROVE /\ Append(order, use) \in Seq(Use) /\ Ordered(Append(order, use), stamp + 1)
          /\ Holds(Append(order, use), use)
          /\ \A e : Holds(order, e) => Holds(Append(order, use), e)
<1> DEFINE more == Append(order, use)
<1>1. /\ more \in Seq(Use) /\ DOMAIN more = DOMAIN order \cup {Len(order) + 1} /\ DOMAIN order = 1..Len(order) /\ Len(order) \in Nat
      /\ more[Len(order) + 1] = use /\ \A i \in DOMAIN order : more[i] = order[i]
  OBVIOUS
<1> HIDE DEF more
<1>2. \A i \in DOMAIN order : order[i].stamp \in Nat /\ order[i].stamp <= stamp
  <2>1. \A i \in DOMAIN order : order[i] \in Use
    OBVIOUS
  <2> QED BY <2>1, Zenon DEF Ordered, Use
<1>3. \A i \in DOMAIN more : more[i].stamp <= stamp + 1
  BY <1>1, <1>2
<1>4. ASSUME NEW i \in DOMAIN more, NEW j \in DOMAIN more, i < j PROVE more[i].stamp < more[j].stamp
  <2>1. i \in DOMAIN order
    BY <1>1, <1>4
  <2>2. CASE j \in DOMAIN order
    BY <1>1, <1>4, <2>1, <2>2, Zenon DEF Ordered
  <2>3. CASE j = Len(order) + 1
    BY <1>1, <1>2, <2>1, <2>3
  <2> QED BY <1>1, <2>2, <2>3, Zenon
<1>5. Ordered(more, stamp + 1)
  BY <1>3, <1>4, Zenon DEF Ordered
<1>6. Holds(more, use)
  BY <1>1, Zenon DEF Holds
<1>7. \A e : Holds(order, e) => Holds(more, e)
  BY <1>1, Zenon DEF Holds
<1> QED BY <1>1, <1>5, <1>6, <1>7, Zenon DEF more

\* FakeMap::get on a mapped name: no mapping changes.
LEMMA GetKeeps ==
    ASSUME NEW m, MapOK(m), NEW key \in DOMAIN m.byName
    PROVE /\ MapOK(Get(m, key)) /\ DOMAIN Get(m, key).byName = DOMAIN m.byName
          /\ Get(m, key).byIp = m.byIp /\ Get(m, key).generation = m.generation
<1> DEFINE use == [ip |-> m.byName[key].ip, stamp |-> m.stamp + 1]
           names == [m.byName EXCEPT ![key] = use]
           order == Append(m.order, use)
           used == [m EXCEPT !.stamp = NextStamp(m), !.byName[key] = Used(m, key),
                             !.order = Append(@, [ip |-> m.byName[key].ip, stamp |-> NextStamp(m)])]
<1>1. /\ DOMAIN m = {"byName", "byIp", "order", "stamp", "next", "generation"} /\ m = [f \in DOMAIN m |-> m[f]]
      /\ DOMAIN m.byName \in SUBSET Key /\ m.byName \in [DOMAIN m.byName -> Use]
      /\ DOMAIN m.byIp \in SUBSET Address /\ m.byIp \in [DOMAIN m.byIp -> Name]
      /\ m.order \in Seq(Use) /\ m.stamp \in Nat /\ m.next \in [Families -> Nat] /\ m.generation \in Nat
  BY MapParts, Zenon
<1>2. use \in Use /\ use.stamp = m.stamp + 1 /\ use.ip = m.byName[key].ip
  BY <1>1 DEF Use
<1>3. Get(m, key) = IF Len(used.order) > OrderLimit THEN [used EXCEPT !.order = Compacted(used)] ELSE used
  BY Zenon DEF Get
<1>14. /\ used.byName = names /\ used.byIp = m.byIp /\ used.order = order /\ used.stamp = m.stamp + 1
       /\ used.next = m.next /\ used.generation = m.generation
       /\ DOMAIN used = {"byName", "byIp", "order", "stamp", "next", "generation"} /\ used = [f \in DOMAIN used |-> used[f]]
  BY <1>1, Zenon DEF NextStamp, Used
<1> HIDE DEF used
<1> HIDE DEF use
<1>4. /\ DOMAIN names = DOMAIN m.byName /\ names \in [DOMAIN m.byName -> Use] /\ names[key] = use
      /\ \A k \in DOMAIN m.byName \ {key} : names[k] = m.byName[k]
  BY <1>1, <1>2, Zenon
<1> HIDE DEF names
<1>5. \A k \in DOMAIN m.byName : names[k].ip = m.byName[k].ip
  BY <1>2, <1>4, Zenon
<1>6. Paired(names, m.byIp)
  BY <1>4, <1>5, Zenon DEF MapOK, Paired
<1>7. Stamped(names, m.stamp + 1)
  <2>1. \A k \in DOMAIN m.byName : m.byName[k].stamp \in Nat /\ m.byName[k].stamp <= m.stamp
    BY <1>1, Zenon DEF MapOK, Stamped, Use
  <2>2. \A k \in DOMAIN m.byName \ {key} : names[k].stamp \in Nat /\ names[k].stamp <= m.stamp
    BY <1>4, <2>1, Zenon
  <2>3. names[key].stamp = m.stamp + 1
    BY <1>2, <1>4, Zenon
  <2>4. \A k \in DOMAIN m.byName : names[k].stamp <= m.stamp + 1
    BY <1>1, <2>2, <2>3
  <2>5. \A k, j \in DOMAIN m.byName \ {key} : names[k].stamp = names[j].stamp => k = j
    BY <1>4, Zenon DEF MapOK, Stamped
  <2>6. \A k \in DOMAIN m.byName \ {key} : names[k].stamp # names[key].stamp
    BY <1>1, <2>2, <2>3
  <2> QED BY <1>4, <2>4, <2>5, <2>6, Zenon DEF Stamped
<1>8. order \in Seq(Use) /\ Ordered(order, m.stamp + 1) /\ Recorded(names, order)
  <2>1. /\ order \in Seq(Use) /\ Ordered(order, m.stamp + 1) /\ Holds(order, use)
        /\ \A e : Holds(m.order, e) => Holds(order, e)
    <3>1. Ordered(m.order, m.stamp)
      BY Zenon DEF MapOK
    <3>2. m.order \in Seq(Use) /\ m.stamp \in Nat
      BY <1>1, Zenon
    <3>3. use \in Use /\ use.stamp = m.stamp + 1
      BY <1>2, Zenon
    <3> QED BY <3>1, <3>2, <3>3, OrderAppend, Zenon
  <2> HIDE DEF order
  <2>2. \A k \in DOMAIN m.byName : Holds(m.order, m.byName[k])
    BY Zenon DEF MapOK, Recorded, Holds
  <2>3. \A k \in DOMAIN names : Holds(order, names[k])
    BY <1>4, <2>1, <2>2, Zenon
  <2> QED BY <2>1, <2>3, Zenon DEF Recorded, Holds
<1> HIDE DEF order
<1>9. used \in FakeRecord
  <2>1. /\ used.order \in Seq(Use) /\ used.stamp \in Nat /\ used.next \in [Families -> Nat] /\ used.generation \in Nat
        /\ DOMAIN used.byName \in SUBSET Key /\ used.byName \in [DOMAIN used.byName -> Use]
        /\ DOMAIN used.byIp \in SUBSET Address /\ used.byIp \in [DOMAIN used.byIp -> Name]
    BY <1>1, <1>4, <1>8, <1>14
  <2> QED BY <1>14, <2>1, IsRecord, Zenon
<1>10. MapOK(used)
  BY <1>4, <1>6, <1>7, <1>8, <1>9, <1>14, Zenon DEF MapOK
<1>12. CASE Len(used.order) > OrderLimit
  <2> DEFINE less == [used EXCEPT !.order = Compacted(used)]
  <2>1. /\ less.byName = names /\ less.byIp = m.byIp /\ less.order = Compacted(used) /\ less.stamp = m.stamp + 1
        /\ less.next = m.next /\ less.generation = m.generation
        /\ DOMAIN less = {"byName", "byIp", "order", "stamp", "next", "generation"} /\ less = [f \in DOMAIN less |-> less[f]]
    BY <1>14, Zenon
  <2> HIDE DEF less
  <2>2. Compacted(used) \in Seq(Use) /\ Ordered(Compacted(used), m.stamp + 1) /\ Recorded(names, Compacted(used))
    BY <1>10, <1>14, CompactedOrder, Zenon
  <2>3. less \in FakeRecord
    <3>1. /\ less.order \in Seq(Use) /\ less.stamp \in Nat /\ less.next \in [Families -> Nat] /\ less.generation \in Nat
          /\ DOMAIN less.byName \in SUBSET Key /\ less.byName \in [DOMAIN less.byName -> Use]
          /\ DOMAIN less.byIp \in SUBSET Address /\ less.byIp \in [DOMAIN less.byIp -> Name]
      BY <1>1, <1>4, <2>1, <2>2
    <3> QED BY <2>1, <3>1, IsRecord, Zenon
  <2>4. MapOK(less)
    BY <1>4, <1>6, <1>7, <2>1, <2>2, <2>3, Zenon DEF MapOK
  <2> QED BY <1>3, <1>4, <1>12, <2>1, <2>4, Zenon DEF less
<1>13. CASE ~(Len(used.order) > OrderLimit)
  BY <1>3, <1>4, <1>10, <1>13, <1>14, Zenon
<1> QED BY <1>12, <1>13, Zenon

\* FakeMap::insert of a name that is not mapped to an address that is not.
LEMMA InsertKeeps ==
    ASSUME NEW m, MapOK(m), NEW key \in Key, key \notin DOMAIN m.byName, NEW ip \in Address, ip \notin DOMAIN m.byIp, ip.v6 = key.v6
    PROVE /\ MapOK(Insert(m, key, ip)) /\ DOMAIN Insert(m, key, ip).byName = DOMAIN m.byName \cup {key}
          /\ Insert(m, key, ip).generation = m.generation + 1
          /\ Insert(m, key, ip).byName[key].ip = ip /\ Insert(m, key, ip).next = m.next
          /\ Insert(m, key, ip).byIp = Put(m.byIp, ip, key.name)
<1> DEFINE use == [ip |-> ip, stamp |-> m.stamp + 1]
           names == Put(m.byName, key, use)
           ips == Put(m.byIp, ip, key.name)
           order == Append(m.order, use)
           more == Insert(m, key, ip)
<1>1. /\ DOMAIN m = {"byName", "byIp", "order", "stamp", "next", "generation"} /\ m = [f \in DOMAIN m |-> m[f]]
      /\ DOMAIN m.byName \in SUBSET Key /\ m.byName \in [DOMAIN m.byName -> Use]
      /\ DOMAIN m.byIp \in SUBSET Address /\ m.byIp \in [DOMAIN m.byIp -> Name]
      /\ m.order \in Seq(Use) /\ m.stamp \in Nat /\ m.next \in [Families -> Nat] /\ m.generation \in Nat
  BY MapParts, Zenon
<1>2. use \in Use /\ use.stamp = m.stamp + 1 /\ use.ip = ip
  BY <1>1 DEF Use
<1>3. /\ more.byName = names /\ more.byIp = ips /\ more.order = order /\ more.stamp = m.stamp + 1
      /\ more.next = m.next /\ more.generation = m.generation + 1
      /\ DOMAIN more = {"byName", "byIp", "order", "stamp", "next", "generation"} /\ more = [f \in DOMAIN more |-> more[f]]
  BY <1>1, Zenon DEF Insert, NextStamp, Changed
<1> HIDE DEF use, more
<1>4. /\ DOMAIN names = DOMAIN m.byName \cup {key} /\ names \in [DOMAIN names -> Use] /\ names[key] = use
      /\ \A k \in DOMAIN m.byName : names[k] = m.byName[k]
  BY <1>1, <1>2, Zenon DEF Put
<1>5. /\ DOMAIN ips = DOMAIN m.byIp \cup {ip} /\ ips \in [DOMAIN ips -> Name] /\ ips[ip] = key.name
      /\ \A a \in DOMAIN m.byIp : ips[a] = m.byIp[a]
  BY <1>1, Zenon DEF Put, Key
<1> HIDE DEF names, ips
<1>6. IsFiniteSet(DOMAIN names) /\ IsFiniteSet(DOMAIN ips)
  BY <1>4, <1>5, FS_AddElement DEF MapOK
<1>7. Paired(names, ips)
  <2>1. \A k \in DOMAIN names : names[k].ip.v6 = k.v6 /\ names[k].ip \in DOMAIN ips /\ ips[names[k].ip] = k.name
    BY <1>2, <1>4, <1>5 DEF MapOK, Paired
  <2>2. [name |-> key.name, v6 |-> key.v6] = key
    BY Zenon DEF Key
  <2>3. \A a \in DOMAIN ips : [name |-> ips[a], v6 |-> a.v6] \in DOMAIN names /\ names[[name |-> ips[a], v6 |-> a.v6]].ip = a
    BY <1>2, <1>4, <1>5, <2>2 DEF MapOK, Paired
  <2> QED BY <2>1, <2>3, Zenon DEF Paired
<1>8. Stamped(names, m.stamp + 1)
  <2>1. \A k \in DOMAIN m.byName : m.byName[k].stamp \in Nat /\ m.byName[k].stamp <= m.stamp
    BY <1>1, Zenon DEF MapOK, Stamped, Use
  <2> QED BY <1>1, <1>2, <1>4, <2>1 DEF MapOK, Stamped
<1>9. order \in Seq(Use) /\ Ordered(order, m.stamp + 1) /\ Recorded(names, order)
  <2>1. /\ order \in Seq(Use) /\ Ordered(order, m.stamp + 1) /\ Holds(order, use)
        /\ \A e : Holds(m.order, e) => Holds(order, e)
    <3>1. Ordered(m.order, m.stamp)
      BY Zenon DEF MapOK
    <3>2. m.order \in Seq(Use) /\ m.stamp \in Nat
      BY <1>1, Zenon
    <3>3. use \in Use /\ use.stamp = m.stamp + 1
      BY <1>2, Zenon
    <3> QED BY <3>1, <3>2, <3>3, OrderAppend, Zenon
  <2> HIDE DEF order
  <2>2. \A k \in DOMAIN m.byName : Holds(m.order, m.byName[k])
    BY Zenon DEF MapOK, Recorded, Holds
  <2>3. \A k \in DOMAIN names : Holds(order, names[k])
    BY <1>4, <2>1, <2>2, Zenon
  <2> QED BY <2>1, <2>3, Zenon DEF Recorded, Holds
<1> HIDE DEF order
<1>10. more \in FakeRecord
  BY <1>1, <1>3, <1>4, <1>5, <1>9, IsRecord
<1>11. MapOK(more)
  BY <1>3, <1>6, <1>7, <1>8, <1>9, <1>10, Zenon DEF MapOK
<1>12. ips = Put(m.byIp, ip, key.name)
  BY Zenon DEF ips
<1> QED BY <1>2, <1>3, <1>4, <1>11, <1>12, Zenon DEF more

\* FakeMap::evict: the mapping it drops was used before every other one.
LEMMA EvictKeeps ==
    ASSUME NEW m, MapOK(m)
    PROVE /\ MapOK(Evict(m)) /\ Evict(m).next = m.next
          /\ \/ /\ Evict(m).byName = m.byName /\ Evict(m).byIp = m.byIp /\ Evict(m).generation = m.generation
                /\ DOMAIN m.byName = {}
             \/ /\ Evict(m).generation = m.generation + 1
                /\ \E k \in DOMAIN m.byName :
                      /\ DOMAIN Evict(m).byName = DOMAIN m.byName \ {k}
                      /\ \A j \in DOMAIN m.byName \ {k} : m.byName[k].stamp < m.byName[j].stamp
<1> DEFINE latest == {i \in 1..Len(m.order) : Latest(m, m.order[i])}
           f == Least(latest)
           ip == m.order[f].ip
           key == KeyOf(m, ip)
           less == Evict(m)
<1>1. /\ DOMAIN m = {"byName", "byIp", "order", "stamp", "next", "generation"} /\ m = [g \in DOMAIN m |-> m[g]]
      /\ DOMAIN m.byName \in SUBSET Key /\ m.byName \in [DOMAIN m.byName -> Use]
      /\ DOMAIN m.byIp \in SUBSET Address /\ m.byIp \in [DOMAIN m.byIp -> Name]
      /\ m.order \in Seq(Use) /\ m.stamp \in Nat /\ m.next \in [Families -> Nat] /\ m.generation \in Nat
      /\ DOMAIN m.order = 1..Len(m.order) /\ Len(m.order) \in Nat
  BY MapParts
<1>2. ASSUME NEW k \in DOMAIN m.byName
      PROVE KeyOf(m, m.byName[k].ip) = k /\ \E i \in latest : m.order[i] = m.byName[k]
  <2>1. m.byName[k].ip \in DOMAIN m.byIp /\ m.byIp[m.byName[k].ip] = k.name /\ m.byName[k].ip.v6 = k.v6
    BY Zenon DEF MapOK, Paired
  <2>2. KeyOf(m, m.byName[k].ip) = k
    BY <1>1, <2>1, Zenon DEF KeyOf, Key
  <2>3. PICK i \in DOMAIN m.order : m.order[i] = m.byName[k]
    BY Zenon DEF MapOK, Recorded
  <2>4. Latest(m, m.order[i])
    BY <2>1, <2>2, <2>3, Zenon DEF Latest
  <2> QED BY <1>1, <2>2, <2>3, <2>4, Zenon
<1>3. CASE latest = {}
  <2>1. Evict(m) = [m EXCEPT !.order = <<>>]
    BY <1>3, Zenon DEF Evict
  <2>2. /\ less.byName = m.byName /\ less.byIp = m.byIp /\ less.order = <<>> /\ less.stamp = m.stamp
        /\ less.next = m.next /\ less.generation = m.generation
        /\ DOMAIN less = {"byName", "byIp", "order", "stamp", "next", "generation"} /\ less = [g \in DOMAIN less |-> less[g]]
    BY <1>1, <2>1, Zenon
  <2>3. DOMAIN m.byName = {}
    BY <1>2, <1>3, Zenon
  <2> HIDE DEF less
  <2>4. less \in FakeRecord
    <3>1. /\ less.order \in Seq(Use) /\ less.stamp \in Nat /\ less.next \in [Families -> Nat] /\ less.generation \in Nat
          /\ DOMAIN less.byName \in SUBSET Key /\ less.byName \in [DOMAIN less.byName -> Use]
          /\ DOMAIN less.byIp \in SUBSET Address /\ less.byIp \in [DOMAIN less.byIp -> Name]
      BY <1>1, <2>2
    <3> QED BY <2>2, <3>1, IsRecord, Zenon
  <2>5. Ordered(less.order, less.stamp) /\ Recorded(less.byName, less.order)
    BY <2>2, <2>3 DEF Ordered, Recorded
  <2>6. MapOK(less)
    BY <2>2, <2>4, <2>5, Zenon DEF MapOK
  <2> QED BY <2>2, <2>3, <2>6, Zenon DEF less
<1>4. CASE latest # {}
  <2> DEFINE rest == SubSeq(m.order, f + 1, Len(m.order))
             names == [k \in DOMAIN m.byName \ {key} |-> m.byName[k]]
             ips == [a \in DOMAIN m.byIp \ {ip} |-> m.byIp[a]]
  <2>1. f \in latest /\ \A j \in latest : f <= j
    <3>1. latest \in SUBSET Nat
      OBVIOUS
    <3> HIDE DEF latest
    <3> QED BY <1>4, <3>1, LeastNatural, Zenon
  <2>2. f \in 1..Len(m.order) /\ Latest(m, m.order[f])
    BY <2>1, Zenon
  <2>3. Evict(m) = [m EXCEPT !.order = SubSeq(@, f + 1, Len(@)), !.byName = Without(@, {key}), !.byIp = Without(@, {ip}),
                             !.generation = Changed(m)]
    BY <1>4, Zenon DEF Evict
  <2>4. /\ less.byName = names /\ less.byIp = ips /\ less.order = rest /\ less.stamp = m.stamp
        /\ less.next = m.next /\ less.generation = m.generation + 1
        /\ DOMAIN less = {"byName", "byIp", "order", "stamp", "next", "generation"} /\ less = [g \in DOMAIN less |-> less[g]]
    <3> HIDE DEF f, ip, key
    <3> QED BY <1>1, <2>3, Zenon DEF Changed, Without, Restrict
  <2>5. ip \in DOMAIN m.byIp /\ key \in DOMAIN m.byName /\ m.byName[key].ip = ip /\ m.byName[key].stamp = m.order[f].stamp
    BY <2>2, Zenon DEF Latest, MapOK, Paired, KeyOf
  <2>6. ASSUME NEW j \in DOMAIN m.byName \ {key}
        PROVE m.byName[key].stamp < m.byName[j].stamp /\ \E i \in DOMAIN m.order : f < i /\ m.order[i] = m.byName[j]
    <3>1. PICK i \in latest : m.order[i] = m.byName[j]
      BY <1>2, Zenon
    <3>2. KeyOf(m, m.byName[j].ip) = j
      BY <1>2, Zenon
    <3>3. i # f
      BY <3>1, <3>2, Zenon
    <3>4. f <= i /\ i \in 1..Len(m.order)
      BY <2>1, <3>1, Zenon
    <3> HIDE DEF f, latest
    <3>5. f < i
      BY <2>2, <3>3, <3>4
    <3>6. m.order[f].stamp < m.order[i].stamp
      BY <1>1, <2>2, <3>4, <3>5, Zenon DEF MapOK, Ordered
    <3> QED BY <1>1, <2>5, <3>1, <3>4, <3>5, <3>6, Zenon
  <2>7. DOMAIN names = DOMAIN m.byName \ {key} /\ DOMAIN ips = DOMAIN m.byIp \ {ip}
    BY Zenon
  <2>8. Paired(names, ips)
    <3>1. ASSUME NEW k \in DOMAIN names PROVE names[k].ip.v6 = k.v6 /\ names[k].ip \in DOMAIN ips /\ ips[names[k].ip] = k.name
      <4>1. names[k] = m.byName[k] /\ KeyOf(m, m.byName[k].ip) = k
        BY <1>2, Zenon
      <4>2. names[k].ip # ip
        BY <4>1, Zenon
      <4>3. m.byName[k].ip.v6 = k.v6 /\ m.byName[k].ip \in DOMAIN m.byIp /\ m.byIp[m.byName[k].ip] = k.name
        BY Zenon DEF MapOK, Paired
      <4> HIDE DEF ip, names
      <4> QED BY <4>1, <4>2, <4>3, Zenon
    <3>2. ASSUME NEW a \in DOMAIN ips
          PROVE [name |-> ips[a], v6 |-> a.v6] \in DOMAIN names /\ names[[name |-> ips[a], v6 |-> a.v6]].ip = a
      <4>1. ips[a] = m.byIp[a] /\ a \in DOMAIN m.byIp /\ a # ip
        BY Zenon
      <4>2. [name |-> m.byIp[a], v6 |-> a.v6] \in DOMAIN m.byName /\ m.byName[[name |-> m.byIp[a], v6 |-> a.v6]].ip = a
        BY <4>1, Zenon DEF MapOK, Paired
      <4> HIDE DEF ip, key, ips
      <4>3. [name |-> m.byIp[a], v6 |-> a.v6] # key
        BY <2>5, <4>1, <4>2, Zenon
      <4> QED BY <4>1, <4>2, <4>3, Zenon
    <3> QED BY <3>1, <3>2, Zenon DEF Paired
  <2>9. Stamped(names, m.stamp)
    BY Zenon DEF MapOK, Stamped
  <2>10. /\ rest \in Seq(Use) /\ DOMAIN rest = 1..(Len(m.order) - f)
         /\ \A i \in DOMAIN rest : rest[i] = m.order[f + i] /\ f + i \in DOMAIN m.order
    <3> HIDE DEF f
    <3> QED BY <1>1, <2>2
  <2> HIDE DEF rest, f, key, ip
  <2>11. Ordered(rest, m.stamp)
    <3>1. \A i \in DOMAIN rest : rest[i].stamp <= m.stamp
      BY <2>10, Zenon DEF MapOK, Ordered
    <3>2. \A i, j \in DOMAIN rest : i < j => f + i < f + j
      BY <2>2, <2>10, <1>1
    <3> QED BY <2>10, <3>1, <3>2, Zenon DEF MapOK, Ordered
  <2>12. Recorded(names, rest)
    <3>1. ASSUME NEW k \in DOMAIN names PROVE \E i \in DOMAIN rest : rest[i] = names[k]
      <4>1. PICK i \in DOMAIN m.order : f < i /\ m.order[i] = m.byName[k]
        BY <2>6, <2>7, Zenon
      <4>2. i - f \in DOMAIN rest /\ f + (i - f) = i
        BY <1>1, <2>2, <2>10, <4>1
      <4>3. rest[i - f] = m.byName[k]
        BY <2>10, <4>1, <4>2, Zenon
      <4> QED BY <2>7, <4>2, <4>3, Zenon
    <3> QED BY <3>1, Zenon DEF Recorded
  <2>13. IsFiniteSet(DOMAIN names) /\ IsFiniteSet(DOMAIN ips)
    BY <2>7, FS_RemoveElement, Zenon DEF MapOK
  <2>14. names \in [DOMAIN names -> Use] /\ ips \in [DOMAIN ips -> Name] /\ DOMAIN names \in SUBSET Key /\ DOMAIN ips \in SUBSET Address
    BY <1>1, Zenon
  <2> HIDE DEF names, ips, less
  <2>15. less \in FakeRecord
    <3>1. /\ less.order \in Seq(Use) /\ less.stamp \in Nat /\ less.next \in [Families -> Nat] /\ less.generation \in Nat
          /\ DOMAIN less.byName \in SUBSET Key /\ less.byName \in [DOMAIN less.byName -> Use]
          /\ DOMAIN less.byIp \in SUBSET Address /\ less.byIp \in [DOMAIN less.byIp -> Name]
      BY <1>1, <2>4, <2>10, <2>14
    <3> QED BY <2>4, <3>1, IsRecord, Zenon
  <2>16. MapOK(less)
    BY <2>4, <2>8, <2>9, <2>11, <2>12, <2>13, <2>15, Zenon DEF MapOK
  <2> QED BY <2>4, <2>5, <2>6, <2>7, <2>16, Zenon DEF less
<1> QED BY <1>3, <1>4, Zenon

-----------------------------------------------------------------------------
(***************************************************************************)
(* Allocation.                                                             *)
(***************************************************************************)
\* Positions of the search, modulo the size of the pool.
LEMMA Wrapped ==
    ASSUME NEW p \in Nat \ {0}, NEW a \in 0..(p - 1) PROVE a % p = a /\ (a + p) % p = a
OBVIOUS

LEMMA Remainder ==
    ASSUME NEW p \in Nat \ {0}, NEW a \in Nat PROVE a % p \in 0..(p - 1)
OBVIOUS

LEMMA PoolSize ==
    ASSUME range \in Ranges, NEW v6 \in Families
    PROVE range[v6].net \in Nat /\ range[v6].size \in Nat /\ LastOffset(v6) \in Int
BY FakeMapAssumption DEF LastOffset

LEMMA AttemptInPool ==
    ASSUME range \in Ranges, NEW m, MapOK(m), NEW v6 \in Families, LastOffset(v6) >= 2, NEW i \in Nat
    PROVE Attempt(m, v6, i) \in 2..LastOffset(v6) /\ AttemptedIp(m, v6, i) \in Address /\ AttemptedIp(m, v6, i).v6 = v6
<1>1. range[v6].net \in Nat /\ LastOffset(v6) \in Int
  BY PoolSize, Zenon
<1>2. m.next[v6] \in Nat /\ m.next[v6] >= 2
  BY MapParts, Zenon DEF MapOK
<1> DEFINE start == IF m.next[v6] > LastOffset(v6) THEN 2 ELSE m.next[v6]
           p == LastOffset(v6) - 1
<1>3. start - 2 + i \in Nat /\ p \in Nat \ {0}
  BY <1>1, <1>2
<1>4. (start - 2 + i) % p \in 0..(p - 1)
  <2> HIDE DEF start, p
  <2> QED BY <1>3, Remainder, Zenon
<1>5. Attempt(m, v6, i) = 2 + ((start - 2 + i) % p)
  BY Zenon DEF Attempt
<1> HIDE DEF start
<1>6. Attempt(m, v6, i) \in 2..LastOffset(v6)
  BY <1>1, <1>4, <1>5
<1> QED BY <1>1, <1>6 DEF AttemptedIp, Address

LEMMA AdvancedKeeps ==
    ASSUME range \in Ranges, NEW m, MapOK(m), NEW v6 \in Families, LastOffset(v6) >= 2, NEW i \in Nat
    PROVE /\ MapOK(Advanced(m, v6, i)) /\ Advanced(m, v6, i).byName = m.byName /\ Advanced(m, v6, i).byIp = m.byIp
          /\ Advanced(m, v6, i).generation = m.generation
<1> DEFINE next == [m.next EXCEPT ![v6] = Attempt(m, v6, i) + 1]
           on == Advanced(m, v6, i)
<1>1. /\ DOMAIN m = {"byName", "byIp", "order", "stamp", "next", "generation"} /\ m = [f \in DOMAIN m |-> m[f]]
      /\ DOMAIN m.byName \in SUBSET Key /\ m.byName \in [DOMAIN m.byName -> Use]
      /\ DOMAIN m.byIp \in SUBSET Address /\ m.byIp \in [DOMAIN m.byIp -> Name]
      /\ m.order \in Seq(Use) /\ m.stamp \in Nat /\ m.next \in [Families -> Nat] /\ m.generation \in Nat
  BY MapParts, Zenon
<1>2. Attempt(m, v6, i) + 1 \in Nat /\ Attempt(m, v6, i) + 1 >= 2
  <2>1. Attempt(m, v6, i) \in 2..LastOffset(v6) /\ LastOffset(v6) \in Int
    BY AttemptInPool, PoolSize, Zenon
  <2> QED BY <2>1
<1>3. next \in [Families -> Nat] /\ \A u \in Families : next[u] >= 2
  BY <1>1, <1>2, Zenon DEF MapOK
<1>4. /\ on.byName = m.byName /\ on.byIp = m.byIp /\ on.order = m.order /\ on.stamp = m.stamp
      /\ on.next = next /\ on.generation = m.generation
      /\ DOMAIN on = {"byName", "byIp", "order", "stamp", "next", "generation"} /\ on = [f \in DOMAIN on |-> on[f]]
  BY <1>1, Zenon DEF Advanced
<1> HIDE DEF on, next
<1>5. on \in FakeRecord
  <2>1. /\ on.order \in Seq(Use) /\ on.stamp \in Nat /\ on.next \in [Families -> Nat] /\ on.generation \in Nat
        /\ DOMAIN on.byName \in SUBSET Key /\ on.byName \in [DOMAIN on.byName -> Use]
        /\ DOMAIN on.byIp \in SUBSET Address /\ on.byIp \in [DOMAIN on.byIp -> Name]
    BY <1>1, <1>3, <1>4, Zenon
  <2> QED BY <1>4, <2>1, IsRecord, Zenon
<1>6. MapOK(on)
  BY <1>3, <1>4, <1>5, Zenon DEF MapOK
<1> QED BY <1>4, <1>6, Zenon DEF on

\* Attempts less than a pool apart try different addresses.
LEMMA AttemptsDiffer ==
    ASSUME range \in Ranges, NEW m, MapOK(m), NEW v6 \in Families, LastOffset(v6) >= 2,
           NEW i \in 0..(LastOffset(v6) - 2), NEW j \in 0..(LastOffset(v6) - 2), Attempt(m, v6, i) = Attempt(m, v6, j)
    PROVE i = j
<1>1. LastOffset(v6) \in Int
  BY PoolSize, Zenon
<1>2. m.next[v6] \in Nat /\ m.next[v6] >= 2
  BY MapParts, Zenon DEF MapOK
<1> DEFINE a == (IF m.next[v6] > LastOffset(v6) THEN 2 ELSE m.next[v6]) - 2
           p == LastOffset(v6) - 1
           at(n) == IF a + n < p THEN a + n ELSE a + n - p
<1>3. a \in 0..(p - 1) /\ p \in Nat \ {0}
  BY <1>1, <1>2
<1>4. Attempt(m, v6, i) = 2 + ((a + i) % p) /\ Attempt(m, v6, j) = 2 + ((a + j) % p)
  BY Zenon DEF Attempt
<1> HIDE DEF a
<1>5. i \in 0..(p - 1) /\ j \in 0..(p - 1)
  BY <1>1
<1> HIDE DEF p
<1>6. ASSUME NEW n \in 0..(p - 1) PROVE (a + n) % p = at(n) /\ at(n) \in 0..(p - 1)
  <2>1. CASE a + n < p
    BY <1>3, <2>1, Wrapped
  <2>2. CASE ~(a + n < p)
    <3>1. a + n - p \in 0..(p - 1) /\ (a + n - p) + p = a + n
      BY <1>3, <2>2
    <3>2. ((a + n - p) + p) % p = a + n - p
      BY <1>3, <3>1, Wrapped, Zenon
    <3> QED BY <2>2, <3>1, <3>2, Zenon
  <2> QED BY <2>1, <2>2, Zenon
<1>7. (a + i) % p = at(i) /\ (a + j) % p = at(j) /\ at(i) \in 0..(p - 1) /\ at(j) \in 0..(p - 1)
  BY <1>5, <1>6, Zenon
<1>8. 2 + at(i) = 2 + at(j)
  BY <1>4, <1>7, Zenon
<1>9. at(i) = at(j)
  <2> HIDE DEF at
  <2> QED BY <1>3, <1>7, <1>8
<1> QED BY <1>3, <1>5, <1>9

\* A whole pool of attempts tries every address.
LEMMA AttemptsCover ==
    ASSUME range \in Ranges, NEW m, MapOK(m), NEW v6 \in Families, LastOffset(v6) >= 2, NEW o \in 2..LastOffset(v6)
    PROVE \E i \in 0..(LastOffset(v6) - 2) : Attempt(m, v6, i) = o
<1>1. LastOffset(v6) \in Int
  BY PoolSize, Zenon
<1>2. m.next[v6] \in Nat /\ m.next[v6] >= 2
  BY MapParts, Zenon DEF MapOK
<1> DEFINE a == (IF m.next[v6] > LastOffset(v6) THEN 2 ELSE m.next[v6]) - 2
           p == LastOffset(v6) - 1
           b == o - 2
           i == IF a <= b THEN b - a ELSE b - a + p
<1>3. a \in 0..(p - 1) /\ p \in Nat \ {0} /\ b \in 0..(p - 1) /\ b + 2 = o /\ LastOffset(v6) - 2 = p - 1
  BY <1>1, <1>2
<1>4. Attempt(m, v6, i) = 2 + ((a + i) % p)
  BY Zenon DEF Attempt
<1> HIDE DEF a, p, b
<1>5. i \in 0..(p - 1) /\ (a + i = b \/ a + i = b + p)
  BY <1>3
<1>6. (a + i) % p = b
  <2>1. b % p = b /\ (b + p) % p = b
    BY <1>3, Wrapped, Zenon
  <2> HIDE DEF i
  <2> QED BY <1>5, <2>1, Zenon
<1> HIDE DEF i
<1>7. Attempt(m, v6, i) = o
  BY <1>3, <1>4, <1>6
<1> QED BY <1>3, <1>5, <1>7, Zenon

\* by_ip.len() + 1 attempts miss no free address: they cover the pool, or try
\* more different addresses than are mapped.
LEMMA SearchComplete ==
    ASSUME range \in Ranges, NEW m, MapOK(m), NEW v6 \in Families, FreeAttempts(m, v6) = {}
    PROVE Pool(v6) \subseteq DOMAIN m.byIp
<1> DEFINE n == Cardinality(DOMAIN m.byIp)
           last == LastOffset(v6)
<1>1. last \in Int /\ n \in Nat /\ IsFiniteSet(DOMAIN m.byIp) /\ range[v6].net \in Nat
  BY PoolSize, FS_CardinalityType, Zenon DEF MapOK
<1>2. CASE last < 2
  BY <1>1, <1>2 DEF Pool
<1>3. CASE ~(last < 2)
  <2>1. last >= 2
    BY <1>1, <1>3
  <2>2. \A i \in 0..n : AttemptedIp(m, v6, i) \in DOMAIN m.byIp
    BY <1>3, Zenon DEF FreeAttempts, Attempts
  <2>3. CASE n < last - 1
    <3> DEFINE try == [i \in 0..n |-> AttemptedIp(m, v6, i)]
    <3>1. \A i \in 0..n : i \in 0..(last - 2)
      BY <1>1, <2>1, <2>3
    <3>2. ASSUME NEW i \in 0..n, NEW j \in 0..n, try[i] = try[j] PROVE i = j
      <4>1. Attempt(m, v6, i) \in 2..last /\ Attempt(m, v6, j) \in 2..last
        <5>1. i \in Nat /\ j \in Nat
          BY <1>1
        <5> QED BY <2>1, <5>1, AttemptInPool, Zenon
      <4>2. range[v6].net + Attempt(m, v6, i) = range[v6].net + Attempt(m, v6, j)
        BY <3>2, Zenon DEF AttemptedIp
      <4>3. Attempt(m, v6, i) = Attempt(m, v6, j)
        BY <1>1, <4>1, <4>2
      <4>4. i \in 0..(last - 2) /\ j \in 0..(last - 2)
        BY <3>1, Zenon
      <4> QED BY <2>1, <4>3, <4>4, AttemptsDiffer, Zenon
    <3>3. try \in Injection(0..n, DOMAIN m.byIp)
      BY <2>2, <3>2, Zenon DEF Injection, IsInjective
    <3>4. Cardinality(0..n) <= n
      BY <1>1, <3>3, FS_Injection, Zenon
    <3>5. Cardinality(0..n) = n + 1
      <4>1. 0 \in Int /\ n \in Int /\ ~(0 > n)
        BY <1>1
      <4>2. Cardinality(0..n) = n - 0 + 1
        BY <4>1, FS_Interval, Zenon
      <4> QED BY <1>1, <4>2
    <3> HIDE DEF n
    <3> QED BY <1>1, <3>4, <3>5
  <2>4. CASE ~(n < last - 1)
    <3> SUFFICES ASSUME NEW o \in 2..last PROVE [v6 |-> v6, n |-> range[v6].net + o] \in DOMAIN m.byIp
      BY Zenon DEF Pool
    <3>1. PICK i \in 0..(last - 2) : Attempt(m, v6, i) = o
      BY <2>1, AttemptsCover, Zenon
    <3>2. i \in 0..n
      BY <1>1, <2>4, <3>1
    <3>3. AttemptedIp(m, v6, i) = [v6 |-> v6, n |-> range[v6].net + o]
      BY <3>1, Zenon DEF AttemptedIp
    <3> QED BY <2>2, <3>2, <3>3, Zenon
  <2> QED BY <2>3, <2>4, Zenon
<1> QED BY <1>2, <1>3, Zenon

-----------------------------------------------------------------------------
\* The only mapping a query can drop was used before all that stay.
Drops(before, after) ==
    \A k \in DOMAIN before.byName \ DOMAIN after.byName :
       \A j \in DOMAIN before.byName \ {k} :
          j \in DOMAIN after.byName /\ before.byName[k].stamp < before.byName[j].stamp

LEMMA RoomKeeps ==
    ASSUME NEW m, MapOK(m)
    PROVE /\ MapOK(Room(m)) /\ Drops(m, Room(m)) /\ DOMAIN Room(m).byName \subseteq DOMAIN m.byName
          /\ Room(m).generation >= m.generation
          /\ Room(m).generation = m.generation => Room(m).byIp = m.byIp
<1>1. m.generation \in Nat
  BY MapParts, Zenon
<1>2. CASE Room(m) = m
  BY <1>1, <1>2 DEF Drops
<1>3. CASE Room(m) = Evict(m)
  <2>1. MapOK(Evict(m))
    BY EvictKeeps, Zenon
  <2>2. CASE Evict(m).byName = m.byName /\ Evict(m).byIp = m.byIp /\ Evict(m).generation = m.generation
    BY <1>1, <1>3, <2>1, <2>2 DEF Drops
  <2>3. CASE /\ Evict(m).generation = m.generation + 1
             /\ \E k \in DOMAIN m.byName :
                   /\ DOMAIN Evict(m).byName = DOMAIN m.byName \ {k}
                   /\ \A j \in DOMAIN m.byName \ {k} : m.byName[k].stamp < m.byName[j].stamp
    <3>1. Evict(m).generation >= m.generation /\ Evict(m).generation # m.generation
      BY <1>1, <2>3
    <3>2. Drops(m, Evict(m)) /\ DOMAIN Evict(m).byName \subseteq DOMAIN m.byName
      BY <2>3, Zenon DEF Drops
    <3> QED BY <1>3, <2>1, <3>1, <3>2, Zenon
  <2> QED BY <2>2, <2>3, EvictKeeps, Zenon
<1> QED BY <1>2, <1>3, Zenon DEF Room

\* fake_address after the miss.
LEMMA MappedKeeps ==
    ASSUME range \in Ranges, NEW m, MapOK(m), NEW key \in Key, key \notin DOMAIN m.byName, FreeAttempts(Room(m), key.v6) # {}
    PROVE /\ MapOK(Mapped(m, key)) /\ Drops(m, Mapped(m, key)) /\ Mapped(m, key).generation > m.generation
<1> DEFINE r == Room(m)
           free == FreeAttempts(r, key.v6)
           i == Least(free)
           ip == AttemptedIp(r, key.v6, i)
           on == Advanced(r, key.v6, i)
<1>1. MapOK(r) /\ Drops(m, r) /\ DOMAIN r.byName \subseteq DOMAIN m.byName /\ r.generation >= m.generation
  BY RoomKeeps, Zenon
<1>2. key.v6 \in Families /\ LastOffset(key.v6) \in Int
  BY PoolSize, Zenon DEF Key
<1>3. Mapped(m, key) = Insert(on, key, ip)
  BY Zenon DEF Mapped
<1> HIDE DEF r
<1>4. LastOffset(key.v6) >= 2 /\ free \in SUBSET Nat
  <2>1. Cardinality(DOMAIN r.byIp) \in Nat
    BY <1>1, FS_CardinalityType, Zenon DEF MapOK
  <2>2. ~(LastOffset(key.v6) < 2)
    BY Zenon DEF FreeAttempts, r
  <2> QED BY <1>2, <2>1, <2>2 DEF FreeAttempts, Attempts
<1>5. i \in free
  <2>1. free # {}
    BY Zenon DEF r
  <2> HIDE DEF free
  <2> QED BY <1>4, <2>1, LeastNatural, Zenon
<1>6. i \in Nat /\ ip \notin DOMAIN r.byIp
  BY <1>4, <1>5, Zenon DEF FreeAttempts
<1> HIDE DEF i, free
<1>7. ip \in Address /\ ip.v6 = key.v6
  BY <1>1, <1>2, <1>4, <1>6, AttemptInPool, Zenon
<1>8. MapOK(on) /\ on.byName = r.byName /\ on.byIp = r.byIp /\ on.generation = r.generation
  BY <1>1, <1>2, <1>4, <1>6, AdvancedKeeps, Zenon
<1> HIDE DEF ip, on
<1>9. /\ MapOK(Insert(on, key, ip)) /\ DOMAIN Insert(on, key, ip).byName = DOMAIN r.byName \cup {key}
      /\ Insert(on, key, ip).generation = r.generation + 1
  BY <1>1, <1>6, <1>7, <1>8, InsertKeeps
<1>10. r.generation \in Nat /\ m.generation \in Nat
  BY <1>1, MapParts, Zenon
<1>11. Drops(m, Mapped(m, key))
  BY <1>1, <1>3, <1>9, Zenon DEF Drops
<1>12. Mapped(m, key).generation > m.generation
  BY <1>1, <1>3, <1>9, <1>10
<1> QED BY <1>3, <1>9, <1>11, <1>12, Zenon

LEMMA ExhaustedKeeps ==
    ASSUME range \in Ranges, NEW m, MapOK(m), NEW key \in Key
    PROVE /\ MapOK(Exhausted(m, key)) /\ Drops(m, Exhausted(m, key)) /\ Exhausted(m, key).generation >= m.generation
          /\ Exhausted(m, key).generation = m.generation => Exhausted(m, key).byIp = m.byIp
<1> DEFINE r == Room(m)
           n == Cardinality(DOMAIN r.byIp)
<1>1. /\ MapOK(r) /\ Drops(m, r) /\ DOMAIN r.byName \subseteq DOMAIN m.byName /\ r.generation >= m.generation
      /\ r.generation = m.generation => r.byIp = m.byIp
  BY RoomKeeps, Zenon
<1>2. key.v6 \in Families /\ LastOffset(key.v6) \in Int
  BY PoolSize, Zenon DEF Key
<1>3. n \in Nat
  BY <1>1, FS_CardinalityType, Zenon DEF MapOK
<1> HIDE DEF r
<1>4. CASE LastOffset(key.v6) < 2
  <2>1. Exhausted(m, key) = r
    BY <1>4, Zenon DEF Exhausted, r
  <2> QED BY <1>1, <2>1, Zenon
<1>5. CASE ~(LastOffset(key.v6) < 2)
  <2>1. Exhausted(m, key) = Advanced(r, key.v6, n)
    BY <1>5, Zenon DEF Exhausted, r
  <2>2. LastOffset(key.v6) >= 2
    BY <1>2, <1>5
  <2> HIDE DEF n
  <2>3. /\ MapOK(Advanced(r, key.v6, n)) /\ Advanced(r, key.v6, n).byName = r.byName /\ Advanced(r, key.v6, n).byIp = r.byIp
        /\ Advanced(r, key.v6, n).generation = r.generation
    BY <1>1, <1>2, <1>3, <2>2, AdvancedKeeps, Zenon
  <2> QED BY <1>1, <2>1, <2>3, Zenon DEF Drops
<1> QED BY <1>4, <1>5, Zenon

-----------------------------------------------------------------------------
(***************************************************************************)
(* Restoring and saving.                                                   *)
(***************************************************************************)
LEMMA AdvancePastType ==
    ASSUME file \in Seq(Entry), NEW r \in Ranges, NEW v6 \in Families
    PROVE /\ AdvancePast(r, v6) \in Nat /\ AdvancePast(r, v6) >= 2
          /\ \/ AdvancePast(r, v6) = 2
             \/ \E i \in InPoolAt(r) : file[i].ip.v6 = v6 /\ AdvancePast(r, v6) = Offset(r, file[i].ip) + 1
          /\ \A i \in InPoolAt(r) : file[i].ip.v6 = v6 => AdvancePast(r, v6) >= Offset(r, file[i].ip) + 1
<1> DEFINE at == {j \in InPoolAt(r) : file[j].ip.v6 = v6}
           S == {2} \cup {Offset(r, file[i].ip) + 1 : i \in at}
           bound == r[v6].size + 2
<1>1. r[v6].net \in Nat /\ r[v6].size \in Nat
  BY FakeMapAssumption, Zenon
<1>2. ASSUME NEW i \in at PROVE Offset(r, file[i].ip) + 1 \in Nat /\ Offset(r, file[i].ip) + 1 <= bound
  <2>1. file[i] \in Entry
    BY DEF InPoolAt
  <2>2. file[i].ip.n \in Nat /\ file[i].ip.v6 = v6
    BY <2>1, Zenon DEF Entry, Address
  <2>3. file[i].ip.n >= r[v6].net /\ file[i].ip.n - r[v6].net < r[v6].size
    BY <2>2, Zenon DEF InPoolAt, InPool, Offset
  <2>4. Offset(r, file[i].ip) = file[i].ip.n - r[v6].net
    BY <2>2, Zenon DEF Offset
  <2> QED BY <1>1, <2>2, <2>3, <2>4
<1> HIDE DEF at
<1>3. S \in SUBSET Nat /\ S # {} /\ bound \in Nat /\ (\A j \in S : j <= bound) /\ 2 \in S
  <2>1. bound \in Nat /\ 2 <= bound
    BY <1>1
  <2> HIDE DEF bound
  <2> QED BY <1>2, <2>1
<1> HIDE DEF S, bound
<1>4. Greatest(S) \in S /\ \A j \in S : Greatest(S) >= j
  BY <1>3, GreatestNatural, Zenon
<1>5. AdvancePast(r, v6) = Greatest(S)
  BY Zenon DEF AdvancePast, S, at
<1>6. AdvancePast(r, v6) = 2 \/ \E i \in InPoolAt(r) : file[i].ip.v6 = v6 /\ AdvancePast(r, v6) = Offset(r, file[i].ip) + 1
  BY <1>4, <1>5, Zenon DEF S, at
<1>7. \A i \in InPoolAt(r) : file[i].ip.v6 = v6 => AdvancePast(r, v6) >= Offset(r, file[i].ip) + 1
  BY <1>4, <1>5, Zenon DEF S, at
<1> QED BY <1>3, <1>4, <1>5, <1>6, <1>7, Zenon

\* Entries get their stamps in the order of the file.
LEMMA StampsGrow ==
    ASSUME NEW r \in Ranges, file \in Seq(Entry)
    PROVE /\ IsFiniteSet(SupportedAt(r)) /\ SupportedAt(r) \subseteq DOMAIN file /\ Cardinality(SupportedAt(r)) \in Nat
          /\ \A i \in SupportedAt(r) : StampAt(r, i) \in Nat /\ StampAt(r, i) <= Cardinality(SupportedAt(r))
          /\ \A i, j \in SupportedAt(r) : StampAt(r, i) = StampAt(r, j) => i = j
<1> DEFINE s == SupportedAt(r)
           upto(i) == {h \in s : h <= i}
<1>1. s \in SUBSET (1..Len(file)) /\ DOMAIN file = 1..Len(file) /\ Len(file) \in Nat
  BY DEF SupportedAt, InPoolAt
<1>2. IsFiniteSet(s) /\ Cardinality(s) \in Nat
  <2>1. IsFiniteSet(1..Len(file))
    BY <1>1, FS_Interval
  <2> HIDE DEF s
  <2>2. IsFiniteSet(s)
    BY <1>1, <2>1, FS_Subset, Zenon
  <2> QED BY <2>2, FS_CardinalityType, Zenon
<1>3. \A i \in s : StampAt(r, i) = Cardinality(upto(i))
  BY Zenon DEF StampAt
<1> HIDE DEF s
<1>4. ASSUME NEW i \in s PROVE IsFiniteSet(upto(i)) /\ Cardinality(upto(i)) \in Nat /\ Cardinality(upto(i)) <= Cardinality(s)
  <2>1. IsFiniteSet(upto(i)) /\ Cardinality(upto(i)) <= Cardinality(s)
    BY <1>2, FS_Subset, Zenon
  <2> QED BY <2>1, FS_CardinalityType, Zenon
<1>5. ASSUME NEW i \in s, NEW j \in s, i < j PROVE Cardinality(upto(i)) < Cardinality(upto(j))
  <2>0. i \in Nat /\ j \in Nat /\ \A h \in s : h \in Nat
    BY <1>1
  <2>1. j \in upto(j) /\ upto(i) \in SUBSET (upto(j) \ {j})
    <3>1. ASSUME NEW h \in upto(i) PROVE h \in upto(j) /\ h # j
      BY <1>5, <2>0, <3>1
    <3>2. j \in upto(j)
      BY <2>0
    <3> HIDE DEF upto
    <3> QED BY <3>1, <3>2, Zenon
  <2>2. IsFiniteSet(upto(j) \ {j}) /\ Cardinality(upto(j) \ {j}) = Cardinality(upto(j)) - 1
    BY <1>4, <2>1, FS_RemoveElement, Zenon
  <2>3. Cardinality(upto(i)) <= Cardinality(upto(j)) - 1
    BY <2>1, <2>2, FS_Subset
  <2>4. Cardinality(upto(i)) \in Nat /\ Cardinality(upto(j)) \in Nat
    BY <1>4, Zenon
  <2> HIDE DEF upto
  <2> QED BY <2>3, <2>4
<1>6. ASSUME NEW i \in s, NEW j \in s, Cardinality(upto(i)) = Cardinality(upto(j)) PROVE i = j
  <2>1. Cardinality(upto(i)) \in Nat /\ Cardinality(upto(j)) \in Nat
    BY <1>4, Zenon
  <2>2. ~(i < j) /\ ~(j < i)
    <3>1. CASE i < j
      <4>1. Cardinality(upto(i)) < Cardinality(upto(j))
        BY <1>5, <3>1, Zenon
      <4> HIDE DEF upto
      <4> QED BY <1>6, <2>1, <4>1
    <3>2. CASE j < i
      <4>1. Cardinality(upto(j)) < Cardinality(upto(i))
        BY <1>5, <3>2, Zenon
      <4> HIDE DEF upto
      <4> QED BY <1>6, <2>1, <4>1
    <3> QED BY <3>1, <3>2, Zenon
  <2> QED BY <1>1, <2>2
<1> HIDE DEF upto
<1>7. \A i \in s : StampAt(r, i) \in Nat /\ StampAt(r, i) <= Cardinality(s)
  BY <1>3, <1>4, Zenon
<1>8. \A i, j \in s : StampAt(r, i) = StampAt(r, j) => i = j
  BY <1>3, <1>6, Zenon
<1> QED BY <1>1, <1>2, <1>7, <1>8, Zenon DEF s

\* A restored map is sound: no two entries share a key, an address or a stamp.
LEMMA ImportedOK ==
    ASSUME file \in Seq(Entry), NEW r \in Ranges, NEW cap \in Capacities, ~ImportFails(r)
    PROVE MapOK(Imported(r, cap))
<1> DEFINE s == SupportedAt(r)
           kept == KeptAt(r, cap)
           names == RestoredNames(r, cap)
           ips == RestoredIps(r, cap)
           stamp == Cardinality(s)
           m == Imported(r, cap)
<1>1. /\ IsFiniteSet(s) /\ stamp \in Nat /\ s \subseteq DOMAIN file
      /\ \A i \in s : StampAt(r, i) \in Nat /\ StampAt(r, i) <= stamp
      /\ \A i, j \in s : StampAt(r, i) = StampAt(r, j) => i = j
  BY StampsGrow, Zenon
<1>2. kept \subseteq s
  BY Zenon DEF KeptAt
<1>3. \A i, j \in s : (file[i].ip = file[j].ip \/ KeyAt(i) = KeyAt(j)) => i = j
  BY Zenon DEF ImportFails
<1>4. \A i \in s : file[i].name \in Name /\ file[i].ip \in Address /\ KeyAt(i) \in Key /\ KeyAt(i).name = file[i].name /\ KeyAt(i).v6 = file[i].ip.v6
  <2>1. \A i \in s : file[i] \in Entry
    BY <1>1
  <2> HIDE DEF s
  <2> QED BY <2>1, Zenon DEF Entry, Address, Key, KeyAt
<1>5. /\ DOMAIN names = {KeyAt(i) : i \in kept}
      /\ \A i \in kept : names[KeyAt(i)] = [ip |-> file[i].ip, stamp |-> StampAt(r, i)]
      /\ names = [k \in DOMAIN names |-> names[k]]
  <2>1. \A i \in kept : (CHOOSE j \in kept : KeyAt(j) = KeyAt(i)) = i
    <3> HIDE DEF s, kept
    <3> QED BY <1>2, <1>3, Zenon
  <2>2. DOMAIN names = {KeyAt(i) : i \in kept} /\ names = [k \in DOMAIN names |-> names[k]]
    BY Zenon DEF RestoredNames
  <2>3. \A k \in DOMAIN names : names[k] = LET i == CHOOSE i \in kept : KeyAt(i) = k IN [ip |-> file[i].ip, stamp |-> StampAt(r, i)]
    BY Zenon DEF RestoredNames
  <2> HIDE DEF s, kept, names
  <2>4. ASSUME NEW i \in kept PROVE names[KeyAt(i)] = [ip |-> file[i].ip, stamp |-> StampAt(r, i)]
    <3>1. KeyAt(i) \in DOMAIN names
      BY <2>2, Zenon
    <3>2. (CHOOSE j \in kept : KeyAt(j) = KeyAt(i)) = i
      BY <2>1, Zenon
    <3> QED BY <2>3, <3>1, <3>2, Zenon
  <2> QED BY <2>2, <2>4, Zenon
<1>6. /\ DOMAIN ips = {file[i].ip : i \in kept}
      /\ \A i \in kept : ips[file[i].ip] = file[i].name
      /\ ips = [a \in DOMAIN ips |-> ips[a]]
  <2>1. \A i \in kept : (CHOOSE j \in kept : file[j].ip = file[i].ip) = i
    <3> HIDE DEF s, kept
    <3> QED BY <1>2, <1>3, Zenon
  <2>2. DOMAIN ips = {file[i].ip : i \in kept} /\ ips = [a \in DOMAIN ips |-> ips[a]]
    BY DEF RestoredIps
  <2>3. \A a \in DOMAIN ips : ips[a] = file[CHOOSE i \in kept : file[i].ip = a].name
    BY Zenon DEF RestoredIps
  <2> HIDE DEF s, kept, ips
  <2>4. ASSUME NEW i \in kept PROVE ips[file[i].ip] = file[i].name
    <3>1. file[i].ip \in DOMAIN ips
      BY <2>2, Zenon
    <3>2. (CHOOSE j \in kept : file[j].ip = file[i].ip) = i
      BY <2>1, Zenon
    <3> QED BY <2>3, <3>1, <3>2, Zenon
  <2> QED BY <2>2, <2>4, Zenon
<1>7. /\ m = [byName |-> names, byIp |-> ips, order |-> ByStamp(Range(names)), stamp |-> stamp,
              next |-> [v6 \in Families |-> AdvancePast(r, v6)], generation |-> 0]
  BY Zenon DEF Imported
<1> HIDE DEF s, kept, names, ips, stamp, m
<1>8. IsFiniteSet(kept)
  BY <1>1, <1>2, FS_Subset, Zenon
<1>9. IsFiniteSet(DOMAIN names) /\ IsFiniteSet(DOMAIN ips)
  <2>1. [i \in kept |-> KeyAt(i)] \in Surjection(kept, DOMAIN names)
    BY <1>5, Zenon DEF Surjection
  <2>2. [i \in kept |-> file[i].ip] \in Surjection(kept, DOMAIN ips)
    BY <1>6, Zenon DEF Surjection
  <2> QED BY <1>8, <2>1, <2>2, FS_Surjection, Zenon
<1>10. DOMAIN names \in SUBSET Key /\ names \in [DOMAIN names -> Use]
  <2>1. \A i \in kept : [ip |-> file[i].ip, stamp |-> StampAt(r, i)] \in Use
    BY <1>1, <1>2, <1>4, Zenon DEF Use
  <2>2. \A k \in DOMAIN names : k \in Key /\ names[k] \in Use
    BY <1>2, <1>4, <1>5, <2>1, Zenon
  <2> QED BY <1>5, <2>2, Zenon
<1>11. DOMAIN ips \in SUBSET Address /\ ips \in [DOMAIN ips -> Name]
  <2>1. \A a \in DOMAIN ips : a \in Address /\ ips[a] \in Name
    BY <1>2, <1>4, <1>6
  <2> QED BY <1>6, <2>1, Zenon
<1>12. \A k \in DOMAIN names : \E i \in kept : k = KeyAt(i) /\ names[k].ip = file[i].ip /\ names[k].stamp = StampAt(r, i)
  <2>1. ASSUME NEW i \in kept PROVE names[KeyAt(i)].ip = file[i].ip /\ names[KeyAt(i)].stamp = StampAt(r, i)
    <3>1. names[KeyAt(i)] = [ip |-> file[i].ip, stamp |-> StampAt(r, i)]
      BY <1>5, Zenon
    <3> QED BY <3>1
  <2> QED BY <1>5, <2>1
<1>13. Stamped(names, stamp)
  BY <1>1, <1>2, <1>12 DEF Stamped
<1>14. Paired(names, ips)
  <2>1. \A k \in DOMAIN names : names[k].ip.v6 = k.v6 /\ names[k].ip \in DOMAIN ips /\ ips[names[k].ip] = k.name
    BY <1>2, <1>4, <1>6, <1>12
  <2>2. \A a \in DOMAIN ips : [name |-> ips[a], v6 |-> a.v6] \in DOMAIN names /\ names[[name |-> ips[a], v6 |-> a.v6]].ip = a
    <3> SUFFICES ASSUME NEW i \in kept, NEW a, a = file[i].ip
                 PROVE [name |-> ips[a], v6 |-> a.v6] \in DOMAIN names /\ names[[name |-> ips[a], v6 |-> a.v6]].ip = a
      BY <1>6
    <3>1. [name |-> ips[a], v6 |-> a.v6] = KeyAt(i)
      BY <1>6, Zenon DEF KeyAt
    <3>2. names[KeyAt(i)] = [ip |-> file[i].ip, stamp |-> StampAt(r, i)] /\ KeyAt(i) \in DOMAIN names
      BY <1>5, Zenon
    <3> QED BY <3>1, <3>2
  <2> QED BY <2>1, <2>2, Zenon DEF Paired
<1>15. LET o == ByStamp(Range(names)) IN o \in Seq(Use) /\ Ordered(o, stamp) /\ Recorded(names, o)
  BY <1>9, <1>10, <1>13, SortedUses, Zenon
<1>16. \A v6 \in Families : AdvancePast(r, v6) \in Nat /\ AdvancePast(r, v6) >= 2
  BY AdvancePastType, Zenon
<1>17. /\ DOMAIN m = {"byName", "byIp", "order", "stamp", "next", "generation"} /\ m = [f \in DOMAIN m |-> m[f]]
       /\ m.byName = names /\ m.byIp = ips /\ m.order = ByStamp(Range(names)) /\ m.stamp = stamp
       /\ m.next = [v6 \in Families |-> AdvancePast(r, v6)] /\ m.generation = 0
  BY <1>7, Zenon
<1>18. m.next \in [Families -> Nat] /\ \A v6 \in Families : m.next[v6] >= 2
  BY <1>16, <1>17, Zenon
<1>19. m \in FakeRecord
  <2>1. m.order \in Seq(Use) /\ m.stamp \in Nat /\ m.next \in [Families -> Nat] /\ m.generation \in Nat
    BY <1>1, <1>15, <1>17, <1>18
  <2>2. DOMAIN m.byName \in SUBSET Key /\ m.byName \in [DOMAIN m.byName -> Use]
    BY <1>10, <1>17, Zenon
  <2>3. DOMAIN m.byIp \in SUBSET Address /\ m.byIp \in [DOMAIN m.byIp -> Name]
    BY <1>11, <1>17, Zenon
  <2> QED BY <1>17, <2>1, <2>2, <2>3, IsRecord, Zenon
<1>20. MapOK(m)
  BY <1>9, <1>13, <1>14, <1>15, <1>17, <1>18, <1>19, Zenon DEF MapOK
<1> QED BY <1>20, Zenon DEF m

LEMMA EmptyOK == MapOK(EmptyMap)
<1> DEFINE m == EmptyMap
<1>1. /\ DOMAIN m = {"byName", "byIp", "order", "stamp", "next", "generation"} /\ m = [f \in DOMAIN m |-> m[f]]
      /\ DOMAIN m.byName = {} /\ DOMAIN m.byIp = {} /\ m.order = <<>> /\ m.stamp = 0
      /\ m.next = [v6 \in Families |-> 2] /\ m.generation = 0
      /\ m.byName \in [DOMAIN m.byName -> Use] /\ m.byIp \in [DOMAIN m.byIp -> Name]
  BY Zenon DEF EmptyMap
<1> HIDE DEF m
<1>2. m.next \in [Families -> Nat] /\ (\A v6 \in Families : m.next[v6] >= 2) /\ m.order \in Seq(Use) /\ DOMAIN m.order = {}
  BY <1>1
<1>3. m \in FakeRecord
  BY <1>1, <1>2, IsRecord
<1>4. IsFiniteSet({})
  BY FS_EmptySet, Zenon
<1>5. MapOK(m)
  BY <1>1, <1>2, <1>3, <1>4, Zenon DEF MapOK, Paired, Stamped, Ordered, Recorded
<1> QED BY <1>5, Zenon DEF m

\* The export holds every mapping and nothing else.
LEMMA ExportEntries ==
    ASSUME NEW m, MapOK(m)
    PROVE Export(m) \in Seq(Entry) /\ Range(Export(m)) = Entries(m.byIp)
<1> DEFINE s == Compacted(m)
           f == Export(m)
<1>1. /\ s \in Seq(Use) /\ Recorded(m.byName, s) /\ \A i \in DOMAIN s : s[i] \in Range(m.byName)
  BY CompactedOrder, Zenon
<1>2. f = [i \in 1..Len(s) |-> [name |-> m.byIp[s[i].ip], ip |-> s[i].ip]]
  BY Zenon DEF Export
<1> HIDE DEF s, f
<1>3. DOMAIN s = 1..Len(s) /\ Len(s) \in Nat /\ DOMAIN f = DOMAIN s
  BY <1>1, <1>2
<1>4. Paired(m.byName, m.byIp) /\ m.byIp \in [DOMAIN m.byIp -> Name] /\ DOMAIN m.byIp \in SUBSET Address
  BY MapParts, Zenon DEF MapOK
<1>5. \A i \in DOMAIN s : s[i].ip \in DOMAIN m.byIp
  BY <1>1, <1>4 DEF Paired, Range
<1>6. \A a \in DOMAIN m.byIp : \E i \in DOMAIN s : s[i].ip = a
  <2>1. \A a \in DOMAIN m.byIp : \E k \in DOMAIN m.byName : m.byName[k].ip = a
    BY <1>4, Zenon DEF Paired
  <2> QED BY <1>1, <2>1 DEF Recorded
<1>7. \A i \in DOMAIN f : f[i] = [name |-> m.byIp[s[i].ip], ip |-> s[i].ip]
  BY <1>2, <1>3, Zenon
<1>8. \A i \in DOMAIN f : f[i] \in Entry
  BY <1>3, <1>4, <1>5, <1>7 DEF Entry
<1>9. f \in Seq(Entry)
  <2>1. f \in [1..Len(s) -> Entry]
    BY <1>2, <1>3, <1>8, Zenon
  <2> QED BY <1>3, <2>1
<1>10. Range(f) = Entries(m.byIp)
  <2>1. \A i \in DOMAIN f : f[i] \in Entries(m.byIp)
    BY <1>3, <1>5, <1>7, Zenon DEF Entries
  <2>2. ASSUME NEW a \in DOMAIN m.byIp PROVE [name |-> m.byIp[a], ip |-> a] \in Range(f)
    BY <1>3, <1>6, <1>7, Zenon DEF Range
  <2> QED BY <2>1, <2>2, Zenon DEF Range, Entries
<1> QED BY <1>9, <1>10, Zenon DEF f

-----------------------------------------------------------------------------
(***************************************************************************)
(* The invariant.                                                          *)
(***************************************************************************)
LEMMA FakeInvInit == Init => FakeInv
<1> SUFFICES ASSUME Init PROVE FakeInv
  BY Zenon
<1>1. map = EmptyMap /\ range \in Ranges /\ capacity \in Capacities /\ saved = {} /\ up = "stopped"
  BY DEF Init
<1>2. MapOK(map)
  BY <1>1, EmptyOK, Zenon
<1>3. ASSUME NEW v6 \in Families, NEW ip \in Pool(v6) PROVE ip \in Address
  <2>1. PICK o \in 2..LastOffset(v6) : ip = [v6 |-> v6, n |-> range[v6].net + o]
    BY Zenon DEF Pool
  <2>2. range[v6].net \in Nat /\ LastOffset(v6) \in Int
    BY <1>1, PoolSize, Zenon
  <2>3. range[v6].net + o \in Nat
    BY <2>2
  <2> QED BY <2>1, <2>3, Zenon DEF Address
<1>4. file \in Seq(Entry)
  <2>1. CASE file = <<>>
    BY <2>1
  <2>2. CASE file # <<>>
    <3>1. PICK u \in Unsupported : \E ip \in UNION {Pool(v6) : v6 \in Families} : file = <<[name |-> u, ip |-> ip]>>
      BY <2>2 DEF Init
    <3>2. PICK ip \in UNION {Pool(v6) : v6 \in Families} : file = <<[name |-> u, ip |-> ip]>>
      BY <3>1, Zenon
    <3>3. ip \in Address /\ u \in Name
      BY <1>3, FakeMapAssumption, Zenon
    <3>4. [name |-> u, ip |-> ip] \in Entry
      BY <3>3, Zenon DEF Entry
    <3> QED BY <3>2, <3>4
  <2> QED BY <2>1, <2>2, Zenon
<1> QED BY <1>1, <1>2, <1>4, Zenon DEF FakeInv

\* What is on disk stays current as long as the generation does.
LEMMA FakeMapStep ==
    ASSUME FakeInv, up = "running", UNCHANGED <<range, capacity, file, saved, up>>, MapOK(map'),
           map'.generation >= map.generation, map'.generation = map.generation => map'.byIp = map.byIp
    PROVE FakeInv'
<1>1. /\ MapOK(map)' /\ (range \in Ranges /\ capacity \in Capacities /\ file \in Seq(Entry))' /\ (up # "running" => saved = {})'
  BY Zenon DEF FakeInv
<1>2. map.generation \in Nat /\ map'.generation \in Nat
  BY MapParts, Zenon DEF FakeInv
<1>3. \A g \in saved' : g \in Nat /\ g <= map'.generation
  BY <1>2 DEF FakeInv
<1>4. saved' = {map'.generation} => Range(file') = Entries(map'.byIp)
  <2> SUFFICES ASSUME saved' = {map'.generation} PROVE Range(file') = Entries(map'.byIp)
    BY Zenon
  <2>1. map'.generation <= map.generation
    BY Zenon DEF FakeInv
  <2>2. map'.generation = map.generation
    BY <1>2, <2>1
  <2> QED BY <2>2, Zenon DEF FakeInv
<1> QED BY <1>1, <1>3, <1>4, Zenon DEF FakeInv

LEMMA FakeInvStep == FakeInv /\ [Next]_vars => FakeInv'
<1> SUFFICES ASSUME FakeInv, [Next]_vars PROVE FakeInv'
  BY Zenon
<1>1. MapOK(map) /\ range \in Ranges /\ capacity \in Capacities /\ file \in Seq(Entry)
  BY Zenon DEF FakeInv
<1>2. ASSUME NEW key \in Key, Hit(key) PROVE FakeInv'
  <2>1. /\ MapOK(map') /\ map'.byIp = map.byIp /\ map'.generation = map.generation /\ map.generation \in Nat
        /\ up = "running" /\ UNCHANGED <<range, capacity, file, saved, up>>
    BY <1>1, <1>2, GetKeeps, MapParts, Zenon DEF Hit
  <2> QED BY <2>1, FakeMapStep
<1>3. ASSUME NEW key \in Key, Miss(key) PROVE FakeInv'
  <2>1. up = "running" /\ UNCHANGED <<range, capacity, file, saved, up>> /\ map.generation \in Nat
    BY <1>1, <1>3, MapParts, Zenon DEF Miss
  <2>2. CASE FreeAttempts(Room(map), key.v6) # {}
    <3>1. MapOK(Mapped(map, key)) /\ Mapped(map, key).generation > map.generation /\ map' = Mapped(map, key)
      BY <1>1, <1>3, <2>2, MappedKeeps, Zenon DEF Miss
    <3>2. MapOK(map') /\ map'.generation > map.generation
      BY <3>1, Zenon
    <3>3. map'.generation \in Nat
      BY <3>2, MapParts, Zenon
    <3>4. map'.generation >= map.generation /\ map'.generation # map.generation
      BY <2>1, <3>2, <3>3
    <3> QED BY <2>1, <3>2, <3>4, FakeMapStep, Zenon
  <2>3. CASE FreeAttempts(Room(map), key.v6) = {}
    <3>1. map' = Exhausted(map, key)
      BY <1>3, <2>3, Zenon DEF Miss
    <3>2. /\ MapOK(map') /\ map'.generation >= map.generation
          /\ map'.generation = map.generation => map'.byIp = map.byIp
      BY <1>1, <3>1, ExhaustedKeeps, Zenon
    <3> QED BY <2>1, <3>2, FakeMapStep, Zenon
  <2> QED BY <2>2, <2>3, Zenon
<1>4. CASE Save
  <2>1. /\ map' = map /\ range' = range /\ capacity' = capacity /\ up' = up /\ up = "running"
        /\ file' = Export(map) /\ saved' = {map.generation}
    BY <1>4, Zenon DEF Save
  <2>2. file' \in Seq(Entry) /\ Range(file') = Entries(map.byIp)
    BY <1>1, <2>1, ExportEntries, Zenon
  <2>3. map.generation \in Nat
    BY <1>1, MapParts, Zenon
  <2>4. \A g \in saved' : g \in Nat /\ g <= map'.generation
    BY <2>1, <2>3
  <2> QED BY <1>1, <2>1, <2>2, <2>4, Zenon DEF FakeInv
<1>5. CASE Exit
  <2>1. map' = EmptyMap /\ range' = range /\ capacity' = capacity /\ file' = file /\ saved' = {}
    BY <1>5, Zenon DEF Exit
  <2>2. MapOK(map')
    BY <2>1, EmptyOK, Zenon
  <2> QED BY <1>1, <2>1, <2>2, Zenon DEF FakeInv
<1>6. ASSUME NEW r \in Ranges, NEW cap \in Capacities, Start(r, cap) PROVE FakeInv'
  <2>1. range' = r /\ capacity' = cap /\ file' = file /\ saved' = {}
    BY <1>6, Zenon DEF Start, FakeInv
  <2>2. MapOK(map')
    <3>1. CASE ImportFails(r)
      BY <1>6, <3>1, EmptyOK, Zenon DEF Start
    <3>2. CASE ~ImportFails(r)
      BY <1>1, <1>6, <3>2, ImportedOK, Zenon DEF Start
    <3> QED BY <3>1, <3>2, Zenon
  <2> QED BY <1>1, <2>1, <2>2, Zenon DEF FakeInv
<1>7. CASE UNCHANGED vars
  BY <1>7, Zenon DEF vars, FakeInv
<1> QED BY <1>2, <1>3, <1>4, <1>5, <1>6, <1>7, Zenon DEF Next

\* The fake-IP map (FakeMap in dns.rs) stays sound through queries, evictions,
\* saves, restarts and restores with another range or capacity.
THEOREM FakeInvariant == Spec => []FakeInv
<1> QED BY FakeInvInit, FakeInvStep, PTL DEF Spec

\* by_name and by_ip are inverse to each other in every reachable state, and
\* save_profile skips a write only when the file holds exactly the mappings.
THEOREM MappingsAlwaysPaired == Spec => []MappingsPaired
<1>1. FakeInv => MappingsPaired
  BY Zenon DEF FakeInv, MapOK, Paired, Entries, MappingsPaired, KeyOf
<1> QED BY <1>1, FakeInvariant, PTL

\* allocate answers "fake-IP pool exhausted" only when the whole pool of the
\* family is mapped, wherever its search starts and whatever the pool's size.
THEOREM AllocationAlwaysComplete == Spec => []AllocationComplete
<1>1. FakeInv => AllocationComplete
  <2> SUFFICES ASSUME FakeInv, NEW v6 \in Families, FreeAttempts(Room(map), v6) = {}
               PROVE Pool(v6) \subseteq DOMAIN Room(map).byIp
    BY Zenon DEF AllocationComplete
  <2>1. MapOK(Room(map)) /\ range \in Ranges
    BY RoomKeeps, Zenon DEF FakeInv
  <2> QED BY <2>1, SearchComplete, Zenon
<1> QED BY <1>1, FakeInvariant, PTL

\* evict drops the least recently queried mapping and no other, although the
\* use order it pops also holds uses that were renewed since.
THEOREM AlwaysEvictsLeastRecent == Spec => EvictsLeastRecent
<1> DEFINE A == up = "running" /\ up' = "running" =>
                \A k \in DOMAIN map.byName \ DOMAIN map'.byName :
                   \A j \in DOMAIN map.byName \ {k} :
                      /\ j \in DOMAIN map'.byName
                      /\ map.byName[k].stamp < map.byName[j].stamp
<1>1. FakeInv /\ [Next]_vars => [A]_vars
  <2> SUFFICES ASSUME FakeInv, Next, up = "running", up' = "running" PROVE Drops(map, map')
    BY Zenon DEF Drops
  <2>1. MapOK(map) /\ range \in Ranges
    BY Zenon DEF FakeInv
  <2>2. ASSUME NEW key \in Key, Hit(key) PROVE Drops(map, map')
    BY <2>1, <2>2, GetKeeps, Zenon DEF Hit, Drops
  <2>3. ASSUME NEW key \in Key, Miss(key) PROVE Drops(map, map')
    BY <2>1, <2>3, MappedKeeps, ExhaustedKeeps, Zenon DEF Miss
  <2>4. CASE Save
    BY <2>4, Zenon DEF Save, Drops
  <2>5. ~Exit /\ \A r \in Ranges, cap \in Capacities : ~Start(r, cap)
    BY Zenon DEF Exit, Start
  <2> QED BY <2>2, <2>3, <2>4, <2>5, Zenon DEF Next
<1> QED BY <1>1, FakeInvariant, PTL DEF Spec, EvictsLeastRecent

-----------------------------------------------------------------------------
(* Reuse of addresses.  The addresses of a pool form a circle; allocate goes
   around it.  Between(o, n, x): going up from o, x comes before n. *)

Size(v6) == LastOffset(v6) - 1
From(m, v6) == (IF m.next[v6] > LastOffset(v6) THEN 2 ELSE m.next[v6]) - 2
At(v6, x) == [v6 |-> v6, n |-> range[v6].net + 2 + x]
Between(o, n, x) == IF o < n THEN o < x /\ x < n ELSE x > o \/ x < n
Succ(p, q) == IF q + 1 = p THEN 0 ELSE q + 1

\* What lies between a handed out address and the search was passed since.
PassedInv ==
    \A a \in DOMAIN passed :
       \E v6 \in Families : LastOffset(v6) >= 2 /\ \E o \in 0..(Size(v6) - 1) :
          /\ a = At(v6, o)
          /\ \A x \in 0..(Size(v6) - 1) : Between(o, From(map, v6), x) => At(v6, x) \in passed[a]

\* Addresses above all saved ones.
Fresh(v6) == {b \in Pool(v6) : \A f \in filed : f.v6 = b.v6 => f.n < b.n}

\* Every mapped address was restored or handed out; until all fresh addresses of
\* a family were handed out its search is above the saved ones and has left out
\* none of the fresh.
FiledInv ==
    up = "running" =>
       /\ \A a \in DOMAIN map.byIp : a \in DOMAIN passed \/ a \in filed
       /\ \A v6 \in Families :
             \/ Fresh(v6) \subseteq DOMAIN passed
             \/ /\ \A f \in filed \cap Pool(v6) : f.n < range[v6].net + map.next[v6]
                /\ \A b \in Fresh(v6) : b.n < range[v6].net + map.next[v6] => b \in DOMAIN passed

HistoryInv == FakeInv /\ PassedInv /\ FiledInv

LEMMA NotBetween ==
    ASSUME NEW p \in Nat \ {0}, NEW q \in 0..(p - 1), NEW x \in 0..(p - 1) PROVE ~Between(q, Succ(p, q), x)
BY DEF Between, Succ

LEMMA BetweenTurn ==
    ASSUME NEW p \in Nat \ {0}, NEW o \in 0..(p - 1), NEW q \in 0..(p - 1), NEW n \in 0..(p - 1), NEW x \in 0..(p - 1),
           Between(q, n, x), Between(o, Succ(p, q), x)
    PROVE Between(o, n, x)
BY DEF Between, Succ

\* A position k steps from n did not pass comes after the last of them.
LEMMA NotPassed ==
    ASSUME NEW p \in Nat \ {0}, NEW n \in 0..(p - 1), NEW k \in Nat, NEW x \in 0..(p - 1), \A i \in 0..k : (n + i) % p # x
    PROVE Between((n + k) % p, n, x)
<1> DEFINE i == IF x >= n THEN x - n ELSE x - n + p
<1>1. i \in 0..(p - 1) /\ n + i = IF x >= n THEN x ELSE x + p
  OBVIOUS
<1>2. (n + i) % p = x
  BY <1>1, Wrapped, Zenon
<1> HIDE DEF i
<1>3. i > k
  BY <1>1, <1>2
<1>4. n + k \in Nat /\ n + k < 2 * p
  BY <1>1, <1>3
<1>5. (n + k) % p = IF n + k < p THEN n + k ELSE n + k - p
  <2>1. CASE n + k < p
    BY <1>4, <2>1, Wrapped
  <2>2. CASE n + k >= p
    <3>1. n + k - p \in 0..(p - 1) /\ (n + k - p) + p = n + k
      BY <1>4, <2>2
    <3>2. ((n + k - p) + p) % p = n + k - p
      BY <3>1, Wrapped, Zenon
    <3> QED BY <1>4, <2>2, <3>1, <3>2
  <2> QED BY <1>4, <2>1, <2>2
<1> DEFINE q == (n + k) % p
<1>6. q = IF n + k < p THEN n + k ELSE n + k - p
  BY <1>5, Zenon
<1> HIDE DEF q
<1>7. Between(q, n, x)
  BY <1>1, <1>3, <1>6 DEF i, Between
<1> QED BY <1>7, Zenon DEF q

LEMMA SearchAt ==
    ASSUME range \in Ranges, NEW m, MapOK(m), NEW v6 \in Families, LastOffset(v6) >= 2
    PROVE /\ Size(v6) \in Nat \ {0} /\ From(m, v6) \in 0..(Size(v6) - 1) /\ range[v6].net \in Nat
          /\ \A i \in Nat : /\ (From(m, v6) + i) % Size(v6) \in 0..(Size(v6) - 1)
                            /\ Attempt(m, v6, i) = 2 + ((From(m, v6) + i) % Size(v6))
                            /\ AttemptedIp(m, v6, i) = At(v6, (From(m, v6) + i) % Size(v6))
<1>1. LastOffset(v6) \in Int /\ range[v6].net \in Nat /\ m.next[v6] \in Nat /\ m.next[v6] >= 2
  BY PoolSize, MapParts, Zenon DEF MapOK
<1>2. Size(v6) \in Nat \ {0} /\ From(m, v6) \in 0..(Size(v6) - 1)
  BY <1>1 DEF Size, From
<1>3. ASSUME NEW i \in Nat
      PROVE /\ (From(m, v6) + i) % Size(v6) \in 0..(Size(v6) - 1)
            /\ Attempt(m, v6, i) = 2 + ((From(m, v6) + i) % Size(v6))
            /\ AttemptedIp(m, v6, i) = At(v6, (From(m, v6) + i) % Size(v6))
  <2>1. Attempt(m, v6, i) = 2 + ((From(m, v6) + i) % Size(v6))
    BY Zenon DEF Attempt, From, Size
  <2>2. From(m, v6) + i \in Nat
    BY <1>2
  <2>3. (From(m, v6) + i) % Size(v6) \in 0..(Size(v6) - 1)
    BY <1>2, <2>2, Remainder, Zenon
  <2>4. range[v6].net + (2 + ((From(m, v6) + i) % Size(v6))) = range[v6].net + 2 + ((From(m, v6) + i) % Size(v6))
    BY <1>1, <1>2, <2>3
  <2> QED BY <2>1, <2>3, <2>4, Zenon DEF AttemptedIp, At
<1> QED BY <1>1, <1>2, <1>3, Zenon

LEMMA PoolAt ==
    ASSUME range \in Ranges, NEW v6 \in Families
    PROVE \A b : b \in Pool(v6) <=> LastOffset(v6) >= 2 /\ \E x \in 0..(Size(v6) - 1) : b = At(v6, x)
<1>1. LastOffset(v6) \in Int /\ range[v6].net \in Nat
  BY PoolSize, Zenon
<1>2. ASSUME NEW o \in 2..LastOffset(v6)
      PROVE LastOffset(v6) >= 2 /\ o - 2 \in 0..(Size(v6) - 1) /\ [v6 |-> v6, n |-> range[v6].net + o] = At(v6, o - 2)
  <2>1. LastOffset(v6) >= 2 /\ o - 2 \in 0..(Size(v6) - 1) /\ range[v6].net + o = range[v6].net + 2 + (o - 2)
    BY <1>1 DEF Size
  <2> QED BY <2>1, Zenon DEF At
<1>3. ASSUME LastOffset(v6) >= 2, NEW x \in 0..(Size(v6) - 1)
      PROVE x + 2 \in 2..LastOffset(v6) /\ [v6 |-> v6, n |-> range[v6].net + (x + 2)] = At(v6, x)
  <2>1. x + 2 \in 2..LastOffset(v6) /\ range[v6].net + (x + 2) = range[v6].net + 2 + x
    BY <1>1, <1>3 DEF Size
  <2> QED BY <2>1, Zenon DEF At
<1>4. ASSUME NEW b \in Pool(v6) PROVE LastOffset(v6) >= 2 /\ \E x \in 0..(Size(v6) - 1) : b = At(v6, x)
  <2>1. PICK o \in 2..LastOffset(v6) : b = [v6 |-> v6, n |-> range[v6].net + o]
    BY <1>4, Zenon DEF Pool
  <2> QED BY <1>2, <2>1, Zenon
<1>5. ASSUME LastOffset(v6) >= 2, NEW x \in 0..(Size(v6) - 1) PROVE At(v6, x) \in Pool(v6)
  <2>1. x + 2 \in 2..LastOffset(v6) /\ [v6 |-> v6, n |-> range[v6].net + (x + 2)] = At(v6, x)
    BY <1>3, <1>5, Zenon
  <2> QED BY <2>1, Zenon DEF Pool
<1> QED BY <1>4, <1>5, Zenon

LEMMA AtDistinct ==
    ASSUME range \in Ranges, NEW v6 \in Families, NEW w6 \in Families, NEW x \in Nat, NEW y \in Nat, At(v6, x) = At(w6, y)
    PROVE v6 = w6 /\ x = y
<1>1. range[v6].net \in Nat
  BY PoolSize, Zenon
<1>2. v6 = w6 /\ range[v6].net + 2 + x = range[w6].net + 2 + y
  BY Zenon DEF At
<1> QED BY <1>1, <1>2

LEMMA RoomNext == ASSUME NEW m, MapOK(m) PROVE Room(m).next = m.next /\ DOMAIN Room(m).byIp \subseteq DOMAIN m.byIp
<1>1. DOMAIN m = {"byName", "byIp", "order", "stamp", "next", "generation"} /\ m = [f \in DOMAIN m |-> m[f]]
  BY MapParts, Zenon
<1>2. Evict(m).next = m.next /\ DOMAIN Evict(m).byIp \subseteq DOMAIN m.byIp
  BY <1>1, Zenon DEF Evict, Without, Restrict
<1> QED BY <1>2, Zenon DEF Room

\* One search: it passes the addresses up to the one it hands out, or as many as
\* it tries; all but the last one are mapped.
LEMMA MissSearch ==
    ASSUME FakeInv, NEW key \in Key, Miss(key), LastOffset(key.v6) >= 2
    PROVE \E k \in Nat :
             /\ Passes(key.v6) = {AttemptedIp(map, key.v6, i) : i \in 0..k}
             /\ map'.next = [map.next EXCEPT ![key.v6] = Attempt(map, key.v6, k) + 1]
             /\ Handed \in {{}, {AttemptedIp(map, key.v6, k)}}
             /\ \A i \in 0..k : AttemptedIp(map, key.v6, i) \in DOMAIN map.byIp \cup Handed
             /\ DOMAIN map'.byIp \subseteq DOMAIN map.byIp \cup Handed
<1> DEFINE v6 == key.v6
           r == Room(map)
           free == FreeAttempts(r, v6)
           k == IF free = {} THEN Cardinality(DOMAIN r.byIp) ELSE Least(free)
<1>1. /\ MapOK(map) /\ range \in Ranges /\ v6 \in Families /\ LastOffset(v6) \in Int /\ LastOffset(v6) >= 2
      /\ key \notin DOMAIN map.byName
  BY PoolSize, Zenon DEF FakeInv, Key, Miss
<1>2. MapOK(r) /\ r.next = map.next /\ DOMAIN r.byIp \subseteq DOMAIN map.byIp /\ DOMAIN r.byName \subseteq DOMAIN map.byName
  BY <1>1, RoomKeeps, RoomNext, Zenon
<1>3. \A i : Attempt(r, v6, i) = Attempt(map, v6, i) /\ AttemptedIp(r, v6, i) = AttemptedIp(map, v6, i)
  BY <1>2, Zenon DEF Attempt, AttemptedIp
<1>4. Cardinality(DOMAIN r.byIp) \in Nat
  BY <1>2, FS_CardinalityType, Zenon DEF MapOK
<1>5. free = {i \in 0..Cardinality(DOMAIN r.byIp) : AttemptedIp(r, v6, i) \notin DOMAIN r.byIp}
  BY <1>1 DEF FreeAttempts, Attempts
<1>6. Passes(v6) = {AttemptedIp(r, v6, i) : i \in 0..k}
  BY <1>1 DEF Passes
<1>7. Passes(v6) = {AttemptedIp(map, v6, i) : i \in 0..k}
  BY <1>3, <1>6, Zenon
<1>8. DOMAIN r = {"byName", "byIp", "order", "stamp", "next", "generation"} /\ r = [f \in DOMAIN r |-> r[f]] /\ r.next \in [Families -> Nat]
  BY <1>2, MapParts, Zenon
<1>9. \A i : Advanced(r, v6, i).next = [map.next EXCEPT ![v6] = Attempt(map, v6, i) + 1]
  BY <1>1, <1>2, <1>3, <1>8, Zenon DEF Advanced
<1>10. CASE free = {}
  <2>1. k = Cardinality(DOMAIN r.byIp) /\ k \in Nat
    BY <1>4, <1>10, Zenon
  <2>2. map' = Advanced(r, v6, k)
    BY <1>1, <1>10, <2>1 DEF Miss, Exhausted
  <2> HIDE DEF k
  <2>3. map'.byName = r.byName /\ map'.byIp = r.byIp
    BY <1>1, <1>2, <2>1, <2>2, AdvancedKeeps, Zenon
  <2>4. Handed = {}
    BY <1>2, <2>3, Zenon DEF Handed
  <2>5. \A i \in 0..k : AttemptedIp(map, v6, i) \in DOMAIN map.byIp
    BY <1>2, <1>3, <1>5, <1>10, <2>1, Zenon
  <2>6. map'.next = [map.next EXCEPT ![v6] = Attempt(map, v6, k) + 1]
    BY <1>9, <2>2, Zenon
  <2> QED BY <1>2, <1>7, <2>1, <2>3, <2>4, <2>5, <2>6, Zenon
<1>11. CASE free # {}
  <2>1. free \in SUBSET Nat
    BY <1>4, <1>5
  <2> HIDE DEF free
  <2>2. k = Least(free) /\ k \in free /\ \A j \in free : k <= j
    BY <1>11, <2>1, LeastNatural, Zenon
  <2> HIDE DEF k
  <2>3. k \in Nat /\ k <= Cardinality(DOMAIN r.byIp) /\ AttemptedIp(r, v6, k) \notin DOMAIN r.byIp
    BY <1>4, <1>5, <2>2
  <2> DEFINE on == Advanced(r, v6, k)
             ip == AttemptedIp(r, v6, k)
  <2>4. map' = Insert(on, key, ip)
    BY <1>11, <2>2, Zenon DEF Miss, Mapped, free
  <2>5. MapOK(on) /\ on.byName = r.byName /\ on.byIp = r.byIp
    BY <1>1, <1>2, <2>3, AdvancedKeeps, Zenon
  <2>6. ip \in Address /\ ip.v6 = v6 /\ ip = AttemptedIp(map, v6, k)
    BY <1>1, <1>2, <1>3, <2>3, AttemptInPool
  <2>7. on.next = [map.next EXCEPT ![v6] = Attempt(map, v6, k) + 1]
    BY <1>9, Zenon
  <2> HIDE DEF on, ip
  <2>8. key \notin DOMAIN on.byName /\ ip \notin DOMAIN on.byIp
    BY <1>1, <1>2, <2>3, <2>5, Zenon DEF ip
  <2>9. /\ DOMAIN map'.byName = DOMAIN on.byName \cup {key} /\ map'.byName[key].ip = ip /\ map'.next = on.next
        /\ map'.byIp = Put(on.byIp, ip, key.name)
    BY <2>4, <2>5, <2>6, <2>8, InsertKeeps
  <2>10. DOMAIN map'.byIp = DOMAIN r.byIp \cup {ip}
    BY <2>5, <2>9, Zenon DEF Put
  <2>11. Handed = {ip}
    <3>1. DOMAIN map'.byName \ DOMAIN map.byName = {key}
      BY <1>1, <1>2, <2>5, <2>9, Zenon
    <3> QED BY <2>9, <3>1, Zenon DEF Handed
  <2>12. ASSUME NEW i \in 0..k PROVE AttemptedIp(map, v6, i) \in DOMAIN map.byIp \cup {ip}
    <3>1. CASE i = k
      BY <2>6, <3>1, Zenon
    <3>2. CASE i # k
      <4>1. i \in 0..Cardinality(DOMAIN r.byIp) /\ i < k
        BY <1>4, <2>3, <3>2
      <4>2. i \notin free
        BY <2>2, <2>3, <4>1
      <4>3. AttemptedIp(r, v6, i) \in DOMAIN r.byIp
        BY <1>5, <4>1, <4>2, Zenon
      <4> QED BY <1>2, <1>3, <4>3, Zenon
    <3> QED BY <3>1, <3>2, Zenon
  <2>13. Handed = {AttemptedIp(map, v6, k)} /\ map'.next = [map.next EXCEPT ![v6] = Attempt(map, v6, k) + 1]
    BY <2>6, <2>7, <2>9, <2>11, Zenon
  <2>14. DOMAIN map'.byIp \subseteq DOMAIN map.byIp \cup Handed /\ \A i \in 0..k : AttemptedIp(map, v6, i) \in DOMAIN map.byIp \cup Handed
    BY <1>2, <2>10, <2>11, <2>12, Zenon
  <2> QED BY <1>7, <2>3, <2>13, <2>14, Zenon
<1> QED BY <1>10, <1>11, Zenon

\* What the history records in a running core.
LEMMA Recorded1 ==
    ASSUME up = "running", up' = "running", History
    PROVE /\ DOMAIN passed' = DOMAIN passed \cup Handed /\ filed' = filed
          /\ \A a \in DOMAIN passed \ Handed :
                /\ passed[a] \subseteq passed'[a]
                /\ \A v6 \in Families : map'.next[v6] # map.next[v6] => Passes(v6) \subseteq passed'[a]
<1> DEFINE p == UNION {Passes(v6) : v6 \in {v \in Families : map.next[v] # map'.next[v]}}
<1>1. /\ passed' = [a \in DOMAIN passed \cup Handed |-> IF a \in Handed THEN {} ELSE passed[a] \cup p]
      /\ filed' = filed
  BY Zenon DEF History
<1>2. \A v6 \in Families : map'.next[v6] # map.next[v6] => Passes(v6) \subseteq p
  BY Zenon
<1> HIDE DEF p
<1> QED BY <1>1, <1>2, Zenon

LEMMA SamePool ==
    ASSUME range' = range
    PROVE \A v6 : /\ LastOffset(v6)' = LastOffset(v6) /\ Size(v6)' = Size(v6) /\ Pool(v6)' = Pool(v6)
                  /\ \A x : At(v6, x)' = At(v6, x)
BY DEF LastOffset, Size, Pool, At

LEMMA QuietPassed ==
    ASSUME PassedInv, up = "running", up' = "running", History, range' = range, map'.next = map.next, Handed = {}
    PROVE PassedInv'
<1>1. DOMAIN passed' = DOMAIN passed /\ \A a \in DOMAIN passed : passed[a] \subseteq passed'[a]
  BY Recorded1, Zenon
<1>2. \A v6 : LastOffset(v6)' = LastOffset(v6) /\ Size(v6)' = Size(v6) /\ \A x : At(v6, x)' = At(v6, x)
  BY SamePool, Zenon
<1>3. \A v6 : From(map, v6)' = From(map, v6)
  BY <1>2, Zenon DEF From
<1> SUFFICES ASSUME NEW a \in DOMAIN passed'
             PROVE \E v6 \in Families : LastOffset(v6)' >= 2 /\ \E o \in 0..(Size(v6)' - 1) :
                      /\ a = At(v6, o)'
                      /\ \A x \in 0..(Size(v6)' - 1) : Between(o, From(map, v6)', x) => At(v6, x)' \in passed'[a]
  BY Zenon DEF PassedInv
<1>4. PICK v6 \in Families : LastOffset(v6) >= 2 /\ \E o \in 0..(Size(v6) - 1) :
          /\ a = At(v6, o)
          /\ \A x \in 0..(Size(v6) - 1) : Between(o, From(map, v6), x) => At(v6, x) \in passed[a]
  BY <1>1, Zenon DEF PassedInv
<1>5. PICK o \in 0..(Size(v6) - 1) :
          /\ a = At(v6, o)
          /\ \A x \in 0..(Size(v6) - 1) : Between(o, From(map, v6), x) => At(v6, x) \in passed[a]
  BY <1>4, Zenon
<1>6. \A x \in 0..(Size(v6) - 1) : Between(o, From(map, v6), x) => At(v6, x) \in passed'[a]
  BY <1>1, <1>5, Zenon
<1> QED BY <1>2, <1>3, <1>4, <1>5, <1>6

LEMMA QuietFiled ==
    ASSUME FiledInv, up = "running", up' = "running", History, range' = range, map'.next = map.next, Handed = {},
           DOMAIN map'.byIp \subseteq DOMAIN map.byIp
    PROVE FiledInv'
<1>1. DOMAIN passed' = DOMAIN passed /\ filed' = filed
  BY Recorded1, Zenon
<1>2. \A v6 : Pool(v6)' = Pool(v6)
  BY SamePool, Zenon
<1>3. \A v6 : Fresh(v6)' = Fresh(v6)
  BY <1>1, <1>2, Zenon DEF Fresh
<1> QED BY <1>1, <1>2, <1>3, Zenon DEF FiledInv

\* Where one search begins and ends, as positions in its pool.
LEMMA SearchEnds ==
    ASSUME FakeInv, NEW v6 \in Families, LastOffset(v6) >= 2, NEW k \in Nat, range' = range,
           map'.next = [map.next EXCEPT ![v6] = Attempt(map, v6, k) + 1]
    PROVE LET p == Size(v6)
              n == From(map, v6)
              q == (n + k) % p
          IN  /\ p \in Nat \ {0} /\ n \in 0..(p - 1) /\ q \in 0..(p - 1) /\ range[v6].net \in Nat
              /\ map'.next[v6] = q + 3 /\ From(map, v6)' = Succ(p, q)
              /\ \A w6 \in Families \ {v6} : map'.next[w6] = map.next[w6] /\ From(map, w6)' = From(map, w6)
              /\ \A i \in Nat : AttemptedIp(map, v6, i) = At(v6, (n + i) % p)
<1> DEFINE p == Size(v6)
           n == From(map, v6)
           q == (n + k) % p
<1>1. MapOK(map) /\ range \in Ranges /\ map.next \in [Families -> Nat] /\ LastOffset(v6) \in Int
  BY MapParts, PoolSize, Zenon DEF FakeInv
<1>2. /\ p \in Nat \ {0} /\ n \in 0..(p - 1) /\ q \in 0..(p - 1) /\ range[v6].net \in Nat
      /\ Attempt(map, v6, k) = 2 + q /\ \A i \in Nat : AttemptedIp(map, v6, i) = At(v6, (n + i) % p)
  BY <1>1, SearchAt, Zenon
<1>3. \A w6 : LastOffset(w6)' = LastOffset(w6)
  BY SamePool, Zenon
<1> HIDE DEF q, n
<1>4. map'.next[v6] = q + 3 /\ \A w6 \in Families \ {v6} : map'.next[w6] = map.next[w6]
  BY <1>1, <1>2
<1>5. \A w6 \in Families \ {v6} : From(map, w6)' = From(map, w6)
  BY <1>3, <1>4, Zenon DEF From
<1>6. From(map, v6)' = Succ(p, q)
  <2>1. From(map, v6)' = (IF q + 3 > LastOffset(v6) THEN 2 ELSE q + 3) - 2
    BY <1>3, <1>4, Zenon DEF From
  <2>2. LastOffset(v6) = p + 1
    BY <1>1 DEF Size
  <2> HIDE DEF p
  <2> QED BY <1>2, <2>1, <2>2 DEF Succ
<1> QED BY <1>2, <1>4, <1>5, <1>6, Zenon DEF q, n

LEMMA SearchPassed ==
    ASSUME FakeInv, PassedInv, up = "running", up' = "running", History, range' = range,
           NEW v6 \in Families, LastOffset(v6) >= 2, NEW k \in Nat,
           Passes(v6) = {AttemptedIp(map, v6, i) : i \in 0..k},
           map'.next = [map.next EXCEPT ![v6] = Attempt(map, v6, k) + 1],
           Handed \in {{}, {AttemptedIp(map, v6, k)}}
    PROVE PassedInv'
<1> DEFINE p == Size(v6)
           n == From(map, v6)
           q == (n + k) % p
<1>1. /\ p \in Nat \ {0} /\ n \in 0..(p - 1) /\ q \in 0..(p - 1)
      /\ From(map, v6)' = Succ(p, q) /\ \A w6 \in Families \ {v6} : From(map, w6)' = From(map, w6)
      /\ \A i \in Nat : AttemptedIp(map, v6, i) = At(v6, (n + i) % p)
  BY SearchEnds, Zenon
<1>2. /\ DOMAIN passed' = DOMAIN passed \cup Handed
      /\ \A a \in DOMAIN passed \ Handed :
            passed[a] \subseteq passed'[a] /\ (map'.next[v6] # map.next[v6] => Passes(v6) \subseteq passed'[a])
  BY Recorded1, Zenon
<1>3. \A w6 : LastOffset(w6)' = LastOffset(w6) /\ Size(w6)' = Size(w6) /\ \A x : At(w6, x)' = At(w6, x)
  BY SamePool, Zenon
<1>4. \A i \in 0..k : At(v6, (n + i) % p) \in Passes(v6)
  BY <1>1
<1>5. Handed \subseteq {At(v6, q)}
  BY <1>1, Zenon
<1> SUFFICES ASSUME NEW a \in DOMAIN passed'
             PROVE \E w6 \in Families : LastOffset(w6)' >= 2 /\ \E o \in 0..(Size(w6)' - 1) :
                      /\ a = At(w6, o)'
                      /\ \A x \in 0..(Size(w6)' - 1) : Between(o, From(map, w6)', x) => At(w6, x)' \in passed'[a]
  BY Zenon DEF PassedInv
<1>6. CASE a \in Handed
  <2>1. a = At(v6, q)
    BY <1>5, <1>6, Zenon
  <2> HIDE DEF q, n, p
  <2>2. \A x \in 0..(p - 1) : ~Between(q, Succ(p, q), x)
    BY <1>1, NotBetween, Zenon
  <2>3. \A x \in 0..(Size(v6)' - 1) : Between(q, From(map, v6)', x) => At(v6, x)' \in passed'[a]
    BY <1>1, <1>3, <2>2, Zenon DEF p
  <2> QED BY <1>1, <1>3, <2>1, <2>3, Zenon DEF p
<1>7. CASE a \notin Handed
  <2>1. a \in DOMAIN passed /\ passed[a] \subseteq passed'[a]
    BY <1>2, <1>7, Zenon
  <2>2. PICK w6 \in Families : LastOffset(w6) >= 2 /\ \E o \in 0..(Size(w6) - 1) :
            /\ a = At(w6, o)
            /\ \A x \in 0..(Size(w6) - 1) : Between(o, From(map, w6), x) => At(w6, x) \in passed[a]
    BY <2>1, Zenon DEF PassedInv
  <2>3. PICK o \in 0..(Size(w6) - 1) :
            /\ a = At(w6, o)
            /\ \A x \in 0..(Size(w6) - 1) : Between(o, From(map, w6), x) => At(w6, x) \in passed[a]
    BY <2>2, Zenon
  <2>4. \A x \in 0..(Size(w6) - 1) : Between(o, From(map, w6)', x) => At(w6, x) \in passed'[a]
    <3>1. CASE w6 # v6 \/ From(map, v6)' = From(map, v6)
      <4>1. From(map, w6)' = From(map, w6)
        BY <1>1, <3>1, Zenon
      <4> QED BY <2>1, <2>3, <4>1, Zenon
    <3>2. CASE w6 = v6 /\ From(map, v6)' # From(map, v6)
      <4>1. map'.next[v6] # map.next[v6]
        BY <1>3, <3>2, Zenon DEF From
      <4>2. Passes(v6) \subseteq passed'[a]
        BY <1>2, <1>7, <2>1, <4>1, Zenon
      <4> SUFFICES ASSUME NEW x \in 0..(p - 1), Between(o, Succ(p, q), x) PROVE At(v6, x) \in passed'[a]
        BY <1>1, <3>2, Zenon
      <4>3. CASE \E i \in 0..k : (n + i) % p = x
        BY <1>4, <4>2, <4>3, Zenon
      <4>4. CASE \A i \in 0..k : (n + i) % p # x
        <5> HIDE DEF n, p
        <5>1. Between(q, n, x)
          BY <1>1, <4>4, NotPassed, Zenon
        <5> HIDE DEF q
        <5>2. o \in 0..(p - 1)
          BY <3>2, Zenon DEF p
        <5>3. Between(o, n, x)
          BY <1>1, <5>1, <5>2, BetweenTurn, Zenon
        <5> QED BY <2>1, <2>3, <3>2, <5>3, Zenon DEF n, p
      <4> QED BY <4>3, <4>4, Zenon
    <3> QED BY <3>1, <3>2, Zenon
  <2> QED BY <1>3, <2>2, <2>3, <2>4, Zenon
<1> QED BY <1>6, <1>7, Zenon

LEMMA Upwards ==
    ASSUME NEW p \in Nat \ {0}, NEW n \in 0..(p - 1), NEW k \in Nat, NEW x \in 0..(p - 1), x >= n, x <= n + k
    PROVE x - n \in 0..k /\ (n + (x - n)) % p = x
<1>1. x - n \in 0..k /\ n + (x - n) = x
  OBVIOUS
<1> QED BY <1>1, Wrapped, Zenon

\* A search that starts above the saved addresses leaves out no fresh one.
LEMMA SearchFiled ==
    ASSUME FakeInv, FiledInv, up = "running", up' = "running", History, range' = range,
           NEW v6 \in Families, LastOffset(v6) >= 2, NEW k \in Nat,
           map'.next = [map.next EXCEPT ![v6] = Attempt(map, v6, k) + 1],
           \A i \in 0..k : AttemptedIp(map, v6, i) \in DOMAIN map.byIp \cup Handed,
           DOMAIN map'.byIp \subseteq DOMAIN map.byIp \cup Handed
    PROVE FiledInv'
<1> DEFINE p == Size(v6)
           n == From(map, v6)
           q == (n + k) % p
           net == range[v6].net
<1>1. /\ p \in Nat \ {0} /\ n \in 0..(p - 1) /\ q \in 0..(p - 1) /\ net \in Nat /\ map'.next[v6] = q + 3
      /\ \A w6 \in Families \ {v6} : map'.next[w6] = map.next[w6]
      /\ \A i \in Nat : AttemptedIp(map, v6, i) = At(v6, (n + i) % p)
  BY SearchEnds, Zenon
<1>2. DOMAIN passed' = DOMAIN passed \cup Handed /\ filed' = filed
  BY Recorded1, Zenon
<1>3. \A w6 : Pool(w6)' = Pool(w6)
  BY SamePool, Zenon
<1>4. \A w6 : Fresh(w6)' = Fresh(w6)
  BY <1>2, <1>3, Zenon DEF Fresh
<1>5. \A a \in DOMAIN map.byIp : a \in DOMAIN passed \/ a \in filed
  BY Zenon DEF FiledInv
<1>6. \A a \in DOMAIN map'.byIp : a \in DOMAIN passed' \/ a \in filed'
  BY <1>2, <1>5, Zenon
<1>7. range \in Ranges /\ LastOffset(v6) \in Int /\ map.next[v6] \in Nat /\ map.next[v6] >= 2
  BY PoolSize, MapParts DEF FakeInv, MapOK
<1>8. \A b \in Fresh(v6) : b \notin filed /\ \E x \in 0..(p - 1) : b = At(v6, x) /\ b.n = net + 2 + x
  <2>1. ASSUME NEW b \in Fresh(v6) PROVE b \notin filed /\ \E x \in 0..(p - 1) : b = At(v6, x) /\ b.n = net + 2 + x
    <3>1. PICK x \in 0..(p - 1) : b = At(v6, x)
      BY <1>7, PoolAt, Zenon DEF Fresh
    <3>2. b.n = net + 2 + x
      BY <3>1, Zenon DEF At
    <3>3. b.n \in Nat
      BY <1>1, <3>2
    <3>4. ~(b.n < b.n)
      BY <3>3
    <3>5. b \notin filed
      BY <3>4, Zenon DEF Fresh
    <3> QED BY <3>1, <3>2, <3>5, Zenon
  <2> QED BY <2>1, Zenon
<1>9. ASSUME NEW x \in 0..(p - 1), x >= n, x <= n + k, At(v6, x) \in Fresh(v6) PROVE At(v6, x) \in DOMAIN passed'
  <2>1. x - n \in 0..k /\ (n + (x - n)) % p = x
    BY <1>1, <1>9, Upwards, Zenon
  <2>2. AttemptedIp(map, v6, x - n) = At(v6, x) /\ AttemptedIp(map, v6, x - n) \in DOMAIN map.byIp \cup Handed
    BY <1>1, <2>1
  <2> QED BY <1>2, <1>5, <1>8, <1>9, <2>2, Zenon
<1>10. \/ Fresh(v6) \subseteq DOMAIN passed'
       \/ /\ \A f \in filed \cap Pool(v6) : f.n < net + map'.next[v6]
          /\ \A b \in Fresh(v6) : b.n < net + map'.next[v6] => b \in DOMAIN passed'
  <2>1. CASE Fresh(v6) \subseteq DOMAIN passed
    BY <1>2, <2>1, Zenon
  <2>2. CASE /\ \A f \in filed \cap Pool(v6) : f.n < net + map.next[v6]
             /\ \A b \in Fresh(v6) : b.n < net + map.next[v6] => b \in DOMAIN passed
    <3>1. CASE map.next[v6] > LastOffset(v6)
      <4>1. \A x \in 0..(p - 1) : net + 2 + x < net + map.next[v6]
        BY <1>1, <1>7, <3>1 DEF Size
      <4> QED BY <1>2, <1>8, <2>2, <4>1
    <3>2. CASE ~(map.next[v6] > LastOffset(v6))
      <4>1. n = map.next[v6] - 2
        BY <1>7, <3>2, Zenon DEF From
      <4> HIDE DEF n, p, net
      <4>2. ASSUME NEW x \in 0..(p - 1), x < n, At(v6, x) \in Fresh(v6), At(v6, x).n = net + 2 + x PROVE At(v6, x) \in DOMAIN passed'
        <5>1. net + 2 + x < net + map.next[v6]
          BY <1>1, <1>7, <4>1, <4>2
        <5> QED BY <1>2, <2>2, <4>2, <5>1, Zenon
      <4>3. CASE n + k < p
        <5>1. q = n + k
          <6>1. n + k \in 0..(p - 1)
            BY <1>1, <4>3
          <6> QED BY <1>1, <6>1, Wrapped, Zenon
        <5>2. map.next[v6] <= map'.next[v6] /\ map'.next[v6] = n + k + 3
          BY <1>1, <1>7, <4>1, <5>1
        <5>3. \A f \in filed \cap Pool(v6) : f.n \in Nat
          <6>1. ASSUME NEW f \in Pool(v6) PROVE f.n \in Nat
            <7>1. PICK x \in 0..(Size(v6) - 1) : f = At(v6, x)
              BY <1>7, PoolAt, Zenon
            <7>2. f.n = net + 2 + x
              BY <7>1, Zenon DEF At, net
            <7> QED BY <1>1, <7>2 DEF p
          <6> QED BY <6>1, Zenon
        <5>4. \A f \in filed \cap Pool(v6) : f.n < net + map'.next[v6]
          BY <1>1, <1>7, <2>2, <5>2, <5>3
        <5>5. ASSUME NEW b \in Fresh(v6), b.n < net + map'.next[v6] PROVE b \in DOMAIN passed'
          <6>1. PICK x \in 0..(p - 1) : b = At(v6, x) /\ b.n = net + 2 + x
            BY <1>8, Zenon
          <6>2. x <= n + k
            BY <1>1, <5>2, <5>5, <6>1
          <6> QED BY <1>1, <1>9, <4>2, <6>1, <6>2
        <5> QED BY <5>4, <5>5, Zenon
      <4>4. CASE ~(n + k < p)
        <5>1. ASSUME NEW b \in Fresh(v6) PROVE b \in DOMAIN passed'
          <6>1. PICK x \in 0..(p - 1) : b = At(v6, x) /\ b.n = net + 2 + x
            BY <1>8, Zenon
          <6>2. x <= n + k
            BY <1>1, <4>4
          <6> QED BY <1>1, <1>9, <4>2, <6>1, <6>2
        <5> QED BY <5>1, ZenonT(60)
      <4> QED BY <4>3, <4>4, Zenon
    <3> QED BY <3>1, <3>2, Zenon
  <2> QED BY <2>1, <2>2, Zenon DEF FiledInv
<1>11. ASSUME NEW w6 \in Families
       PROVE \/ Fresh(w6) \subseteq DOMAIN passed'
             \/ /\ \A f \in filed \cap Pool(w6) : f.n < range[w6].net + map'.next[w6]
                /\ \A b \in Fresh(w6) : b.n < range[w6].net + map'.next[w6] => b \in DOMAIN passed'
  <2>1. CASE w6 = v6
    BY <1>10, <2>1, Zenon
  <2>2. CASE w6 # v6
    BY <1>1, <1>2, <2>2, Zenon DEF FiledInv
  <2> QED BY <2>1, <2>2, Zenon
<1> QED BY <1>2, <1>3, <1>4, <1>6, <1>11, Zenon DEF FiledInv

\* A restored map searches above everything that was saved in its pool.
LEMMA StartFiled ==
    ASSUME FakeInv, NEW r \in Ranges, NEW cap \in Capacities, Start(r, cap), History
    PROVE FiledInv'
<1> SUFFICES ASSUME up' = "running" PROVE FiledInv'
  BY Zenon DEF FiledInv
<1>1. /\ up = "stopped" /\ range' = r /\ map' = Imported(r, cap) /\ file' = file /\ file \in Seq(Entry)
      /\ DOMAIN passed' = {} /\ filed' = {e.ip : e \in Range(file)}
  BY Zenon DEF Start, History, FakeInv
<1>2. DOMAIN file = 1..Len(file) /\ Len(file) \in Nat /\ \A i \in DOMAIN file : file[i] \in Entry
  BY <1>1
<1>3. \A f : f \in filed' <=> \E i \in DOMAIN file : f = file[i].ip
  BY <1>1, Zenon DEF Range
<1>4. \A a \in DOMAIN map'.byIp : a \in filed'
  <2>1. map'.byIp = RestoredIps(r, cap)
    BY <1>1, Zenon DEF Imported
  <2>2. \A a \in DOMAIN map'.byIp : \E i \in KeptAt(r, cap) : a = file[i].ip
    BY <2>1, Zenon DEF RestoredIps
  <2>3. KeptAt(r, cap) \subseteq DOMAIN file
    BY <1>2, Zenon DEF KeptAt, SupportedAt, InPoolAt
  <2> QED BY <1>3, <2>2, <2>3, Zenon
<1>5. \A v6 \in Families : map'.next[v6] = AdvancePast(r, v6)
  BY <1>1, Zenon DEF Imported
<1>6. ASSUME NEW v6 \in Families
      PROVE /\ \A f \in filed' \cap Pool(v6)' : f.n < r[v6].net + AdvancePast(r, v6)
            /\ \A b \in Fresh(v6)' : ~(b.n < r[v6].net + AdvancePast(r, v6))
  <2>1. /\ AdvancePast(r, v6) \in Nat /\ AdvancePast(r, v6) >= 2
        /\ \/ AdvancePast(r, v6) = 2
           \/ \E i \in InPoolAt(r) : file[i].ip.v6 = v6 /\ AdvancePast(r, v6) = Offset(r, file[i].ip) + 1
        /\ \A i \in InPoolAt(r) : file[i].ip.v6 = v6 => AdvancePast(r, v6) >= Offset(r, file[i].ip) + 1
    BY <1>1, AdvancePastType, Zenon
  <2>2. r[v6].net \in Nat /\ r[v6].size \in Nat /\ v6 \in BOOLEAN
    BY FakeMapAssumption, Zenon
  <2> DEFINE last == IF v6 THEN r[v6].size - 1 ELSE IF r[v6].size >= 2 THEN r[v6].size - 2 ELSE 0
  <2>3. Pool(v6)' = {[v6 |-> v6, n |-> r[v6].net + o] : o \in 2..last}
    BY <1>1, Zenon DEF Pool, LastOffset
  <2>4. ASSUME NEW f \in Pool(v6)'
        PROVE f.v6 = v6 /\ f.n \in Nat /\ f.n >= r[v6].net + 2 /\ InPool(r, f) /\ Offset(r, f) = f.n - r[v6].net
    <3>1. PICK o \in 2..last : f = [v6 |-> v6, n |-> r[v6].net + o]
      BY <2>3, <2>4, Zenon
    <3>2. f.v6 = v6 /\ f.n = r[v6].net + o /\ last \in Int
      BY <2>2, <3>1
    <3>3. o \in Nat /\ o >= 2 /\ o < r[v6].size /\ (~v6 => o # r[v6].size - 1)
      BY <2>2, <3>2
    <3>4. f.n \in Nat /\ f.n - r[v6].net = o /\ f.n >= r[v6].net + 2
      BY <2>2, <3>2, <3>3
    <3>5. Offset(r, f) = o
      BY <3>2, <3>4, Zenon DEF Offset
    <3>6. InPool(r, f)
      BY <2>2, <3>2, <3>3, <3>4, <3>5 DEF InPool
    <3> QED BY <3>2, <3>4, <3>5, <3>6, Zenon
  <2> HIDE DEF last
  <2>5. ASSUME NEW f \in filed' \cap Pool(v6)' PROVE f.n < r[v6].net + AdvancePast(r, v6)
    <3>1. PICK i \in DOMAIN file : f = file[i].ip
      BY <1>3, <2>5, Zenon
    <3>2. f.v6 = v6 /\ f.n \in Nat /\ InPool(r, f) /\ Offset(r, f) = f.n - r[v6].net
      BY <2>4, <2>5, Zenon
    <3>3. i \in InPoolAt(r)
      BY <1>2, <3>1, <3>2, Zenon DEF InPoolAt
    <3>4. AdvancePast(r, v6) >= f.n - r[v6].net + 1
      BY <2>1, <3>1, <3>2, <3>3, Zenon
    <3> QED BY <2>1, <2>2, <3>2, <3>4
  <2>6. ASSUME NEW b \in Fresh(v6)' PROVE ~(b.n < r[v6].net + AdvancePast(r, v6))
    <3>1. b \in Pool(v6)' /\ \A f \in filed' : f.v6 = b.v6 => f.n < b.n
      BY <2>6, Zenon DEF Fresh
    <3>2. b.v6 = v6 /\ b.n \in Nat /\ b.n >= r[v6].net + 2
      BY <2>4, <3>1, Zenon
    <3>3. CASE AdvancePast(r, v6) = 2
      BY <2>2, <3>2, <3>3
    <3>4. CASE AdvancePast(r, v6) # 2
      <4>1. PICK i \in InPoolAt(r) : file[i].ip.v6 = v6 /\ AdvancePast(r, v6) = Offset(r, file[i].ip) + 1
        BY <2>1, <3>4, Zenon
      <4>2. i \in DOMAIN file /\ file[i].ip.n \in Nat
        BY <1>2, Zenon DEF InPoolAt, Entry, Address
      <4>3. file[i].ip.n < b.n
        BY <1>3, <3>1, <3>2, <4>1, <4>2, Zenon
      <4>4. AdvancePast(r, v6) = file[i].ip.n - r[v6].net + 1
        BY <4>1, Zenon DEF Offset
      <4> QED BY <2>2, <3>2, <4>2, <4>3, <4>4
    <3> QED BY <3>3, <3>4, Zenon
  <2> QED BY <2>5, <2>6, Zenon
<1> QED BY <1>1, <1>4, <1>5, <1>6, Zenon DEF FiledInv

\* A query that searches nothing.
LEMMA MissWithoutPool ==
    ASSUME FakeInv, NEW key \in Key, Miss(key), ~(LastOffset(key.v6) >= 2)
    PROVE map'.next = map.next /\ Handed = {} /\ DOMAIN map'.byIp \subseteq DOMAIN map.byIp
<1>1. MapOK(map) /\ LastOffset(key.v6) \in Int
  BY PoolSize, Zenon DEF FakeInv, Key
<1>2. map' = Room(map)
  BY <1>1 DEF Miss, FreeAttempts, Exhausted
<1>3. Room(map).next = map.next /\ DOMAIN Room(map).byIp \subseteq DOMAIN map.byIp /\ DOMAIN Room(map).byName \subseteq DOMAIN map.byName
  BY <1>1, RoomKeeps, RoomNext, Zenon
<1> QED BY <1>2, <1>3, Zenon DEF Handed

LEMMA HitQuiet ==
    ASSUME FakeInv, NEW key \in Key, Hit(key)
    PROVE map'.next = map.next /\ Handed = {} /\ DOMAIN map'.byIp \subseteq DOMAIN map.byIp
<1>1. MapOK(map) /\ key \in DOMAIN map.byName /\ map' = Get(map, key)
  BY Zenon DEF FakeInv, Hit
<1>2. DOMAIN map'.byName = DOMAIN map.byName /\ map'.byIp = map.byIp
  BY <1>1, GetKeeps, Zenon
<1>3. DOMAIN map = {"byName", "byIp", "order", "stamp", "next", "generation"} /\ map = [f \in DOMAIN map |-> map[f]]
  BY <1>1, MapParts, Zenon
<1>4. map'.next = map.next
  BY <1>1, <1>3, Zenon DEF Get
<1> QED BY <1>2, <1>4, Zenon DEF Handed

LEMMA HistoryStep == HistoryInv /\ [Next /\ History]_historyVars => HistoryInv'
<1> SUFFICES ASSUME HistoryInv, [Next /\ History]_historyVars PROVE HistoryInv'
  BY Zenon
<1>1. FakeInv /\ PassedInv /\ FiledInv
  BY Zenon DEF HistoryInv
<1>2. CASE UNCHANGED historyVars
  <2>1. UNCHANGED vars /\ passed' = passed /\ filed' = filed
    BY <1>2, Zenon DEF historyVars
  <2>2. FakeInv'
    BY <1>1, <2>1, FakeInvStep, Zenon
  <2>3. map' = map /\ range' = range /\ up' = up
    BY <2>1, Zenon DEF vars
  <2>4. \A v6 : LastOffset(v6)' = LastOffset(v6) /\ Size(v6)' = Size(v6) /\ Pool(v6)' = Pool(v6) /\ \A x : At(v6, x)' = At(v6, x)
    BY <2>3, SamePool, Zenon
  <2>5. \A v6 : From(map, v6)' = From(map, v6) /\ Fresh(v6)' = Fresh(v6)
    BY <2>1, <2>3, <2>4, ZenonT(60) DEF From, Fresh
  <2>6. PassedInv'
    <3> SUFFICES ASSUME NEW a \in DOMAIN passed
                 PROVE  \E v6 \in Families : LastOffset(v6)' >= 2 /\ \E o \in 0..(Size(v6)' - 1) :
                           /\ a = At(v6, o)'
                           /\ \A x \in 0..(Size(v6)' - 1) : Between(o, From(map, v6)', x) => At(v6, x)' \in passed[a]
      BY <2>1, Zenon DEF PassedInv
    <3>1. PICK v6 \in Families : LastOffset(v6) >= 2 /\ \E o \in 0..(Size(v6) - 1) :
                           /\ a = At(v6, o)
                           /\ \A x \in 0..(Size(v6) - 1) : Between(o, From(map, v6), x) => At(v6, x) \in passed[a]
      BY <1>1, Zenon DEF PassedInv
    <3> QED BY <2>4, <2>5, <3>1
  <2>7. FiledInv'
    BY <1>1, <2>1, <2>3, <2>4, <2>5, ZenonT(60) DEF FiledInv
  <2> QED BY <2>2, <2>6, <2>7, Zenon DEF HistoryInv
<1>3. CASE Next /\ History
  <2>1. FakeInv'
    BY <1>1, <1>3, FakeInvStep, Zenon
  <2>2. ASSUME up = "running", up' = "running", range' = range, map'.next = map.next, Handed = {}, DOMAIN map'.byIp \subseteq DOMAIN map.byIp
        PROVE PassedInv' /\ FiledInv'
    BY <1>1, <1>3, <2>2, QuietPassed, QuietFiled, ZenonT(60)
  <2>3. ASSUME NEW key \in Key, Hit(key) PROVE PassedInv' /\ FiledInv'
    BY <1>1, <2>2, <2>3, HitQuiet, ZenonT(60) DEF Hit
  <2>4. ASSUME NEW key \in Key, Miss(key) PROVE PassedInv' /\ FiledInv'
    <3>1. up = "running" /\ up' = "running" /\ range' = range /\ key.v6 \in Families
      BY <2>4, Zenon DEF Miss, Key
    <3>2. CASE ~(LastOffset(key.v6) >= 2)
      BY <1>1, <2>2, <2>4, <3>1, <3>2, MissWithoutPool, ZenonT(60)
    <3>3. CASE LastOffset(key.v6) >= 2
      <4>1. PICK k \in Nat :
               /\ Passes(key.v6) = {AttemptedIp(map, key.v6, i) : i \in 0..k}
               /\ map'.next = [map.next EXCEPT ![key.v6] = Attempt(map, key.v6, k) + 1]
               /\ Handed \in {{}, {AttemptedIp(map, key.v6, k)}}
               /\ \A i \in 0..k : AttemptedIp(map, key.v6, i) \in DOMAIN map.byIp \cup Handed
               /\ DOMAIN map'.byIp \subseteq DOMAIN map.byIp \cup Handed
        BY <1>1, <2>4, <3>3, MissSearch, Zenon
      <4>2. PassedInv'
        BY <1>1, <1>3, <3>1, <3>3, <4>1, SearchPassed, ZenonT(60)
      <4>3. FiledInv'
        BY <1>1, <1>3, <3>1, <3>3, <4>1, SearchFiled, ZenonT(60)
      <4> QED BY <4>2, <4>3, Zenon
    <3> QED BY <3>2, <3>3, Zenon
  <2>5. CASE Save
    <3>1. up = "running" /\ map' = map /\ range' = range /\ up' = up
      BY <2>5, Zenon DEF Save
    <3>2. Handed = {}
      BY <3>1, Zenon DEF Handed
    <3>3. up' = "running" /\ map'.next = map.next /\ DOMAIN map'.byIp \subseteq DOMAIN map.byIp
      BY <3>1, Zenon
    <3> QED BY <2>1, <2>2, <3>1, <3>2, <3>3, Zenon DEF HistoryInv
  <2>6. ASSUME ~(up = "running" /\ up' = "running") PROVE PassedInv'
    <3>1. DOMAIN passed' = {}
      BY <1>3, <2>6, Zenon DEF History
    <3> QED BY <3>1, Zenon DEF PassedInv
  <2>7. CASE Exit
    <3>1. up' # "running"
      BY <2>7, Zenon DEF Exit
    <3>2. FiledInv'
      BY <3>1, Zenon DEF FiledInv
    <3> QED BY <2>1, <2>6, <3>1, <3>2, Zenon DEF HistoryInv
  <2>8. ASSUME NEW r \in Ranges, NEW cap \in Capacities, Start(r, cap) PROVE PassedInv' /\ FiledInv'
    <3>1. up = "stopped"
      BY <2>8, Zenon DEF Start
    <3> QED BY <1>1, <1>3, <2>6, <2>8, <3>1, StartFiled, Zenon
  <2> QED BY <1>3, <2>1, <2>3, <2>4, <2>5, <2>7, <2>8, ZenonT(60) DEF Next, HistoryInv
<1> QED BY <1>2, <1>3, Zenon

LEMMA HistoryInitInv == HistoryInit => HistoryInv
<1> SUFFICES ASSUME HistoryInit PROVE HistoryInv
  BY Zenon
<1>1. FakeInv /\ DOMAIN passed = {} /\ up = "stopped"
  BY FakeInvInit DEF HistoryInit, Init
<1> QED BY <1>1, Zenon DEF HistoryInv, PassedInv, FiledInv

\* A query that hands out an address is a search.
LEMMA HandedBySearch ==
    ASSUME FakeInv, Next, up = "running", up' = "running", Handed # {}
    PROVE \E v6 \in Families, k \in Nat :
             /\ LastOffset(v6) >= 2 /\ range' = range
             /\ Passes(v6) = {AttemptedIp(map, v6, i) : i \in 0..k}
             /\ map'.next = [map.next EXCEPT ![v6] = Attempt(map, v6, k) + 1]
             /\ Handed = {AttemptedIp(map, v6, k)}
<1>1. \A key \in Key : ~Hit(key)
  BY HitQuiet, Zenon
<1>2. ~Save
  BY Zenon DEF Save, Handed
<1>3. ~Exit /\ \A r \in Ranges, cap \in Capacities : ~Start(r, cap)
  BY Zenon DEF Exit, Start
<1>4. PICK key \in Key : Miss(key)
  BY <1>1, <1>2, <1>3, Zenon DEF Next
<1>5. LastOffset(key.v6) >= 2 /\ key.v6 \in Families /\ range' = range
  BY <1>4, MissWithoutPool, Zenon DEF Key, Miss
<1>6. PICK k \in Nat :
         /\ Passes(key.v6) = {AttemptedIp(map, key.v6, i) : i \in 0..k}
         /\ map'.next = [map.next EXCEPT ![key.v6] = Attempt(map, key.v6, k) + 1]
         /\ Handed \in {{}, {AttemptedIp(map, key.v6, k)}}
  BY <1>4, <1>5, MissSearch, Zenon
<1> QED BY <1>5, <1>6, Zenon

\* "Addresses advance through the whole pool before any is reused" (FakeMap in
\* dns.rs), for every size of the pool and any queries, evictions and exhausted
\* searches in between.
THEOREM AlwaysWholePoolFirst == HistorySpec => WholePoolFirst
<1> DEFINE A == up = "running" /\ up' = "running" =>
                   \A a \in Handed \cap DOMAIN passed : Pool(a.v6) \subseteq passed[a] \cup Passes(a.v6)
<1>1. HistoryInv /\ [Next /\ History]_historyVars => [A]_historyVars
  <2> SUFFICES ASSUME HistoryInv, Next, up = "running", up' = "running", NEW a \in Handed \cap DOMAIN passed, NEW b \in Pool(a.v6)
               PROVE b \in passed[a] \cup Passes(a.v6)
    BY Zenon
  <2>1. FakeInv /\ PassedInv /\ range \in Ranges
    BY Zenon DEF HistoryInv, FakeInv
  <2>2. PICK v6 \in Families, k \in Nat :
           /\ LastOffset(v6) >= 2 /\ range' = range
           /\ Passes(v6) = {AttemptedIp(map, v6, i) : i \in 0..k}
           /\ map'.next = [map.next EXCEPT ![v6] = Attempt(map, v6, k) + 1]
           /\ Handed = {AttemptedIp(map, v6, k)}
    BY <2>1, HandedBySearch, Zenon
  <2> DEFINE p == Size(v6)
             n == From(map, v6)
             q == (n + k) % p
  <2>3. /\ p \in Nat \ {0} /\ n \in 0..(p - 1) /\ q \in 0..(p - 1)
        /\ \A i \in Nat : AttemptedIp(map, v6, i) = At(v6, (n + i) % p)
    BY <2>1, <2>2, SearchEnds, Zenon
  <2>4. a = At(v6, q)
    BY <2>2, <2>3, Zenon
  <2>5. PICK w6 \in Families : LastOffset(w6) >= 2 /\ \E o \in 0..(Size(w6) - 1) :
            /\ a = At(w6, o)
            /\ \A x \in 0..(Size(w6) - 1) : Between(o, From(map, w6), x) => At(w6, x) \in passed[a]
    BY <2>1, Zenon DEF PassedInv
  <2>6. PICK o \in 0..(Size(w6) - 1) :
            /\ a = At(w6, o)
            /\ \A x \in 0..(Size(w6) - 1) : Between(o, From(map, w6), x) => At(w6, x) \in passed[a]
    BY <2>5, Zenon
  <2>7. w6 = v6 /\ o = q /\ a.v6 = v6
    <3>1. o \in Nat /\ q \in Nat
      BY <2>3, <2>6
    <3> HIDE DEF q
    <3>2. At(w6, o) = At(v6, q)
      BY <2>4, <2>6, Zenon
    <3>3. w6 = v6 /\ o = q
      BY <2>1, <3>1, <3>2, AtDistinct
    <3> QED BY <2>4, <3>3, Zenon DEF At
  <2>8. PICK x \in 0..(p - 1) : b = At(v6, x)
    BY <2>1, <2>7, PoolAt
  <2>9. CASE \E i \in 0..k : (n + i) % p = x
    BY <2>2, <2>3, <2>7, <2>8, <2>9
  <2>10. CASE \A i \in 0..k : (n + i) % p # x
    <3> HIDE DEF n, p
    <3>1. Between(q, n, x)
      BY <2>3, <2>10, NotPassed, Zenon
    <3> HIDE DEF q
    <3> QED BY <2>6, <2>7, <2>8, <3>1, ZenonT(60) DEF n, p
  <2> QED BY <2>9, <2>10, Zenon
<1> QED BY <1>1, HistoryInitInv, HistoryStep, PTL DEF HistorySpec, WholePoolFirst

\* import_fake makes the search "advance past discarded addresses": an address of
\* the profile a core was started with goes to another name only after all
\* higher ones of the pool were used, whatever was saved and restored.
THEOREM SavedNeverReassignedEarly == HistorySpec => SavedNotReassigned
<1> DEFINE A == up = "running" /\ up' = "running" =>
                   \A a \in Handed \cap (filed \ DOMAIN passed) :
                      {b \in Pool(a.v6) : \A f \in filed : f.v6 = b.v6 => f.n < b.n} \subseteq DOMAIN passed \cup Passes(a.v6)
<1>1. HistoryInv /\ [Next /\ History]_historyVars => [A]_historyVars
  <2> SUFFICES ASSUME HistoryInv, Next, up = "running", up' = "running", NEW a \in Handed \cap filed, NEW b \in Fresh(a.v6)
               PROVE b \in DOMAIN passed \cup Passes(a.v6)
    BY Zenon DEF Fresh
  <2>1. FakeInv /\ FiledInv /\ range \in Ranges
    BY Zenon DEF HistoryInv, FakeInv
  <2>2. PICK v6 \in Families, k \in Nat :
           /\ LastOffset(v6) >= 2 /\ range' = range
           /\ Passes(v6) = {AttemptedIp(map, v6, i) : i \in 0..k}
           /\ map'.next = [map.next EXCEPT ![v6] = Attempt(map, v6, k) + 1]
           /\ Handed = {AttemptedIp(map, v6, k)}
    BY <2>1, HandedBySearch, Zenon
  <2> DEFINE p == Size(v6)
             n == From(map, v6)
             q == (n + k) % p
             net == range[v6].net
  <2>3. /\ p \in Nat \ {0} /\ n \in 0..(p - 1) /\ q \in 0..(p - 1) /\ net \in Nat
        /\ \A i \in Nat : AttemptedIp(map, v6, i) = At(v6, (n + i) % p)
    BY <2>1, <2>2, SearchEnds, Zenon
  <2>4. a = At(v6, q) /\ a.v6 = v6 /\ a.n = net + 2 + q
    <3>1. a = At(v6, q)
      BY <2>2, <2>3, Zenon
    <3> HIDE DEF q
    <3> QED BY <3>1, Zenon DEF At
  <2>5. a \in Pool(v6)
    BY <2>1, <2>2, <2>3, <2>4, PoolAt, Zenon
  <2>6. LastOffset(v6) \in Int /\ map.next[v6] \in Nat /\ map.next[v6] >= 2
    BY <2>1, PoolSize, MapParts, Zenon DEF FakeInv, MapOK
  <2>7. PICK x \in 0..(p - 1) : b = At(v6, x)
    BY <2>1, <2>4, PoolAt, Zenon DEF Fresh
  <2>8. b.n = net + 2 + x /\ b \in Fresh(v6)
    BY <2>4, <2>7, Zenon DEF At
  <2>9. CASE b \in DOMAIN passed
    BY <2>9, Zenon
  <2>10. CASE b \notin DOMAIN passed
    <3>1. a.n < net + map.next[v6] /\ ~(b.n < net + map.next[v6])
      BY <2>1, <2>5, <2>8, <2>10, ZenonT(60) DEF FiledInv
    <3>2. q + 2 < map.next[v6] /\ x + 2 >= map.next[v6]
      <4> HIDE DEF q, p, net
      <4> QED BY <2>3, <2>4, <2>6, <2>8, <3>1
    <3>3. n = map.next[v6] - 2
      <4>1. x \in Nat /\ x < LastOffset(v6) - 1
        BY <2>6, <2>7 DEF Size
      <4>2. ~(map.next[v6] > LastOffset(v6))
        BY <2>6, <3>2, <4>1
      <4> QED BY <4>2, Zenon DEF From
    <3> HIDE DEF n, p
    <3>4. ~(n + k < p)
      <4>1. CASE n + k < p
        <5>1. n + k \in 0..(p - 1)
          BY <2>3, <4>1
        <5>2. q = n + k
          BY <2>3, <5>1, Wrapped, Zenon
        <5> HIDE DEF q
        <5> QED BY <2>3, <2>6, <3>2, <3>3, <5>2
      <4> QED BY <4>1, Zenon
    <3>5. x >= n /\ x <= n + k
      <4>1. n \in Nat /\ p \in Nat /\ x \in Nat /\ x < p
        BY <2>3, <2>7
      <4> QED BY <2>6, <3>2, <3>3, <3>4, <4>1
    <3>6. x - n \in 0..k /\ (n + (x - n)) % p = x
      BY <2>3, <3>5, Upwards, Zenon
    <3>7. AttemptedIp(map, v6, x - n) = b
      BY <2>3, <2>7, <3>6
    <3> QED BY <2>2, <2>4, <3>6, <3>7, Zenon
  <2> QED BY <2>9, <2>10, Zenon
<1> QED BY <1>1, HistoryInitInv, HistoryStep, PTL DEF HistorySpec, SavedNotReassigned
=============================================================================
