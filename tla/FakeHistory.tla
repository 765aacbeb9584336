---------------------------- MODULE FakeHistory ----------------------------
(***************************************************************************)
(* The fake-IP map with its history: which addresses the search passed     *)
(* since each was handed out, and what the profile held when the core      *)
(* started.  No action reads them.                                         *)
(***************************************************************************)
EXTENDS FakeMap

VARIABLES
    passed,     \* address -> the addresses passed since it was handed out
    filed       \* addresses in the profile at the start of this process

historyVars == <<vars, passed, filed>>

HistoryInit == Init /\ passed = [a \in {} |-> {}] /\ filed = {}

\* What one query hands out and passes over.
Passes(v6) ==
    LET r == Room(map)
        free == FreeAttempts(r, v6)
        last == IF free = {} THEN Cardinality(DOMAIN r.byIp) ELSE Least(free)
    IN  IF LastOffset(v6) < 2 THEN {} ELSE {AttemptedIp(r, v6, i) : i \in 0..last}

Handed == {map'.byName[k].ip : k \in DOMAIN map'.byName \ DOMAIN map.byName}

History ==
    IF up = "running" /\ up' = "running"
    THEN LET p == UNION {Passes(v6) : v6 \in {v \in Families : map.next[v] # map'.next[v]}}
         IN  /\ passed' = [a \in DOMAIN passed \cup Handed |->
                              IF a \in Handed THEN {} ELSE passed[a] \cup p]
             /\ UNCHANGED filed
    ELSE /\ passed' = [a \in {} |-> {}]
         /\ filed' = IF up' = "running" THEN {e.ip : e \in Range(file)} ELSE {}

HistorySpec == HistoryInit /\ [][Next /\ History]_historyVars

-----------------------------------------------------------------------------
\* "Addresses advance through the whole pool before any is reused": an address
\* is handed out again only when every other one of its pool was passed since.
WholePoolFirst ==
    [][up = "running" /\ up' = "running" =>
          \A a \in Handed \cap DOMAIN passed :
             Pool(a.v6) \subseteq passed[a] \cup Passes(a.v6)]_historyVars

\* "advance past discarded addresses so cached clients cannot accidentally reach
\* a newly assigned, unrelated hostname": an address of the saved profile,
\* restored or not, goes to another name only after all higher ones were used.
SavedNotReassigned ==
    [][up = "running" /\ up' = "running" =>
          \A a \in Handed \cap (filed \ DOMAIN passed) :
             {b \in Pool(a.v6) : \A f \in filed : f.v6 = b.v6 => f.n < b.n}
                \subseteq DOMAIN passed \cup Passes(a.v6)]_historyVars
=============================================================================
