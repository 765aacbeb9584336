--------------------------- MODULE DesktopProofs ----------------------------
(***************************************************************************)
(* A desktop session uses its route transaction as RouteJournal says: every *)
(* step of Desktop is a step of RouteJournal or leaves it alone.  What is  *)
(* proved of RouteJournal therefore holds of whole sessions, with their    *)
(* network changes, DNS changes, failures, deaths and recoveries.          *)
(***************************************************************************)
EXTENDS Desktop, TLAPS

-----------------------------------------------------------------------------
(***************************************************************************)
(* Proofs about RouteJournal, for every set of prefixes and interfaces and *)
(* every sequence of applies, restores, failures, crashes and recoveries:  *)
(* the journal on disk covers every route that was added, apply leaves the *)
(* desired routes in force, and routes of others stay.                     *)
(***************************************************************************)

Route == [spec : RouteSpec, own : BOOLEAN]

\* The journal in memory covers the routes of ours, the file does so on its own
\* (WriteAhead), and a route about to be added is in both.
Covered ==
    /\ WriteAhead
    /\ tx.owner = "none" => journal = {} /\ tx.step = "idle"
    /\ tx.owner # "none" => Own(table) \subseteq journal
    /\ tx.owner = "session" /\ ~tx.failed => journal \subseteq Journaled
    /\ tx.step = "adding" => tx.at \subseteq journal /\ \A a, b \in tx.at : a = b
    /\ tx.step = "forget" => tx.at \cap Own(table) = {}
    /\ tx.step \notin {"adding", "forget"} => tx.at = {}

\* Which flags go with which step, and what is still to be removed.
Phases ==
    /\ tx.step \in {"replace", "add", "adding"} => tx.owner = "session" /\ ~tx.failed /\ ~tx.restoring
    /\ tx.step \in {"drop", "forget"} /\ ~tx.restoring => tx.owner = "session" /\ ~tx.failed
    /\ tx.owner = "recovery" => tx.restoring /\ tx.last
    /\ tx.restoring => tx.step \in {"drop", "forget"} /\ tx.desired = {} /\ journal \subseteq tx.todo \cup tx.at
    /\ tx.step \in {"replace", "drop", "forget"} => tx.todo \subseteq journal \ tx.at

\* How far apply has come.  Routes into the tunnel are only ever ours, so one
\* seen in the snapshot is still there.
Progress ==
    /\ \A r \in table \cup tx.present : r.spec.interface = Tun => r.own
    /\ tx.step \in {"add", "adding"} =>
          /\ \A r \in tx.present : r.spec.interface = Tun => r \in table
          /\ \A s \in tx.desired : s.interface = Tun => s \in Own(table) \cup tx.todo \cup tx.at
    /\ tx.step \in {"drop", "forget"} /\ ~tx.restoring =>
          /\ journal \subseteq tx.desired \cup tx.todo \cup tx.at
          /\ (tx.todo \cup tx.at) \cap tx.desired = {}
          /\ \A s \in tx.desired : s.interface = Tun => s \in Own(table)
    /\ tx.owner = "session" /\ tx.step = "idle" /\ ~tx.failed =>
          /\ journal \subseteq tx.desired
          /\ \A s \in tx.desired : s.interface = Tun => s \in Own(table)

IInv == JournalTypeOK /\ Covered /\ Phases /\ Progress

-----------------------------------------------------------------------------
(***************************************************************************)
(* The routes of ours in a changed table.                                  *)
(***************************************************************************)
\* Own, element by element.
LEMMA OwnMember == ASSUME NEW T, NEW s PROVE s \in Own(T) <=> \E r \in T : r.own /\ r.spec = s
BY Zenon DEF Own

\* A table with fewer routes has fewer of ours.
LEMMA OwnSubset == ASSUME NEW T, NEW U \in SUBSET T PROVE Own(U) \subseteq Own(T)
BY Zenon DEF Own

\* Transaction::remove takes out just the one of ours, on every platform.
LEMMA OwnWithout ==
    ASSUME JournalTypeOK, NEW s \in RouteSpec
    PROVE  Own(Without(s)) = Own(table) \ {s}
<1>1. ASSUME NEW r \in table, r.own PROVE Matches(s, r) <=> r.spec = s
  BY <1>1, Zenon DEF Matches
<1>2. ASSUME NEW x PROVE x \in Own(Without(s)) <=> x \in Own(table) /\ x # s
  BY <1>1, OwnMember DEF Without
<1> QED BY <1>2, Zenon

\* Adding a route of ours, and one of another program.
LEMMA OwnAdd ==
    ASSUME NEW T, NEW s PROVE Own(T \cup {[spec |-> s, own |-> TRUE]}) = Own(T) \cup {s}
<1> DEFINE r == [spec |-> s, own |-> TRUE]
<1>1. r.own /\ r.spec = s
  BY Zenon
<1> HIDE DEF r
<1>2. ASSUME NEW x PROVE x \in Own(T \cup {r}) <=> x \in Own(T) \/ x = s
  BY <1>1, OwnMember
<1>3. Own(T \cup {r}) = Own(T) \cup {s}
  BY <1>2, Zenon
<1> QED BY <1>3, Zenon DEF r

LEMMA OwnOther ==
    ASSUME NEW T, NEW s PROVE Own(T \cup {[spec |-> s, own |-> FALSE]}) = Own(T)
<1> DEFINE r == [spec |-> s, own |-> FALSE]
<1>1. ~r.own
  BY Zenon
<1> HIDE DEF r
<1>2. ASSUME NEW x PROVE x \in Own(T \cup {r}) <=> x \in Own(T)
  BY <1>1, OwnMember
<1>3. Own(T \cup {r}) = Own(T)
  BY <1>2, Zenon
<1> QED BY <1>3, Zenon DEF r

-----------------------------------------------------------------------------
(***************************************************************************)
(* Every action keeps the invariant.                                       *)
(***************************************************************************)
\* The transaction record.
Tx == [owner : {"none", "session", "recovery"}, step : {"idle", "replace", "add", "adding", "drop", "forget"},
       restoring : BOOLEAN, failed : BOOLEAN, last : BOOLEAN, todo : SUBSET RouteSpec, at : SUBSET RouteSpec,
       present : SUBSET Route, desired : SUBSET RouteSpec]

LEMMA TxType == JournalTypeOK => tx \in Tx
BY Zenon DEF JournalTypeOK, Tx, Route

LEMMA InitInv == JournalInit => IInv
<1> SUFFICES ASSUME JournalInit PROVE IInv
  BY Zenon
<1>1. Own({}) = {}
  BY Zenon DEF Own
<1>2. JournalTypeOK
  BY TunAssumption, Zenon DEF JournalInit, JournalTypeOK, Closed, Platform
<1>3. Covered
  BY <1>1, Zenon DEF JournalInit, Covered, WriteAhead, Closed
<1>4. Phases /\ Progress
  BY Zenon DEF JournalInit, Phases, Progress, Closed
<1> QED BY <1>2, <1>3, <1>4, Zenon DEF IInv

LEMMA OpenInv == ASSUME IInv, NEW desired \in SUBSET RouteSpec, Open(desired) PROVE IInv'
<1> USE DEF IInv
<1>1. /\ tx.owner = "none" /\ journal = {} /\ Journaled = {}
      /\ tx' = [Closed EXCEPT !.owner = "session", !.step = "replace", !.desired = desired]
      /\ up' = up \cup {Tun} /\ UNCHANGED <<platform, table, disk, journal>>
  BY Zenon DEF Open, Covered
<1>2. /\ tx'.owner = "session" /\ tx'.step = "replace" /\ tx'.desired = desired
      /\ ~tx'.restoring /\ ~tx'.failed /\ tx'.todo = {} /\ tx'.at = {} /\ tx'.present = {}
  BY <1>1, Zenon DEF Closed
<1>3. JournalTypeOK'
  BY <1>1, TunAssumption, Zenon DEF JournalTypeOK, Closed, Platform
<1>4. Own(table) = {}
  BY <1>1, Zenon DEF Covered, WriteAhead
<1>5. Covered'
  BY <1>1, <1>2, <1>4, Zenon DEF Covered, WriteAhead, Journaled, Own
<1>6. Phases'
  BY <1>1, <1>2, Zenon DEF Phases
<1>7. Progress'
  BY <1>1, <1>2, Zenon DEF Progress
<1> QED BY <1>3, <1>5, <1>6, <1>7, Zenon
LEMMA RefreshInv == ASSUME IInv, NEW desired \in SUBSET RouteSpec, Refresh(desired) PROVE IInv'
<1> USE DEF IInv
<1>0. tx \in Tx
  BY TxType, Zenon
<1>1. /\ tx.owner = "session" /\ tx.step = "idle" /\ ~tx.failed
      /\ tx' = [tx EXCEPT !.desired = desired, !.step = "replace", !.todo = Replaced(desired)]
      /\ UNCHANGED <<platform, up, table, disk, journal>>
  BY Zenon DEF Refresh
<1>2. /\ tx'.owner = "session" /\ tx'.step = "replace" /\ tx'.todo = Replaced(desired) /\ tx'.at = tx.at
      /\ tx'.restoring = tx.restoring /\ tx'.failed = tx.failed /\ tx'.last = tx.last /\ tx'.present = tx.present
      /\ tx' \in Tx
  <2>1. Replaced(desired) \in SUBSET RouteSpec
    BY Zenon DEF Replaced, JournalTypeOK
  <2> QED BY <1>0, <1>1, <2>1, Zenon DEF Tx
<1>3. JournalTypeOK'
  BY <1>1, <1>2, Zenon DEF JournalTypeOK, Tx, Route
<1>4. Covered'
  BY <1>1, <1>2, Zenon DEF Covered, WriteAhead, Journaled, Own
<1>5. Phases'
  BY <1>1, <1>2, Zenon DEF Phases, Covered, Replaced
<1>6. Progress'
  BY <1>1, <1>2, Zenon DEF Progress
<1> QED BY <1>3, <1>4, <1>5, <1>6, Zenon

LEMMA ReplaceInv == ASSUME IInv, NEW s \in RouteSpec, Replace(s) PROVE IInv'
<1> USE DEF IInv
<1>0. tx \in Tx
  BY TxType, Zenon
<1>1. /\ tx.step = "replace" /\ tx.owner # "none" /\ s \in tx.todo /\ table' = Without(s)
      /\ tx' = [tx EXCEPT !.todo = @ \ {s}]
      /\ UNCHANGED <<platform, up, disk, journal>>
  BY Zenon DEF Replace, At
<1>2. /\ tx'.owner = tx.owner /\ tx'.step = "replace" /\ tx'.todo = tx.todo \ {s} /\ tx'.at = tx.at /\ tx'.desired = tx.desired
      /\ tx'.restoring = tx.restoring /\ tx'.failed = tx.failed /\ tx'.last = tx.last /\ tx'.present = tx.present
      /\ tx' \in Tx
  BY <1>0, <1>1, Zenon DEF Tx
<1>3. table' \subseteq table /\ Own(table') \subseteq Own(table)
  BY <1>1, OwnSubset, Zenon DEF Without
<1>4. JournalTypeOK'
  BY <1>1, <1>2, <1>3, Zenon DEF JournalTypeOK, Tx, Route
<1>5. Covered'
  BY <1>1, <1>2, <1>3, Zenon DEF Covered, WriteAhead, Journaled
<1>6. Phases'
  BY <1>1, <1>2, Zenon DEF Phases
<1>7. Progress'
  BY <1>1, <1>2, <1>3, Zenon DEF Progress
<1> QED BY <1>4, <1>5, <1>6, <1>7, Zenon

LEMMA ListInv == ASSUME IInv, List PROVE IInv'
<1> USE DEF IInv
<1>0. tx \in Tx
  BY TxType, Zenon
<1>1. /\ tx.step = "replace" /\ tx.owner # "none"
      /\ tx' = [tx EXCEPT !.present = table, !.todo = tx.desired, !.step = "add"]
      /\ UNCHANGED <<platform, up, table, disk, journal>>
  BY Zenon DEF List, At
<1>2. /\ tx'.owner = tx.owner /\ tx'.step = "add" /\ tx'.todo = tx.desired /\ tx'.at = tx.at /\ tx'.desired = tx.desired
      /\ tx'.restoring = tx.restoring /\ tx'.failed = tx.failed /\ tx'.last = tx.last /\ tx'.present = table
      /\ tx' \in Tx
  <2>1. table \in SUBSET Route
    BY Zenon DEF JournalTypeOK, Route
  <2> QED BY <1>0, <1>1, <2>1, Zenon DEF Tx
<1>3. JournalTypeOK'
  BY <1>1, <1>2, Zenon DEF JournalTypeOK, Tx, Route
<1>4. Covered'
  BY <1>1, <1>2, Zenon DEF Covered, WriteAhead, Journaled, Own
<1>5. Phases'
  BY <1>1, <1>2, Zenon DEF Phases
<1>6. Progress'
  BY <1>1, <1>2, Zenon DEF Progress
<1> QED BY <1>3, <1>4, <1>5, <1>6, Zenon

LEMMA JournalInv == ASSUME IInv, NEW s \in RouteSpec, Journal(s) PROVE IInv'
<1> USE DEF IInv
<1>0. tx \in Tx
  BY TxType, Zenon
<1>1. /\ tx.step = "add" /\ tx.owner = "session" /\ ~tx.failed /\ ~tx.restoring /\ tx.at = {} /\ s \in tx.todo
      /\ UNCHANGED <<platform, up, table>>
  BY Zenon DEF Journal, At, Phases, Covered
<1>2. CASE InPlace(s)
  <2>1. tx' = [tx EXCEPT !.todo = @ \ {s}] /\ UNCHANGED <<disk, journal>>
    BY <1>2, Zenon DEF Journal
  <2>2. /\ tx'.owner = tx.owner /\ tx'.step = "add" /\ tx'.todo = tx.todo \ {s} /\ tx'.at = {} /\ tx'.desired = tx.desired
        /\ tx'.restoring = tx.restoring /\ tx'.failed = tx.failed /\ tx'.last = tx.last /\ tx'.present = tx.present
        /\ tx' \in Tx
    BY <1>0, <1>1, <2>1, Zenon DEF Tx
  <2>3. s.interface = Tun => s \in Own(table)
    <3> SUFFICES ASSUME s.interface = Tun PROVE s \in Own(table)
      BY Zenon
    <3>1. PICK r \in tx.present : r.spec = s
      BY <1>2, Zenon DEF InPlace, Matches
    <3>2. r \in table /\ r.own
      BY <1>1, <3>1, Zenon DEF Progress
    <3> QED BY <3>1, <3>2, OwnMember, Zenon
  <2>4. JournalTypeOK'
    BY <1>1, <2>1, <2>2, Zenon DEF JournalTypeOK, Tx, Route
  <2>5. Covered'
    BY <1>1, <2>1, <2>2, Zenon DEF Covered, WriteAhead, Journaled, Own
  <2>6. Phases'
    BY <1>1, <2>1, <2>2, Zenon DEF Phases
  <2>7. Progress'
    BY <1>1, <2>1, <2>2, <2>3, Zenon DEF Progress
  <2> QED BY <2>4, <2>5, <2>6, <2>7, Zenon
<1>3. CASE ~InPlace(s)
  <2>1. /\ tx' = [tx EXCEPT !.todo = @ \ {s}, !.at = {s}, !.step = "adding"]
        /\ journal' = journal \cup {s}
        /\ disk' = IF s \in journal THEN disk ELSE {journal'}
    BY <1>3, Zenon DEF Journal, Saved
  <2>2. /\ tx'.owner = tx.owner /\ tx'.step = "adding" /\ tx'.todo = tx.todo \ {s} /\ tx'.at = {s} /\ tx'.desired = tx.desired
        /\ tx'.restoring = tx.restoring /\ tx'.failed = tx.failed /\ tx'.last = tx.last /\ tx'.present = tx.present
        /\ tx' \in Tx
    BY <1>0, <1>1, <2>1, Zenon DEF Tx
  <2>3. journal' \subseteq UNION disk'
    BY <1>1, <2>1, Zenon DEF Covered, Journaled
  <2>4. JournalTypeOK'
    BY <1>1, <2>1, <2>2, ZenonT(30) DEF JournalTypeOK, Tx, Route
  <2>5. Covered'
    BY <1>1, <2>1, <2>2, <2>3, Zenon DEF Covered, WriteAhead, Journaled, Own
  <2>6. Phases'
    BY <1>1, <2>1, <2>2, Zenon DEF Phases
  <2>7. Progress'
    BY <1>1, <2>1, <2>2, Zenon DEF Progress
  <2> QED BY <2>4, <2>5, <2>6, <2>7, Zenon
<1> QED BY <1>2, <1>3, Zenon
LEMMA AddInv == ASSUME IInv, NEW s \in RouteSpec, Add(s) PROVE IInv'
<1> USE DEF IInv
<1>0. tx \in Tx
  BY TxType, Zenon
<1>1. /\ tx.step = "adding" /\ tx.owner = "session" /\ ~tx.failed /\ ~tx.restoring
      /\ s \in tx.at /\ s \in journal /\ s \in Journaled /\ s.interface \in up
      /\ tx' = [tx EXCEPT !.at = {}, !.step = "add"]
      /\ UNCHANGED <<platform, up, disk, journal>>
  BY Zenon DEF Add, At, Accepted, Phases, Covered
<1>2. PICK new \in Route : table' = table \cup {new} /\ new.spec = s /\ new.own
  <2>1. [spec |-> s, own |-> TRUE] \in Route
    BY Zenon DEF Route
  <2> QED BY <2>1, Zenon DEF Add
<1>3. /\ tx'.owner = tx.owner /\ tx'.step = "add" /\ tx'.todo = tx.todo /\ tx'.at = {} /\ tx'.desired = tx.desired
      /\ tx'.restoring = tx.restoring /\ tx'.failed = tx.failed /\ tx'.last = tx.last /\ tx'.present = tx.present
      /\ tx' \in Tx
  BY <1>0, <1>1, Zenon DEF Tx
<1>4. Own(table') = Own(table) \cup {s}
  BY OwnAdd, Zenon DEF Add
<1>5. tx.at = {s}
  BY <1>1, Zenon DEF Covered
<1>6. JournalTypeOK'
  BY <1>1, <1>3, <1>2 DEF JournalTypeOK, Tx, Route
<1>7. Covered'
  BY <1>1, <1>3, <1>4, Zenon DEF Covered, WriteAhead, Journaled
<1>8. Phases'
  BY <1>1, <1>3, Zenon DEF Phases
<1>9. Progress'
  BY <1>1, <1>3, <1>4, <1>5, <1>2, Zenon DEF Progress
<1> QED BY <1>6, <1>7, <1>8, <1>9, Zenon

\* A step that ends in an error leaves the table and the file as they are, or the
\* file saved.
LEMMA FailedInv ==
    ASSUME IInv, tx.owner = "session", tx' = Failed, UNCHANGED <<platform, up, table>>,
           Own(table) \subseteq journal', journal' \subseteq RouteSpec,
           disk' = disk \/ disk' = {journal'}
    PROVE  IInv'
<1> USE DEF IInv
<1>0. tx \in Tx
  BY TxType, Zenon
<1>1. /\ tx'.owner = "session" /\ tx'.step = "idle" /\ tx'.todo = {} /\ tx'.at = {} /\ tx'.desired = tx.desired
      /\ ~tx'.restoring /\ tx'.failed /\ tx'.last = tx.last /\ tx'.present = {}
      /\ tx' \in Tx
  BY <1>0, Zenon DEF Failed, Tx
<1>2. JournalTypeOK'
  BY <1>1 DEF JournalTypeOK, Tx, Route
<1>3. Covered'
  BY <1>1, Zenon DEF Covered, WriteAhead, Journaled, Own
<1>4. Phases'
  BY <1>1, Zenon DEF Phases
<1>5. Progress'
  BY <1>1, Zenon DEF Progress
<1> QED BY <1>2, <1>3, <1>4, <1>5, Zenon

LEMMA AddRejectedInv == ASSUME IInv, NEW s \in RouteSpec, AddRejected(s) PROVE IInv'
<1>1. tx.owner = "session" /\ Own(table) \subseteq journal /\ journal \subseteq RouteSpec
  BY Zenon DEF AddRejected, At, IInv, Phases, Covered, JournalTypeOK
<1> QED BY <1>1, FailedInv, Zenon DEF AddRejected

LEMMA CallFailsInv == ASSUME IInv, CallFails PROVE IInv'
<1>1. tx.owner = "session" /\ Own(table) \subseteq journal /\ journal \subseteq RouteSpec
  BY Zenon DEF CallFails, At, IInv, Phases, Covered, JournalTypeOK
<1> QED BY <1>1, FailedInv, Zenon DEF CallFails

LEMMA SaveFailsInv == ASSUME IInv, SaveFails PROVE IInv'
<1>0. tx \in Tx
  BY TxType, Zenon DEF IInv
<1>1. tx.owner = "session" /\ Own(table) \subseteq journal /\ journal \subseteq RouteSpec
  BY Zenon DEF SaveFails, At, IInv, Phases, Covered, JournalTypeOK
<1>2. Own(table) \subseteq journal' /\ journal' \subseteq RouteSpec
  <2>1. CASE At("add") /\ \E s \in tx.todo \ journal : journal' = journal \cup {s}
    BY <1>0, <1>1, <2>1, Zenon DEF Tx
  <2>2. CASE At("forget") /\ journal' = journal \ tx.at
    BY <1>1, <2>2, Zenon DEF At, IInv, Covered
  <2> QED BY <2>1, <2>2, Zenon DEF SaveFails
<1> QED BY <1>1, <1>2, FailedInv, Zenon DEF SaveFails

LEMMA AddsDoneInv == ASSUME IInv, AddsDone PROVE IInv'
<1> USE DEF IInv
<1>0. tx \in Tx
  BY TxType, Zenon
<1>1. /\ tx.step = "add" /\ tx.owner = "session" /\ ~tx.failed /\ ~tx.restoring /\ tx.at = {} /\ tx.todo = {}
      /\ tx' = [tx EXCEPT !.todo = journal \ tx.desired, !.present = {}, !.step = "drop"]
      /\ UNCHANGED <<platform, up, table, disk, journal>>
  BY Zenon DEF AddsDone, At, Obsolete, Phases, Covered
<1>2. /\ tx'.owner = tx.owner /\ tx'.step = "drop" /\ tx'.todo = journal \ tx.desired /\ tx'.at = {} /\ tx'.desired = tx.desired
      /\ tx'.restoring = tx.restoring /\ tx'.failed = tx.failed /\ tx'.last = tx.last /\ tx'.present = {}
      /\ tx' \in Tx
  BY <1>0, <1>1, Zenon DEF Tx, JournalTypeOK
<1>3. JournalTypeOK'
  BY <1>1, <1>2, Zenon DEF JournalTypeOK, Tx, Route
<1>4. Covered'
  BY <1>1, <1>2, Zenon DEF Covered, WriteAhead, Journaled, Own
<1>5. Phases'
  BY <1>1, <1>2, Zenon DEF Phases
<1>6. Progress'
  <2>1. \A s \in tx.desired : s.interface = Tun => s \in Own(table)
    BY <1>1, Zenon DEF Progress
  <2> QED BY <1>1, <1>2, <2>1, Zenon DEF Progress, Own
<1> QED BY <1>3, <1>4, <1>5, <1>6, Zenon

LEMMA RestoresInv ==
    ASSUME IInv, NEW last \in BOOLEAN, tx.owner = "session", tx.step = "idle", Restores(last)
    PROVE  IInv'
<1> USE DEF IInv
<1>0. tx \in Tx
  BY TxType, Zenon
<1>1. /\ tx' = [tx EXCEPT !.restoring = TRUE, !.last = last, !.todo = journal, !.desired = {}, !.step = "drop"]
      /\ UNCHANGED <<platform, up, table, disk, journal>> /\ tx.at = {}
  BY Zenon DEF Restores, Covered
<1>2. /\ tx'.owner = "session" /\ tx'.step = "drop" /\ tx'.todo = journal /\ tx'.at = {} /\ tx'.desired = {}
      /\ tx'.restoring /\ tx'.failed = tx.failed /\ tx'.last = last /\ tx'.present = tx.present
      /\ tx' \in Tx
  BY <1>0, <1>1, Zenon DEF Tx, JournalTypeOK
<1>3. JournalTypeOK'
  BY <1>1, <1>2, Zenon DEF JournalTypeOK, Tx, Route
<1>4. Covered'
  BY <1>1, <1>2, Zenon DEF Covered, WriteAhead, Journaled, Own
<1>5. Phases'
  BY <1>1, <1>2, Zenon DEF Phases
<1>6. Progress'
  BY <1>1, <1>2, Zenon DEF Progress
<1> QED BY <1>3, <1>4, <1>5, <1>6, Zenon

\* The process is gone: what is on file covers what it left.
LEMMA CloseInv ==
    ASSUME IInv, Close, disk' \subseteq SUBSET RouteSpec, \A a, b \in disk' : a = b, Own(table') \subseteq UNION disk'
    PROVE  IInv'
<1> USE DEF IInv
<1>1. tx' = Closed /\ journal' = {} /\ platform' = platform
  BY Zenon DEF Close
<1>2. /\ tx'.owner = "none" /\ tx'.step = "idle" /\ tx'.todo = {} /\ tx'.at = {} /\ tx'.desired = {}
      /\ ~tx'.restoring /\ ~tx'.failed /\ ~tx'.last /\ tx'.present = {} /\ tx' \in Tx
  BY <1>1, Zenon DEF Closed, Tx
<1>3. /\ up' = up \ {Tun} /\ table' \subseteq table /\ \A r \in table' : r.spec.interface \in up'
  BY DEF Close, TunGone, JournalTypeOK
<1>4. JournalTypeOK'
  BY <1>1, <1>2, <1>3, Zenon DEF JournalTypeOK, Tx, Route
<1>5. Covered'
  BY <1>1, <1>2, Zenon DEF Covered, WriteAhead, Journaled
<1>6. Phases'
  BY <1>1, <1>2, Zenon DEF Phases
<1>7. Progress'
  BY <1>1, <1>2, <1>3, Zenon DEF Progress
<1> QED BY <1>4, <1>5, <1>6, <1>7, Zenon
LEMMA DropTunInv == ASSUME IInv, DropTun PROVE IInv'
<1>1. CASE journal = {}
  <2>1. Close /\ disk' = disk /\ table' \subseteq table
    BY <1>1, Zenon DEF DropTun, Close, TunGone
  <2>2. Own(table') \subseteq Journaled
    BY <2>1, OwnSubset, Zenon DEF IInv, Covered, WriteAhead
  <2> QED BY <2>1, <2>2, CloseInv, Zenon DEF IInv, JournalTypeOK, Journaled
<1>2. CASE journal # {}
  BY <1>2, RestoresInv, Zenon DEF DropTun
<1> QED BY <1>1, <1>2, Zenon

LEMMA RecoverInv == ASSUME IInv, Recover PROVE IInv'
<1> USE DEF IInv
<1>1. /\ tx.owner = "none" /\ journal' = Known
      /\ tx' = [Closed EXCEPT !.owner = "recovery", !.restoring = TRUE, !.last = TRUE, !.todo = Known, !.step = "drop"]
      /\ UNCHANGED <<platform, up, table, disk>>
  BY Zenon DEF Recover
<1>2. Known \subseteq RouteSpec
  BY Zenon DEF Known, Journaled, JournalTypeOK
<1>3. /\ tx'.owner = "recovery" /\ tx'.step = "drop" /\ tx'.todo = Known /\ tx'.at = {} /\ tx'.desired = {}
      /\ tx'.restoring /\ ~tx'.failed /\ tx'.last /\ tx'.present = {}
  BY <1>1, Zenon DEF Closed
<1>4. tx' \in Tx
  BY <1>1, <1>2, Zenon DEF Closed, Tx
<1>5. JournalTypeOK'
  BY <1>1, <1>2, <1>3, <1>4, Zenon DEF JournalTypeOK, Tx, Route
\* The routes of ours that are left are on interfaces that exist.
<1>6. Own(table) \subseteq Known
  <2> SUFFICES ASSUME NEW s \in Own(table) PROVE s \in Known
    BY Zenon
  <2>1. PICK r \in table : r.own /\ r.spec = s
    BY OwnMember, Zenon
  <2>2. s \in Journaled /\ s.interface \in up
    BY <2>1, Zenon DEF Covered, WriteAhead, JournalTypeOK
  <2> QED BY <2>2, Zenon DEF Known
<1>7. Covered'
  BY <1>1, <1>3, <1>6, Zenon DEF Covered, WriteAhead, Journaled, Own
<1>8. Phases'
  BY <1>1, <1>3, Zenon DEF Phases
<1>9. Progress'
  BY <1>1, <1>3, Zenon DEF Progress
<1> QED BY <1>5, <1>7, <1>8, <1>9, Zenon

LEMMA DropInv == ASSUME IInv, NEW s \in RouteSpec, Drop(s) PROVE IInv'
<1> USE DEF IInv
<1>0. tx \in Tx
  BY TxType, Zenon
<1>1. /\ tx.step = "drop" /\ tx.owner # "none" /\ s \in tx.todo /\ tx.at = {}
      /\ table' = Without(s)
      /\ tx' = [tx EXCEPT !.todo = @ \ {s}, !.at = {s}, !.step = "forget"]
      /\ UNCHANGED <<platform, up, disk, journal>>
  BY Zenon DEF Drop, At, Covered
<1>2. /\ tx'.owner = tx.owner /\ tx'.step = "forget" /\ tx'.todo = tx.todo \ {s} /\ tx'.at = {s} /\ tx'.desired = tx.desired
      /\ tx'.restoring = tx.restoring /\ tx'.failed = tx.failed /\ tx'.last = tx.last /\ tx'.present = tx.present
      /\ tx' \in Tx
  BY <1>0, <1>1, Zenon DEF Tx
<1>3. table' \subseteq table /\ Own(table') = Own(table) \ {s}
  BY <1>1, OwnWithout, Zenon DEF Without
<1>4. JournalTypeOK'
  BY <1>1, <1>2, <1>3, Zenon DEF JournalTypeOK, Tx, Route
<1>5. Covered'
  BY <1>1, <1>2, <1>3, Zenon DEF Covered, WriteAhead, Journaled
<1>6. Phases'
  BY <1>1, <1>2, Zenon DEF Phases
<1>7. Progress'
  BY <1>1, <1>2, <1>3 DEF Progress
<1> QED BY <1>4, <1>5, <1>6, <1>7, Zenon

LEMMA ForgetInv == ASSUME IInv, Forget PROVE IInv'
<1> USE DEF IInv
<1>0. tx \in Tx
  BY TxType, Zenon
<1>1. /\ tx.step = "forget" /\ tx.owner # "none" /\ journal' = journal \ tx.at /\ disk' = {journal'}
      /\ tx' = [tx EXCEPT !.at = {}, !.step = "drop"]
      /\ UNCHANGED <<platform, up, table>>
  BY Zenon DEF Forget, At
<1>2. /\ tx'.owner = tx.owner /\ tx'.step = "drop" /\ tx'.todo = tx.todo /\ tx'.at = {} /\ tx'.desired = tx.desired
      /\ tx'.restoring = tx.restoring /\ tx'.failed = tx.failed /\ tx'.last = tx.last /\ tx'.present = tx.present
      /\ tx' \in Tx
  BY <1>0, <1>1, Zenon DEF Tx
<1>3. Own(table') = Own(table) /\ Own(table) \subseteq journal' /\ UNION disk' = journal'
  BY <1>1, Zenon DEF Covered, Own
<1>4. JournalTypeOK'
  BY <1>1, <1>2, Zenon DEF JournalTypeOK, Tx, Route
<1>5. Covered'
  BY <1>1, <1>2, <1>3, Zenon DEF Covered, WriteAhead, Journaled
<1>6. Phases'
  BY <1>1, <1>2, Zenon DEF Phases
<1>7. Progress'
  BY <1>1, <1>2, <1>3, Zenon DEF Progress
<1> QED BY <1>4, <1>5, <1>6, <1>7, Zenon

LEMMA AppliedInv == ASSUME IInv, Applied PROVE IInv'
<1> USE DEF IInv
<1>0. tx \in Tx
  BY TxType, Zenon
<1>1. /\ tx.step = "drop" /\ tx.owner # "none" /\ ~tx.restoring /\ tx.todo = {}
      /\ tx' = [tx EXCEPT !.step = "idle"]
      /\ UNCHANGED <<platform, up, table, disk, journal>>
  BY Zenon DEF Applied, At
<1>2. /\ tx'.owner = tx.owner /\ tx'.step = "idle" /\ tx'.todo = tx.todo /\ tx'.at = tx.at /\ tx'.desired = tx.desired
      /\ tx'.restoring = tx.restoring /\ tx'.failed = tx.failed /\ tx'.last = tx.last /\ tx'.present = tx.present
      /\ tx' \in Tx
  BY <1>0, <1>1, Zenon DEF Tx
<1>3. JournalTypeOK'
  BY <1>1, <1>2, Zenon DEF JournalTypeOK, Tx, Route
<1>4. Covered'
  BY <1>1, <1>2, Zenon DEF Covered, WriteAhead, Journaled, Own
<1>5. Phases'
  BY <1>1, <1>2, Zenon DEF Phases
<1>6. Progress'
  BY <1>1, <1>2, Zenon DEF Progress, Covered, Own
<1> QED BY <1>3, <1>4, <1>5, <1>6, Zenon

LEMMA RestoredInv == ASSUME IInv, Restored PROVE IInv'
<1> USE DEF IInv
<1>0. tx \in Tx
  BY TxType, Zenon
<1>1. /\ tx.step = "drop" /\ tx.owner # "none" /\ tx.restoring /\ tx.todo = {} /\ disk' = {}
      /\ journal = {} /\ Own(table) = {} /\ tx.desired = {} /\ tx.at = {}
  BY Zenon DEF Restored, At, Phases, Covered
<1>2. CASE tx.last
  <2>1. Close /\ table' \subseteq table
    BY <1>2, Zenon DEF Restored, Close, TunGone
  <2> QED BY <1>1, <2>1, OwnSubset, CloseInv, Zenon
<1>3. CASE ~tx.last
  <2>1. /\ tx' = [tx EXCEPT !.restoring = FALSE, !.step = "idle"]
        /\ UNCHANGED <<platform, up, table, journal>>
    BY <1>3, Zenon DEF Restored
  <2>2. /\ tx'.owner = tx.owner /\ tx'.step = "idle" /\ tx'.todo = {} /\ tx'.at = {} /\ tx'.desired = {}
        /\ ~tx'.restoring /\ tx'.failed = tx.failed /\ tx'.last = tx.last /\ tx'.present = tx.present
        /\ tx' \in Tx
    BY <1>0, <1>1, <2>1, Zenon DEF Tx
  <2>3. tx.owner = "session"
    BY <1>0, <1>1, <1>3, Zenon DEF Phases, Tx
  <2>4. JournalTypeOK'
    BY <1>1, <2>1, <2>2, Zenon DEF JournalTypeOK, Tx, Route
  <2>5. Covered'
    BY <1>1, <2>1, <2>2, <2>3, Zenon DEF Covered, WriteAhead, Journaled, Own
  <2>6. Phases'
    BY <2>1, <2>2, <2>3, Zenon DEF Phases
  <2>7. Progress'
    BY <1>1, <2>1, <2>2, Zenon DEF Progress
  <2> QED BY <2>4, <2>5, <2>6, <2>7, Zenon
<1> QED BY <1>2, <1>3, Zenon

LEMMA RestoreFailsInv == ASSUME IInv, RestoreFails PROVE IInv'
<1>0. tx \in Tx
  BY TxType, Zenon DEF IInv
<1>1. /\ tx.owner # "none" /\ tx.restoring /\ tx.step \in {"drop", "forget"}
      /\ disk' = disk \/ disk' = {journal \ tx.at}
      /\ Own(table) \subseteq journal \ tx.at /\ journal \subseteq RouteSpec
  BY Zenon DEF RestoreFails, At, IInv, Covered, JournalTypeOK
<1>2. CASE tx.last
  <2>1. Close /\ table' \subseteq table
    BY <1>2, Zenon DEF RestoreFails, Close, TunGone
  <2>2. Own(table') \subseteq UNION disk'
    BY <1>1, <2>1, OwnSubset, Zenon DEF IInv, Covered, WriteAhead, Journaled
  <2>3. disk' \subseteq SUBSET RouteSpec /\ \A a, b \in disk' : a = b
    BY <1>1, Zenon DEF IInv, JournalTypeOK
  <2> QED BY <2>1, <2>2, <2>3, CloseInv, Zenon
<1>3. CASE ~tx.last
  <2>1. tx.owner = "session"
    BY <1>0, <1>1, <1>3, Zenon DEF IInv, Phases, Tx
  <2> QED BY <1>1, <1>3, <2>1, FailedInv, Zenon DEF RestoreFails
<1> QED BY <1>2, <1>3, Zenon

LEMMA CrashInv == ASSUME IInv, Crash PROVE IInv'
<1>1. Close /\ disk' = disk /\ table' \subseteq table
  BY Zenon DEF Crash, Close, TunGone
<1>2. Own(table') \subseteq Journaled
  BY <1>1, OwnSubset, Zenon DEF IInv, Covered, WriteAhead
<1> QED BY <1>1, <1>2, CloseInv, Zenon DEF IInv, JournalTypeOK, Journaled
LEMMA LinkDownInv == ASSUME IInv, NEW i \in Interface, LinkDown(i) PROVE IInv'
<1> USE DEF IInv
<1>1. /\ i \in up /\ i # Tun /\ up' = up \ {i} /\ table' = {r \in table : r.spec.interface # i}
      /\ UNCHANGED <<platform, disk, journal, tx>>
  BY Zenon DEF LinkDown
\* The routes into the tunnel stay.
<1>2. /\ table' \subseteq table /\ Own(table') \subseteq Own(table)
      /\ \A r \in table : r.spec.interface = Tun => r \in table'
  BY <1>1, OwnSubset, Zenon
<1>3. \A s \in Own(table) : s.interface = Tun => s \in Own(table')
  BY <1>2, OwnMember
<1>4. JournalTypeOK'
  BY <1>1, <1>2, Zenon DEF JournalTypeOK
<1>5. Covered'
  BY <1>1, <1>2, Zenon DEF Covered, WriteAhead, Journaled
<1>6. Phases'
  BY <1>1, Zenon DEF Phases
<1>7. Progress'
  BY <1>1, <1>2, <1>3, Zenon DEF Progress
<1> QED BY <1>4, <1>5, <1>6, <1>7, Zenon

LEMMA LinkUpInv == ASSUME IInv, NEW i \in Interface, LinkUp(i) PROVE IInv'
<1> USE DEF IInv
<1>1. i # Tun /\ up' = up \cup {i} /\ UNCHANGED <<platform, table, disk, journal, tx>>
  BY Zenon DEF LinkUp
<1>2. JournalTypeOK'
  BY <1>1, Zenon DEF JournalTypeOK
<1>3. Covered' /\ Phases' /\ Progress'
  BY <1>1, Zenon DEF Covered, WriteAhead, Journaled, Own, Phases, Progress
<1> QED BY <1>2, <1>3, Zenon

LEMMA OtherAddsInv == ASSUME IInv, NEW s \in RouteSpec, OtherAdds(s) PROVE IInv'
<1> USE DEF IInv
<1>1. s.interface \in up /\ s.interface # Tun /\ UNCHANGED <<platform, up, disk, journal, tx>>
  BY Zenon DEF OtherAdds
<1>2. PICK new \in Route : table' = table \cup {new} /\ new.spec = s
  <2>1. [spec |-> s, own |-> FALSE] \in Route
    BY Zenon DEF Route
  <2> QED BY <2>1, Zenon DEF OtherAdds
<1>3. Own(table') = Own(table)
  BY OwnOther, Zenon DEF OtherAdds
<1>4. JournalTypeOK'
  BY <1>1, <1>2, Zenon DEF JournalTypeOK, Route
<1>5. Covered'
  BY <1>1, <1>3, Zenon DEF Covered, WriteAhead, Journaled
<1>6. Phases'
  BY <1>1, Zenon DEF Phases
<1>7. Progress'
  BY <1>1, <1>2, <1>3, Zenon DEF Progress
<1> QED BY <1>4, <1>5, <1>6, <1>7, Zenon

LEMMA StepInv == ASSUME IInv, [JournalNext]_journalVars PROVE IInv'
<1>1. CASE \E desired \in SUBSET RouteSpec : Open(desired) \/ Refresh(desired)
  BY <1>1, OpenInv, RefreshInv, Zenon
<1>2. CASE ApplyStep
  BY <1>2, ReplaceInv, JournalInv, AddInv, AddRejectedInv, DropInv, ListInv, AddsDoneInv, ForgetInv, AppliedInv,
     RestoredInv, Zenon DEF ApplyStep
<1>3. CASE Restore \/ DropTun \/ Recover
  BY <1>3, RestoresInv, DropTunInv, RecoverInv, Zenon DEF Restore
<1>4. CASE CallFails \/ SaveFails \/ RestoreFails \/ Crash
  BY <1>4, CallFailsInv, SaveFailsInv, RestoreFailsInv, CrashInv, Zenon
<1>5. CASE SystemStep
  BY <1>5, LinkDownInv, LinkUpInv, OtherAddsInv, Zenon DEF SystemStep
<1>6. CASE UNCHANGED journalVars
  BY <1>6 DEF journalVars, IInv, JournalTypeOK, Covered, WriteAhead, Journaled, Own, Phases, Progress
<1> QED BY <1>1, <1>2, <1>3, <1>4, <1>5, <1>6, Zenon DEF JournalNext

-----------------------------------------------------------------------------
(***************************************************************************)
(* What a transaction promises.                                            *)
(***************************************************************************)
\* The inductive invariant holds throughout.
THEOREM JournalInvariant == JournalSpec => []IInv
BY InitInv, StepInv, PTL DEF JournalSpec

\* The state of a transaction is well typed (Transaction, DesktopTun).
THEOREM JournalTypeCorrect == JournalSpec => []JournalTypeOK
<1>1. IInv => JournalTypeOK
  BY Zenon DEF IInv
<1> QED BY <1>1, JournalInvariant, PTL

\* At every moment the process may die, the file names every route it has added
\* and not removed: Transaction::apply saves before it adds, and apply and
\* restore forget after they removed.
THEOREM JournalWriteAhead == JournalSpec => []WriteAhead
<1>1. IInv => WriteAhead
  BY Zenon DEF IInv, Covered
<1> QED BY <1>1, JournalInvariant, PTL

\* When apply returned without an error, the routes of ours are desired ones and
\* everything to be captured goes into the tunnel, whatever failed or changed
\* before.
THEOREM JournalApplied == JournalSpec => []AppliedInForce
<1>1. IInv => AppliedInForce
  BY Zenon DEF IInv, Covered, Progress, AppliedInForce
<1> QED BY <1>1, JournalInvariant, PTL

\* Removing a specification spares the routes of others where a metric tells
\* them apart.
LEMMA WithoutSpares ==
    ASSUME NEW s \in journal, NEW r \in table \ Without(s)
    PROVE  r.own \/ (platform = "darwin" /\ r.spec \in journal)
BY Zenon DEF Without, Matches

\* No step removes a route of another program, but with its interface, or on
\* Darwin one that is equal to a journaled one (Transaction::remove).
THEOREM JournalOthersKept == JournalSpec => OthersKept
<1> DEFINE OursOnly == \A r \in table \ table' :
                      r.own \/ r.spec.interface \notin up' \/ (platform = "darwin" /\ r.spec \in journal)
<1>1. ASSUME IInv, [JournalNext]_journalVars PROVE [OursOnly]_journalVars
  <2>1. ASSUME NEW s \in RouteSpec, Replace(s) \/ Drop(s) PROVE OursOnly
    <3>1. s \in journal /\ table' = Without(s)
      BY <1>1, <2>1, Zenon DEF Replace, Drop, At, IInv, Phases
    <3> QED BY <3>1, WithoutSpares, Zenon
  <2>2. ASSUME table \subseteq table' PROVE OursOnly
    BY <2>2, Zenon
  <2>3. ASSUME Close PROVE OursOnly
    BY <2>3, Zenon DEF Close, TunGone
  <2>4. ASSUME NEW i \in Interface, LinkDown(i) PROVE OursOnly
    BY <2>4, Zenon DEF LinkDown
  <2>5. CASE \E desired \in SUBSET RouteSpec : Open(desired) \/ Refresh(desired)
    BY <2>5, <2>2, Zenon DEF Open, Refresh
  <2>6. CASE ApplyStep
    <3>1. ASSUME NEW s \in RouteSpec, Journal(s) \/ Add(s) \/ AddRejected(s) PROVE OursOnly
      BY <3>1, <2>2, Zenon DEF Journal, Add, AddRejected
    <3>2. CASE List \/ AddsDone \/ Forget \/ Applied
      BY <3>2, <2>2, Zenon DEF List, AddsDone, Forget, Applied
    <3>3. CASE Restored
      BY <3>3, <2>2, <2>3, Zenon DEF Restored
    <3> QED BY <2>1, <2>6, <3>1, <3>2, <3>3, Zenon DEF ApplyStep
  <2>7. CASE Restore \/ DropTun \/ Recover
    BY <2>7, <2>2, <2>3, Zenon DEF Restore, Restores, DropTun, Recover
  <2>8. CASE CallFails \/ SaveFails \/ RestoreFails \/ Crash
    BY <2>8, <2>2, <2>3, Zenon DEF CallFails, SaveFails, RestoreFails, Crash
  <2>9. CASE SystemStep
    BY <2>9, <2>2, <2>4, Zenon DEF SystemStep, LinkUp, OtherAdds
  <2> QED BY <1>1, <2>5, <2>6, <2>7, <2>8, <2>9, Zenon DEF JournalNext
<1> QED BY <1>1, JournalInvariant, PTL DEF JournalSpec, OthersKept

-----------------------------------------------------------------------------
\* discover returns an exit of this machine or none.
LEMMA PickType ==
    ASSUME NEW exits \in SUBSET Interface, NEW choice PROVE Pick(exits, choice) \in exits \cup {NoExit}
<1>1. FirstOf(exits) \in exits \cup {NoExit}
  BY Zenon DEF FirstOf
<1> QED BY <1>1, Zenon DEF Pick

\* Routes to exits of this machine are what desired_routes returns.
LEMMA DesiredType ==
    ASSUME JournalTypeOK, NEW choice PROVE Desired(Discover(choice)) \in SUBSET RouteSpec
<1>1. /\ Discover(choice).ipv4 \in Interface \cup {NoExit}
      /\ Discover(choice).ipv6 \in Interface \cup {NoExit}
  <2>1. Physical \in SUBSET Interface /\ up \cap Exit6 \in SUBSET Interface
    BY Zenon DEF Physical, JournalTypeOK
  <2>2. Pick(Physical, choice) \in Interface \cup {NoExit} /\ Pick(up \cap Exit6, choice) \in Interface \cup {NoExit}
    BY <2>1, PickType, Zenon
  <2> QED BY <2>2, Zenon DEF Discover
<1>2. ASSUME NEW prefixes \in SUBSET Prefix, NEW i \in Interface PROVE To(prefixes, i) \subseteq RouteSpec
  BY DEF To, RouteSpec
<1>3. Capture4 \in SUBSET Prefix /\ Capture6 \in SUBSET Prefix /\ Excluded \in SUBSET Prefix
  BY PrefixAssumption, Zenon
<1> HIDE DEF Discover
<1>4. To(Capture4, Tun) \subseteq RouteSpec /\ To(Capture6, Tun) \subseteq RouteSpec
  BY <1>2, <1>3, TunAssumption, Zenon
<1>5. Discover(choice).ipv4 # NoExit => To(Excluded, Discover(choice).ipv4) \subseteq RouteSpec
  BY <1>1, <1>2, <1>3, Zenon
<1> QED BY <1>4, <1>5, Zenon DEF Desired

\* A step of a session is a step of its transaction or leaves it alone.
LEMMA SessionStep == ASSUME JournalTypeOK, [Next]_vars PROVE [JournalNext]_journalVars
<1>1. ASSUME NEW choice, NEW found, OpenSession(choice, found) PROVE JournalNext
  BY <1>1, DesiredType, Zenon DEF OpenSession, OpensWith, JournalNext
<1>2. ASSUME NEW choice, Reselect(choice) PROVE JournalNext
  BY <1>2, Zenon DEF Reselect, JournalNext
<1>3. ASSUME NEW choice, Tick(choice) PROVE [JournalNext]_journalVars
  <2>1. Desired(Found(choice)) \in SUBSET RouteSpec
    BY DesiredType, Zenon DEF Found
  <2> QED BY <1>3, <2>1, Zenon DEF Tick, JournalNext
<1>4. CASE RouteStep
  BY <1>4, Zenon DEF RouteStep, JournalNext
<1>5. CASE ServiceStep \/ Stop
  BY <1>5, Zenon DEF ServiceStep, Stop
<1>6. CASE RecoverRoutes
  BY <1>6, Zenon DEF RecoverRoutes, JournalNext
<1>7. CASE RunStep
  <2>1. CASE ReselectDrops \/ StartupFails \/ DropRoutes
    BY <2>1, Zenon DEF ReselectDrops, StartupFails, DropRoutes, JournalNext
  <2>2. CASE Reopen
    BY <2>2, DesiredType, Zenon DEF Reopen, OpensWith, JournalNext
  <2>3. CASE StopRoutes
    BY <2>3, Zenon DEF StopRoutes, JournalNext
  <2>4. CASE StartCore \/ DnsStarted \/ RoutesFollowed \/ SyncWaits \/ Sync \/ SyncRestored \/ SyncStarted
    BY <2>4, Zenon DEF StartCore, DnsStarted, RoutesFollowed, SyncWaits, Sync, SyncRestored, SyncStarted
  <2>5. CASE Stopped \/ Ended \/ RecoverDns \/ Recovered
    BY <2>5, Zenon DEF Stopped, DropDns, Ended, RecoverDns, Recovered
  <2> QED BY <1>7, <2>1, <2>2, <2>3, <2>4, <2>5, Zenon DEF RunStep
<1>8. CASE Fails
  BY <1>8, Zenon DEF Fails, CoreFails, VerifyFails, DropDns, JournalNext
<1>9. CASE Dies
  BY <1>9, Zenon DEF Dies, JournalNext
<1>10. CASE LinkStep \/ OtherStep \/ UserStep
  BY <1>10, Zenon DEF LinkStep, OtherStep, UserStep, Exit, JournalNext, SystemStep
<1>11. CASE UNCHANGED vars
  BY <1>11, Zenon DEF vars
<1> QED BY <1>1, <1>2, <1>3, <1>4, <1>5, <1>6, <1>7, <1>8, <1>9, <1>10, <1>11, Zenon DEF Next

\* Whole sessions keep the transaction's inductive invariant.
THEOREM SessionInvariant == Spec => []IInv
<1>1. Init => IInv
  BY InitInv, Zenon DEF Init
<1>2. ASSUME IInv, [Next]_vars PROVE IInv'
  BY <1>2, SessionStep, StepInv, Zenon DEF IInv
<1> QED BY <1>1, <1>2, PTL DEF Spec

\* run and recover (runtime/src/lib.rs) call a transaction only as its own
\* specification allows.
THEOREM SessionsImplementJournal == Spec => JournalSpec
<1>1. Init => JournalInit
  BY Zenon DEF Init
<1>2. ASSUME IInv, [Next]_vars PROVE [JournalNext]_journalVars
  BY <1>2, SessionStep, Zenon DEF IInv
<1> QED BY <1>1, <1>2, SessionInvariant, PTL DEF Spec, JournalSpec

\* In whole sessions, too, every route that was added and not removed is on file
\* whenever the process may die.
THEOREM SessionWriteAhead == Spec => []WriteAhead
BY SessionsImplementJournal, JournalWriteAhead, PTL

-----------------------------------------------------------------------------
(***************************************************************************)
(* The DNS settings of the system (macos_dns.rs) under a whole session.    *)
(***************************************************************************)
DnsFile == [servers : UNION {[covered -> Chosen] : covered \in SUBSET Service}, server : Address]

DnsCall ==
    [step : {"idle", "begin", "set", "undo", "undoDrop", "restore", "done"},
     call : {"none", "start", "drop", "refresh", "stop", "recover"},
     todo : SUBSET Service, server : Address \cup {NoAddress}, failed : BOOLEAN]

DnsTypeOK ==
    /\ servers \in [Service -> Chosen \cup Address]
    /\ saved \in SUBSET DnsFile
    /\ \A p, q \in saved : p = q
    /\ dns \in [server : Address \cup {NoAddress}, active : BOOLEAN]
    /\ op \in DnsCall

\* start keeps to the file it wrote; restore and recover have taken every service
\* they are done with off the session's address.
CallOK ==
    /\ op.step = "begin" => op.server \in Address
    /\ op.step = "set" =>
          /\ saved # {}
          /\ \A state \in saved : state.server = op.server /\ op.todo \subseteq DOMAIN state.servers
    /\ Restoring =>
          /\ saved # {}
          /\ \A state \in saved : op.todo \subseteq DOMAIN state.servers
          /\ \A s \in Service \ op.todo : servers[s] \notin Address

DnsInv == DnsTypeOK /\ DnsRecoverable /\ CallOK

\* Where run is in a call of MacDns, and before and after a session has one.
InCall == {"dnsStart", "dropDns", "syncRestore", "syncStart", "stopDns", "recoverDns"}
WithoutDns ==
    {"down", "opening", "reselecting", "reopening", "reopened", "failed", "closing", "recoverRoutes", "recoverDns"}

SessionTypeOK ==
    /\ network.ipv4 \in Exit \cup {NoExit}
    /\ listener \in Address \cup {NoAddress}
    /\ pending \in BOOLEAN

\* start is only called with no MacDns active, for the address the core listens at.
StartOK ==
    /\ stage \in {"dnsStart", "syncStart"} =>
          /\ op.step \in {"begin", "set", "undo", "undoDrop", "done"}
          /\ op.step \in {"begin", "set"} => op.server = listener
          /\ dns.active => op.step = "done" /\ ~op.failed /\ dns.server = listener
    /\ stage \in InCall \ {"dnsStart", "syncStart"} => op.step \in {"restore", "done"}
    /\ stage \notin InCall => op.step = "idle"
    /\ stage \in WithoutDns => ~dns.active
    /\ stage = "syncRestore" /\ op.step = "done" /\ ~op.failed => ~dns.active

\* An active MacDns wrote the file that is there.
ActiveOK == dns.active => \A state \in saved : state.server = dns.server

\* dns_pending stands until the listener and the services followed the exit.
FollowOK ==
    /\ stage \in {"dnsStart", "syncRestore", "syncStart"} => listener = network.ipv4 /\ listener \in Address
    /\ stage \in {"sync", "syncRestore", "syncStart"} => pending
    /\ stage = "loop" /\ Darwin /\ ~pending => listener = network.ipv4 /\ (dns.active => dns.server = listener)

SessionDnsInv == DnsInv /\ SessionTypeOK /\ StartOK /\ ActiveOK /\ FollowOK

LEMMA TheStateIsSaved == ASSUME DnsTypeOK, saved # {} PROVE saved = {TheState} /\ TheState \in DnsFile
<1>1. TheState \in saved
  BY Zenon DEF TheState
<1> QED BY <1>1, Zenon DEF DnsTypeOK

LEMMA FileFields ==
    ASSUME NEW state \in DnsFile
    PROVE /\ state.server \in Address
          /\ DOMAIN state.servers \in SUBSET Service
          /\ \A s \in DOMAIN state.servers : state.servers[s] \in Chosen
<1>1. state.server \in Address /\ state.servers \in UNION {[covered -> Chosen] : covered \in SUBSET Service}
  BY Zenon DEF DnsFile
<1>2. PICK covered \in SUBSET Service : state.servers \in [covered -> Chosen]
  BY <1>1, Zenon
<1> QED BY <1>1, <1>2, Zenon

\* Without a file no service is at an address of this machine.
LEMMA NoFile == ASSUME DnsInv, saved = {} PROVE \A s \in Service : servers[s] \in Chosen /\ servers[s] \notin Address
BY Zenon DEF DnsInv, DnsTypeOK, DnsRecoverable

LEMMA SaveStateType ==
    ASSUME DnsInv, saved = {}, NEW covered \in SUBSET Service, NEW server \in Address
    PROVE /\ SaveState(covered, server) \in SUBSET DnsFile
          /\ \A state \in SaveState(covered, server) : state.server = server /\ DOMAIN state.servers = covered
          /\ \A p, q \in SaveState(covered, server) : p = q
          /\ SaveState(covered, server) # {}
<1>1. [s \in covered |-> servers[s]] \in [covered -> Chosen]
  BY NoFile, Zenon
<1>2. [s \in covered |-> servers[s]] \in UNION {[c -> Chosen] : c \in SUBSET Service}
  BY <1>1, Zenon
<1> QED BY <1>2 DEF SaveState, DnsFile

\* Steps that leave the services and the file alone.
LEMMA RecoverableKept ==
    ASSUME DnsRecoverable, UNCHANGED <<servers, saved>> PROVE DnsRecoverable'
BY Zenon DEF DnsRecoverable

LEMMA ReturnsInv ==
    ASSUME DnsTypeOK, NEW ok \in BOOLEAN, Returns(ok)
    PROVE /\ op' \in DnsCall
          /\ op'.step = "done" /\ op'.failed = ~ok
BY Zenon DEF DnsTypeOK, DnsCall, Returns, Idle

LEMMA BeginInv == ASSUME DnsInv, BeginDns \/ BeginFails PROVE DnsInv'
<1> USE DEF DnsInv
<1>1. op.todo \in SUBSET Service /\ op.server \in Address
  BY Zenon DEF BeginDns, BeginFails, CallOK, DnsTypeOK, DnsCall
<1>2. CASE saved' = saved /\ Returns(FALSE) /\ UNCHANGED <<servers, dns>>
  <2>1. DnsTypeOK'
    BY <1>2, ReturnsInv, Zenon DEF DnsTypeOK
  <2>2. CallOK'
    BY <1>2, ReturnsInv, Zenon DEF CallOK, Restoring
  <2> QED BY <1>2, <2>1, <2>2, RecoverableKept, Zenon
<1>3. CASE saved = {} /\ saved' = SaveState(op.todo, op.server) /\ UNCHANGED <<servers, dns>>
           /\ (Returns(FALSE) \/ op' = [op EXCEPT !.step = "set"])
  <2>1. op' \in DnsCall
        /\ (op'.step = "done" \/ (op'.step = "set" /\ op'.todo = op.todo /\ op'.server = op.server))
    BY <1>3, ReturnsInv, Zenon DEF DnsTypeOK, DnsCall
  <2>2. DnsTypeOK'
    BY <1>1, <1>3, <2>1, SaveStateType DEF DnsTypeOK
  <2>3. DnsRecoverable'
    BY <1>3, NoFile, Zenon DEF DnsRecoverable
  <2>4. CallOK'
    BY <1>1, <1>3, <2>1, SaveStateType DEF CallOK, Restoring
  <2> QED BY <2>2, <2>3, <2>4, Zenon
<1> QED BY <1>2, <1>3, Zenon DEF BeginDns, BeginFails

LEMMA SetServerInv == ASSUME DnsInv, NEW s \in Service, SetServer(s) PROVE DnsInv'
<1> USE DEF DnsInv
<1>1. /\ saved # {} /\ saved' = saved /\ dns' = dns
      /\ servers' = [servers EXCEPT ![s] = op.server] /\ op' = [op EXCEPT !.todo = @ \ {s}]
      /\ s \in op.todo /\ op.step = "set" /\ op.todo \in SUBSET Service
      /\ \A state \in saved : state.server = op.server /\ op.todo \subseteq DOMAIN state.servers
  BY Zenon DEF SetServer, CallOK, DnsTypeOK, DnsCall
<1>2. PICK state \in saved : state \in DnsFile
  BY <1>1, Zenon DEF DnsTypeOK
<1>3. op.server \in Address
  BY <1>1, <1>2, FileFields, Zenon
<1>4. DnsTypeOK'
  BY <1>1, <1>3, Zenon DEF DnsTypeOK, DnsCall
<1>5. DnsRecoverable'
  <2> SUFFICES ASSUME NEW t \in Service, servers'[t] \in Address
               PROVE  \E st \in saved : t \in DOMAIN st.servers /\ st.server = servers'[t] /\ st.servers[t] \in Chosen
    BY <1>1, Zenon DEF DnsRecoverable
  <2>1. CASE t = s
    <3>1. servers'[t] = op.server
      BY <1>1, <2>1, Zenon DEF DnsTypeOK
    <3> QED BY <1>1, <1>2, <2>1, <3>1, FileFields, Zenon
  <2>2. CASE t # s
    <3>1. servers'[t] = servers[t]
      BY <1>1, <2>2, Zenon DEF DnsTypeOK
    <3> QED BY <3>1, Zenon DEF DnsRecoverable
  <2> QED BY <2>1, <2>2, Zenon
<1>6. CallOK'
  <2>1. op'.step = "set" /\ op'.server = op.server /\ op'.todo \subseteq op.todo
    BY <1>1, Zenon DEF DnsTypeOK, DnsCall
  <2> QED BY <1>1, <2>1, Zenon DEF CallOK, Restoring
<1> QED BY <1>4, <1>5, <1>6, Zenon

\* Looking at every service of the file again.
LEMMA LookAgain ==
    ASSUME DnsInv, saved # {}, UNCHANGED <<servers, saved>>,
           op'.step \in {"undo", "undoDrop", "restore"}, op'.todo = DOMAIN TheState.servers
    PROVE CallOK'
<1>1. saved = {TheState} /\ TheState \in DnsFile
  BY TheStateIsSaved, Zenon DEF DnsInv
<1>2. \A s \in Service \ DOMAIN TheState.servers : servers[s] \notin Address
  BY <1>1, Zenon DEF DnsInv, DnsRecoverable
<1> QED BY <1>1, <1>2, Zenon DEF CallOK, Restoring

LEMMA StartDoneInv == ASSUME DnsInv, StartDone PROVE DnsInv'
<1>1. /\ op.step = "set" /\ dns' = [server |-> op.server, active |-> TRUE] /\ Returns(TRUE)
      /\ UNCHANGED <<servers, saved>>
  BY Zenon DEF StartDone
<1>2. DnsTypeOK'
  BY <1>1, ReturnsInv, Zenon DEF DnsInv, DnsTypeOK, DnsCall
<1>3. CallOK'
  BY <1>1, ReturnsInv, Zenon DEF DnsInv, CallOK, Restoring
<1> QED BY <1>1, <1>2, <1>3, RecoverableKept, Zenon DEF DnsInv

LEMMA SetFailsInv == ASSUME DnsInv, SetFails PROVE DnsInv'
<1>1. /\ op.step = "set" /\ op' = [op EXCEPT !.step = "undo", !.todo = DOMAIN TheState.servers]
      /\ UNCHANGED <<servers, saved, dns>> /\ saved # {}
  BY Zenon DEF SetFails, DnsInv, CallOK
<1>2. DOMAIN TheState.servers \in SUBSET Service
  BY <1>1, TheStateIsSaved, FileFields, Zenon DEF DnsInv
<1>3. DnsTypeOK' /\ op'.step = "undo" /\ op'.todo = DOMAIN TheState.servers
  BY <1>1, <1>2, Zenon DEF DnsInv, DnsTypeOK, DnsCall
<1> QED BY <1>1, <1>3, LookAgain, RecoverableKept, Zenon DEF DnsInv

LEMMA RestoreServiceInv == ASSUME DnsInv, NEW s \in Service, RestoreService(s) PROVE DnsInv'
<1> USE DEF DnsInv
<1>1. /\ Restoring /\ s \in op.todo /\ op' = [op EXCEPT !.todo = @ \ {s}] /\ UNCHANGED <<saved, dns>>
      /\ servers' = IF Ours(s) THEN [servers EXCEPT ![s] = TheState.servers[s]] ELSE servers
  BY Zenon DEF RestoreService
<1>2. saved = {TheState} /\ TheState \in DnsFile /\ op.todo \subseteq DOMAIN TheState.servers
  BY <1>1, TheStateIsSaved, Zenon DEF CallOK
<1>3. TheState.servers[s] \in Chosen /\ TheState.servers[s] \notin Address
  BY <1>1, <1>2, FileFields, AddressAssumption, Zenon
<1>4. op' \in DnsCall /\ op'.step = op.step /\ op'.todo = op.todo \ {s}
  BY <1>1, Zenon DEF DnsTypeOK, DnsCall
<1>5. servers' \in [Service -> Chosen \cup Address]
  BY <1>1, <1>3, Zenon DEF DnsTypeOK
<1>6. \A t \in Service \ {s} : servers'[t] = servers[t]
  BY <1>1, Zenon DEF DnsTypeOK
<1>7. servers'[s] \notin Address
  <2>1. CASE Ours(s)
    BY <1>1, <1>3, <2>1, Zenon DEF DnsTypeOK
  <2>2. CASE ~Ours(s)
    BY <1>1, <1>2, <2>2, Zenon DEF Ours, DnsRecoverable
  <2> QED BY <2>1, <2>2, Zenon
<1>8. DnsTypeOK'
  BY <1>1, <1>4, <1>5, Zenon DEF DnsTypeOK
<1>9. DnsRecoverable'
  BY <1>1, <1>6, <1>7, Zenon DEF DnsRecoverable
<1>10. CallOK'
  BY <1>1, <1>2, <1>4, <1>6, <1>7, Zenon DEF CallOK, Restoring
<1> QED BY <1>8, <1>9, <1>10, Zenon

LEMMA RestoreDoneInv == ASSUME DnsInv, RestoreDone PROVE DnsInv'
<1> USE DEF DnsInv
<1>1. /\ Restoring /\ op.todo = {} /\ saved' = {} /\ UNCHANGED servers /\ Returns(op.step = "restore")
      /\ dns' = IF op.step = "restore" THEN [dns EXCEPT !.active = FALSE] ELSE dns
  BY Zenon DEF RestoreDone
<1>2. \A s \in Service : servers[s] \notin Address
  BY <1>1, Zenon DEF CallOK
<1>3. op' \in DnsCall /\ op'.step = "done"
  BY <1>1, ReturnsInv, Zenon
<1>4. DnsTypeOK'
  BY <1>1, <1>3, Zenon DEF DnsTypeOK
<1>5. DnsRecoverable'
  BY <1>1, <1>2, Zenon DEF DnsRecoverable
<1>6. CallOK'
  BY <1>3, Zenon DEF CallOK, Restoring
<1> QED BY <1>4, <1>5, <1>6, Zenon

LEMMA RestoreDnsFailsInv == ASSUME DnsInv, RestoreDnsFails PROVE DnsInv'
<1>1. saved = {TheState} /\ TheState \in DnsFile /\ UNCHANGED <<servers, saved, dns>>
  BY TheStateIsSaved, Zenon DEF RestoreDnsFails, DnsInv, CallOK
<1>2. CASE op.step = "undo"
  <2>1. op' = [op EXCEPT !.step = "undoDrop", !.todo = DOMAIN TheState.servers]
    BY <1>2, Zenon DEF RestoreDnsFails
  <2>2. op' \in DnsCall /\ op'.step = "undoDrop" /\ op'.todo = DOMAIN TheState.servers
    BY <1>1, <2>1, FileFields, Zenon DEF DnsInv, DnsTypeOK, DnsCall
  <2>3. DnsTypeOK'
    BY <1>1, <2>2, Zenon DEF DnsInv, DnsTypeOK
  <2> QED BY <1>1, <2>2, <2>3, LookAgain, RecoverableKept, Zenon DEF DnsInv
<1>3. CASE op.step # "undo"
  <2>1. op' \in DnsCall /\ op'.step = "done"
    BY <1>3, ReturnsInv, Zenon DEF RestoreDnsFails, DnsInv
  <2>2. DnsTypeOK'
    BY <1>1, <2>1, Zenon DEF DnsInv, DnsTypeOK
  <2>3. CallOK'
    BY <2>1, Zenon DEF CallOK, Restoring
  <2> QED BY <1>1, <2>2, <2>3, RecoverableKept, Zenon DEF DnsInv
<1> QED BY <1>2, <1>3, Zenon

LEMMA UserSetsInv == ASSUME DnsInv, NEW s \in Service, NEW c \in Chosen, UserSets(s, c) PROVE DnsInv'
<1> USE DEF DnsInv
<1>1. servers' = [servers EXCEPT ![s] = c] /\ UNCHANGED <<saved, dns, op>> /\ c \notin Address
  BY AddressAssumption, Zenon DEF UserSets
<1>2. servers' \in [Service -> Chosen \cup Address] /\ \A t \in Service : servers'[t] = servers[t] \/ servers'[t] \notin Address
  BY <1>1, Zenon DEF DnsTypeOK
<1>3. DnsTypeOK'
  BY <1>1, <1>2, Zenon DEF DnsTypeOK
<1>4. DnsRecoverable'
  BY <1>1, <1>2, Zenon DEF DnsRecoverable
<1>5. CallOK'
  BY <1>1, <1>2, Zenon DEF CallOK, Restoring
<1> QED BY <1>3, <1>4, <1>5, Zenon

\* The calls that run makes.
LEMMA CallsInv ==
    ASSUME DnsInv, NEW call \in {"start", "drop", "refresh", "stop", "recover"},
           \/ \E covered \in SUBSET Service, server \in Address : StartDns(call, covered, server)
           \/ \E active \in BOOLEAN : RestoreDns(call, active)
           \/ DnsCrash
           \/ op' = Idle /\ UNCHANGED <<servers, saved, dns>>
           \/ UNCHANGED dnsVars
    PROVE DnsInv'
<1> USE DEF DnsInv
<1>1. UNCHANGED <<servers, saved>> /\ dns' \in [server : Address \cup {NoAddress}, active : BOOLEAN]
  <2>1. UNCHANGED <<servers, saved>> /\ (dns' = dns \/ dns' = [dns EXCEPT !.active = FALSE] \/ dns' = NoDns)
    BY Zenon DEF StartDns, RestoreDns, DnsCrash, dnsVars
  <2>2. dns \in [server : Address \cup {NoAddress}, active : BOOLEAN]
    BY Zenon DEF DnsTypeOK
  <2>3. [dns EXCEPT !.active = FALSE] \in [server : Address \cup {NoAddress}, active : BOOLEAN]
    BY <2>2, Zenon
  <2>4. NoDns \in [server : Address \cup {NoAddress}, active : BOOLEAN]
    BY Zenon DEF NoDns
  <2> QED BY <2>1, <2>2, <2>3, <2>4, Zenon
<1>2. DnsRecoverable'
  BY <1>1, RecoverableKept, Zenon
<1>3. ASSUME op' \in DnsCall PROVE DnsTypeOK'
  BY <1>1, <1>3, Zenon DEF DnsTypeOK
<1>4. CASE op' = Idle
  BY <1>2, <1>3, <1>4, Zenon DEF DnsCall, Idle, CallOK, Restoring
<1>5. ASSUME NEW covered \in SUBSET Service, NEW server \in Address, StartDns(call, covered, server) PROVE DnsInv'
  <2>1. op' \in DnsCall /\ op'.step = "begin" /\ op'.server = server
    BY <1>5, Zenon DEF StartDns, DnsCall, Idle
  <2> QED BY <1>2, <1>3, <2>1, Zenon DEF CallOK, Restoring
<1>6. ASSUME NEW active \in BOOLEAN, RestoreDns(call, active) PROVE DnsInv'
  <2>1. CASE active /\ saved # {}
    <3>1. op' = [Idle EXCEPT !.call = call, !.step = "restore", !.todo = DOMAIN TheState.servers]
      BY <1>6, <2>1, Zenon DEF RestoreDns
    <3>2. op' \in DnsCall /\ op'.step = "restore" /\ op'.todo = DOMAIN TheState.servers
      BY <2>1, <3>1, TheStateIsSaved, FileFields, Zenon DEF DnsCall, Idle
    <3> QED BY <1>1, <1>2, <1>3, <2>1, <3>2, LookAgain, Zenon
  <2>2. CASE ~(active /\ saved # {})
    <3>1. op' \in DnsCall /\ op'.step = "done"
      BY <1>6, <2>2, Zenon DEF RestoreDns, DnsCall, Idle
    <3> QED BY <1>2, <1>3, <3>1, Zenon DEF CallOK, Restoring
  <2> QED BY <2>1, <2>2, Zenon
<1>7. CASE UNCHANGED dnsVars
  <2>1. op' = op
    BY <1>7, Zenon DEF dnsVars
  <2> QED BY <1>1, <1>2, <1>3, <2>1, Zenon DEF DnsTypeOK, CallOK, Restoring
<1> QED BY <1>4, <1>5, <1>6, <1>7, Zenon DEF DnsCrash

-----------------------------------------------------------------------------
\* What a step of MacDns or networksetup does to the call and to the runtime's
\* MacDns: it goes on as the session's stages expect.
LEMMA ServiceStepInv == ASSUME SessionDnsInv, DnsStep \/ DnsFails, UNCHANGED <<journalVars, sessionVars>> PROVE SessionDnsInv'
<1> USE DEF SessionDnsInv
<1>1. op \in DnsCall /\ dns \in [server : Address \cup {NoAddress}, active : BOOLEAN]
  BY Zenon DEF DnsInv, DnsTypeOK
<1>2. stage' = stage /\ network' = network /\ listener' = listener /\ pending' = pending /\ Darwin' = Darwin
  BY Zenon DEF sessionVars, journalVars, Darwin
<1>3. SessionTypeOK'
  BY <1>2, Zenon DEF SessionTypeOK, Exit
<1>4. ASSUME NEW s \in Service, SetServer(s) PROVE SessionDnsInv'
  <2>1. op.step = "set" /\ op'.step = "set" /\ op'.server = op.server /\ dns' = dns /\ saved' = saved
    BY <1>1, <1>4, Zenon DEF SetServer, DnsCall
  <2>2. StartOK'
    BY <1>2, <2>1, Zenon DEF StartOK, InCall
  <2>3. ActiveOK' /\ FollowOK'
    BY <1>2, <2>1, Zenon DEF ActiveOK, FollowOK
  <2> QED BY <1>3, <1>4, <2>2, <2>3, SetServerInv, Zenon
<1>5. ASSUME NEW s \in Service, RestoreService(s) PROVE SessionDnsInv'
  <2>1. op.step \in {"undo", "undoDrop", "restore"} /\ op'.step = op.step /\ dns' = dns /\ saved' = saved
    BY <1>1, <1>5, Zenon DEF RestoreService, Restoring, DnsCall
  <2>2. StartOK'
    BY <1>2, <2>1, Zenon DEF StartOK, InCall
  <2>3. ActiveOK' /\ FollowOK'
    BY <1>2, <2>1, Zenon DEF ActiveOK, FollowOK
  <2> QED BY <1>3, <1>5, <2>2, <2>3, RestoreServiceInv, Zenon
<1>6. CASE BeginDns \/ BeginFails
  <2>1. op.step = "begin" /\ dns' = dns /\ (op'.step = "done" \/ (op'.step = "set" /\ op'.server = op.server))
        /\ (op'.step = "done" => op'.failed)
    BY <1>1, <1>6, ReturnsInv, Zenon DEF BeginDns, BeginFails, DnsCall, DnsInv
  <2>2. stage \in {"dnsStart", "syncStart"} /\ ~dns.active
    BY <2>1, Zenon DEF StartOK, InCall
  <2>3. StartOK'
    BY <1>2, <2>1, <2>2, Zenon DEF StartOK, InCall, WithoutDns
  <2>4. ActiveOK' /\ FollowOK'
    BY <1>2, <2>1, <2>2, Zenon DEF ActiveOK, FollowOK
  <2> QED BY <1>3, <1>6, <2>3, <2>4, BeginInv, Zenon
<1>7. CASE StartDone
  <2>1. op.step = "set" /\ dns'.server = op.server /\ dns'.active /\ op'.step = "done" /\ ~op'.failed /\ saved' = saved
    BY <1>7, ReturnsInv, Zenon DEF StartDone, DnsInv
  <2>2. stage \in {"dnsStart", "syncStart"} /\ op.server = listener
    BY <2>1, Zenon DEF StartOK, InCall
  <2>3. StartOK'
    BY <1>2, <2>1, <2>2, Zenon DEF StartOK, InCall, WithoutDns
  <2>4. ActiveOK'
    BY <2>1, Zenon DEF ActiveOK, DnsInv, CallOK
  <2>5. FollowOK'
    BY <1>2, <2>2, Zenon DEF FollowOK
  <2> QED BY <1>3, <1>7, <2>3, <2>4, <2>5, StartDoneInv, Zenon
<1>8. CASE SetFails
  <2>1. op.step = "set" /\ op'.step = "undo" /\ dns' = dns /\ saved' = saved
    BY <1>1, <1>8, Zenon DEF SetFails, DnsCall
  <2>2. StartOK'
    BY <1>2, <2>1, Zenon DEF StartOK, InCall
  <2>3. ActiveOK' /\ FollowOK'
    BY <1>2, <2>1, Zenon DEF ActiveOK, FollowOK
  <2> QED BY <1>3, <1>8, <2>2, <2>3, SetFailsInv, Zenon
<1>9. CASE RestoreDone
  <2>1. /\ op.step \in {"undo", "undoDrop", "restore"} /\ op'.step = "done" /\ op'.failed = (op.step # "restore")
        /\ saved' = {} /\ dns'.active = (dns.active /\ op.step # "restore") /\ dns'.server = dns.server
    BY <1>1, <1>9, ReturnsInv, Zenon DEF RestoreDone, Restoring, DnsInv
  <2>2. StartOK'
    BY <1>2, <2>1, Zenon DEF StartOK, InCall
  <2>3. ActiveOK' /\ FollowOK'
    BY <1>2, <2>1, Zenon DEF ActiveOK, FollowOK
  <2> QED BY <1>3, <1>9, <2>2, <2>3, RestoreDoneInv, Zenon
<1>10. CASE RestoreDnsFails
  <2>1. /\ op.step \in {"undo", "undoDrop", "restore"} /\ dns' = dns /\ saved' = saved
        /\ op'.step = "undoDrop" \/ (op'.step = "done" /\ op'.failed)
        /\ op'.step = "undoDrop" => op.step = "undo"
    BY <1>1, <1>10, ReturnsInv, Zenon DEF RestoreDnsFails, Restoring, DnsInv, DnsCall
  <2>2. StartOK'
    BY <1>2, <2>1, Zenon DEF StartOK, InCall
  <2>3. ActiveOK' /\ FollowOK'
    BY <1>2, <2>1, Zenon DEF ActiveOK, FollowOK
  <2> QED BY <1>3, <1>10, <2>2, <2>3, RestoreDnsFailsInv, Zenon
<1> QED BY <1>4, <1>5, <1>6, <1>7, <1>8, <1>9, <1>10, Zenon DEF DnsStep, DnsFails

\* The exit that discover names is a physical one.
LEMMA DiscoverExit == ASSUME JournalTypeOK, NEW choice PROVE Discover(choice).ipv4 \in Exit \cup {NoExit}
<1>1. Physical \in SUBSET Interface /\ Physical \subseteq Exit
  BY Zenon DEF JournalTypeOK, Physical, Exit
<1>2. Pick(Physical, choice) \in Physical \cup {NoExit}
  BY <1>1, PickType, Zenon
<1> QED BY <1>1, <1>2, Zenon DEF Discover

LEMMA ServicesCovered == ASSUME JournalTypeOK PROVE Physical \in SUBSET Service
BY ServiceAssumption, Zenon DEF JournalTypeOK, Physical, Exit

\* An exit that is up has an address.
LEMMA ExitUp == ASSUME JournalTypeOK, SessionTypeOK, network.ipv4 \in up PROVE network.ipv4 \in Address
BY ExitAssumption, ServiceAssumption, Zenon DEF JournalTypeOK, SessionTypeOK

\* Steps of the session that make no call of MacDns.
LEMMA QuietInv ==
    ASSUME SessionDnsInv, UNCHANGED dnsVars, SessionTypeOK', FollowOK',
           stage \notin InCall, stage' \notin InCall, stage \in WithoutDns \/ stage' \notin WithoutDns
    PROVE SessionDnsInv'
<1>1. DnsInv'
  BY CallsInv, Zenon DEF SessionDnsInv
<1>2. dns' = dns /\ op' = op /\ saved' = saved
  BY Zenon DEF dnsVars
<1>3. StartOK'
  BY <1>2, Zenon DEF SessionDnsInv, StartOK, InCall
<1>4. ActiveOK'
  BY <1>2, Zenon DEF SessionDnsInv, ActiveOK
<1> QED BY <1>1, <1>3, <1>4, Zenon DEF SessionDnsInv

\* discover, open, reselect and their failures: before there is a MacDns.
LEMMA StartupInv ==
    ASSUME JournalTypeOK, SessionDnsInv,
           \/ \E choice \in Choices, found \in BOOLEAN : OpenSession(choice, found)
           \/ \E choice \in Choices : Reselect(choice)
           \/ ReselectDrops \/ Reopen \/ CoreFails \/ StartupFails \/ Ended \/ RecoverRoutes
    PROVE SessionDnsInv'
<1> DEFINE Before == {"down", "opening", "reselecting", "reopening", "reopened", "failed", "closing", "recoverRoutes"}
<1>1. stage \in Before /\ stage' \in Before /\ UNCHANGED dnsVars
  BY Zenon DEF OpenSession, Reselect, ReselectDrops, Reopen, CoreFails, RoutesIn, StartupFails, Ended, Down, RecoverRoutes
<1>2. \/ network' = network
      \/ network' = NoNetwork
      \/ \E choice : network' = Discover(choice)
  BY Zenon DEF OpenSession, OpensWith, Reselect, ReselectDrops, Reopen, CoreFails, StartupFails, Ended, Down, RecoverRoutes
<1>3. network'.ipv4 \in Exit \cup {NoExit}
  BY <1>2, DiscoverExit DEF NoNetwork, SessionDnsInv, SessionTypeOK
<1>4. (listener' = listener \/ listener' = NoAddress) /\ (pending' = pending \/ pending' = FALSE)
  BY Zenon DEF OpenSession, Reselect, ReselectDrops, Reopen, CoreFails, StartupFails, Ended, Down, RecoverRoutes
<1>5. SessionTypeOK'
  BY <1>3, <1>4, Zenon DEF SessionDnsInv, SessionTypeOK, Exit
<1>6. FollowOK'
  BY <1>1, Zenon DEF FollowOK
<1> QED BY <1>1, <1>5, <1>6, QuietInv, Zenon DEF InCall, WithoutDns

LEMMA PlatformFixed == ASSUME [JournalNext]_journalVars PROVE platform' = platform
<1>1. CASE \E desired \in SUBSET RouteSpec : Open(desired) \/ Refresh(desired)
  BY <1>1, Zenon DEF Open, Refresh
<1>2. CASE ApplyStep
  BY <1>2, Zenon DEF ApplyStep, Replace, Journal, Add, AddRejected, Drop, List, AddsDone, Forget, Applied, Restored, Close
<1>3. CASE Restore \/ DropTun \/ Recover
  BY <1>3, Zenon DEF Restore, Restores, DropTun, Close, Recover
<1>4. CASE CallFails \/ SaveFails \/ RestoreFails \/ Crash
  BY <1>4, Zenon DEF CallFails, SaveFails, RestoreFails, Crash, Close
<1>5. CASE SystemStep
  BY <1>5, Zenon DEF SystemStep, LinkDown, LinkUp, OtherAdds
<1>6. CASE UNCHANGED journalVars
  BY <1>6, Zenon DEF journalVars
<1> QED BY <1>1, <1>2, <1>3, <1>4, <1>5, <1>6, Zenon DEF JournalNext

\* Routes, links and users change nothing a session knows of its DNS.
LEMMA OutsideInv ==
    ASSUME SessionDnsInv, UNCHANGED sessionVars, platform' = platform,
           UNCHANGED dnsVars \/ \E s \in Service, c \in Chosen : UserSets(s, c)
    PROVE SessionDnsInv'
<1>1. UNCHANGED <<saved, dns, op, stage, network, listener, pending>> /\ Darwin' = Darwin
  BY Zenon DEF dnsVars, sessionVars, UserSets, Darwin
<1>2. DnsInv'
  BY CallsInv, UserSetsInv, Zenon DEF SessionDnsInv
<1>3. SessionTypeOK' /\ StartOK'
  BY <1>1, Zenon DEF SessionDnsInv, SessionTypeOK, Exit, StartOK
<1>4. ActiveOK' /\ FollowOK'
  BY <1>1, Zenon DEF SessionDnsInv, ActiveOK, FollowOK
<1> QED BY <1>2, <1>3, <1>4, Zenon DEF SessionDnsInv

\* refresh on a tick, and the routes that follow.
LEMMA LoopInv ==
    ASSUME JournalTypeOK, SessionDnsInv, (\E choice \in Choices : Tick(choice)) \/ RoutesFollowed \/ SyncWaits
    PROVE SessionDnsInv'
<1> USE DEF SessionDnsInv
<1>1. ASSUME NEW choice, Tick(choice) PROVE SessionDnsInv'
  <2>1. /\ stage = "loop" /\ stage' \in {"applying", "sync", "loop"} /\ UNCHANGED <<listener, pending>>
        /\ UNCHANGED dnsVars /\ network' = Found(choice)
    BY <1>1, Zenon DEF Tick
  <2>2. stage' # "applying" => network' = network /\ Darwin' = Darwin /\ stage' = IF pending THEN "sync" ELSE "loop"
    BY <1>1, Zenon DEF Tick, journalVars, Darwin
  <2>3. network'.ipv4 \in Exit \cup {NoExit}
    BY <2>1, DiscoverExit, Zenon DEF Found
  <2>4. SessionTypeOK'
    BY <2>1, <2>3, Zenon DEF SessionTypeOK, Exit
  <2>5. FollowOK'
    BY <2>1, <2>2 DEF FollowOK, dnsVars, SessionTypeOK
  <2> QED BY <2>1, <2>4, <2>5, QuietInv, Zenon DEF InCall, WithoutDns
<1>2. CASE RoutesFollowed
  <2>1. /\ stage = "applying" /\ UNCHANGED dnsVars /\ UNCHANGED <<network, listener>> /\ Darwin' = Darwin
        /\ pending' \in BOOLEAN
        /\ stage' = "stop" \/ (stage' = "sync" /\ pending') \/ (stage' = "loop" /\ ~Darwin)
    BY <1>2, Zenon DEF RoutesFollowed, AsksDns, Darwin, journalVars, SessionTypeOK
  <2>2. SessionTypeOK'
    BY <2>1, Zenon DEF SessionTypeOK, Exit
  <2>3. FollowOK'
    BY <2>1, Zenon DEF FollowOK
  <2> QED BY <2>1, <2>2, <2>3, QuietInv, Zenon DEF InCall, WithoutDns
<1>3. CASE SyncWaits
  <2>1. stage = "sync" /\ stage' = "loop" /\ UNCHANGED dnsVars /\ UNCHANGED <<network, listener, pending>>
    BY <1>3, Zenon DEF SyncWaits
  <2>2. SessionTypeOK'
    BY <2>1, Zenon DEF SessionTypeOK, Exit
  <2>3. FollowOK'
    BY <2>1, Zenon DEF FollowOK
  <2> QED BY <2>1, <2>2, <2>3, QuietInv, Zenon DEF InCall, WithoutDns
<1> QED BY <1>1, <1>2, <1>3, Zenon

\* A call of restore: what it leaves of the runtime's MacDns.
LEMMA RestoreCall ==
    ASSUME DnsInv, NEW call, NEW active \in BOOLEAN, RestoreDns(call, active)
    PROVE /\ op'.step \in {"restore", "done"} /\ dns'.server = dns.server /\ (dns'.active => dns.active)
          /\ active /\ op'.step = "done" => ~dns'.active
          /\ ~active => ~dns'.active
          /\ saved' = saved /\ ~op'.failed
BY Zenon DEF DnsInv, DnsTypeOK, RestoreDns, Idle

\* The core starts and DNS is pointed at it.
LEMMA StartCoreInv == ASSUME JournalTypeOK, SessionDnsInv, StartCore PROVE SessionDnsInv'
<1> USE DEF SessionDnsInv
<1>1. stage \in {"opening", "reopened"} /\ UNCHANGED <<network, pending>> /\ Darwin' = Darwin
  BY Zenon DEF StartCore, RoutesIn, Darwin, journalVars
<1>2. CASE stage' = "loop" \/ stage' = "failed"
  <2>1. UNCHANGED dnsVars /\ listener' = listener /\ (stage' = "loop" => ~Darwin)
    BY <1>2, Zenon DEF StartCore
  <2>2. SessionTypeOK'
    BY <1>1, <2>1, Zenon DEF SessionTypeOK, Exit
  <2>3. FollowOK'
    BY <1>1, <1>2, <2>1, Zenon DEF FollowOK
  <2> QED BY <1>1, <1>2, <2>1, <2>2, <2>3, QuietInv, Zenon DEF InCall, WithoutDns
<1>3. CASE stage' = "dnsStart"
  <2>1. network.ipv4 \in up /\ listener' = network.ipv4 /\ StartDns("start", Physical, network.ipv4)
    BY <1>3, Zenon DEF StartCore
  <2>2. network.ipv4 \in Address
    BY <2>1, ExitUp, Zenon
  <2>3. DnsInv'
    BY <2>1, <2>2, CallsInv, ServicesCovered, Zenon
  <2>4. op'.step = "begin" /\ op'.server = listener' /\ dns' = dns /\ saved' = saved
    BY <2>1, Zenon DEF StartDns, Idle
  <2>5. ~dns.active
    BY <1>1, Zenon DEF StartOK, WithoutDns
  <2>6. SessionTypeOK' /\ FollowOK'
    BY <1>1, <1>3, <2>1, <2>2, Zenon DEF SessionTypeOK, FollowOK, Exit
  <2>7. StartOK' /\ ActiveOK'
    BY <1>3, <2>4, <2>5, Zenon DEF StartOK, ActiveOK, InCall, WithoutDns
  <2> QED BY <2>3, <2>6, <2>7, Zenon
<1> QED BY <1>2, <1>3, Zenon DEF StartCore

LEMMA DnsStartedInv == ASSUME SessionDnsInv, DnsStarted \/ SyncStarted PROVE SessionDnsInv'
<1> USE DEF SessionDnsInv
<1>1. /\ stage \in {"dnsStart", "syncStart"} /\ stage' \in {"failed", "loop"} /\ (stage' = "failed" => op.failed)
      /\ op.step = "done" /\ op' = Idle /\ UNCHANGED <<servers, saved, dns, network, listener>>
      /\ pending' = pending \/ pending' = op.failed
  BY Zenon DEF DnsStarted, SyncStarted, DnsReturned
<1>2. op'.step = "idle" /\ op.failed \in BOOLEAN
  BY <1>1, Zenon DEF Idle, DnsInv, DnsTypeOK, DnsCall
<1>3. DnsInv'
  BY <1>1, CallsInv, Zenon
<1>4. SessionTypeOK'
  BY <1>1, <1>2, Zenon DEF SessionTypeOK, Exit
<1>5. StartOK'
  BY <1>1, <1>2, Zenon DEF StartOK, InCall, WithoutDns
<1>6. ActiveOK' /\ FollowOK'
  BY <1>1, Zenon DEF ActiveOK, FollowOK, StartOK
<1> QED BY <1>3, <1>4, <1>5, <1>6, Zenon

\* The end of a session and recovery call restore; nothing is expected of DNS then.
LEMMA RestoringInv ==
    ASSUME SessionDnsInv, VerifyFails \/ Stopped \/ Stop \/ RecoverDns PROVE SessionDnsInv'
<1> USE DEF SessionDnsInv
<1>1. stage' \in {"dropDns", "stopDns", "recoverDns"} /\ UNCHANGED <<network, listener, pending>>
  BY Zenon DEF VerifyFails, Stopped, DropDns, Stop, RecoverDns
<1>2. /\ \E call \in {"drop", "stop", "recover"}, active \in BOOLEAN : RestoreDns(call, active)
      /\ stage' = "recoverDns" => RestoreDns("recover", TRUE) /\ stage \in {"down", "recoverRoutes"}
  <2>1. dns.active \in BOOLEAN
    BY Zenon DEF DnsInv, DnsTypeOK
  <2>2. CASE VerifyFails \/ Stopped
    BY <2>1, <2>2, Zenon DEF VerifyFails, Stopped, DropDns
  <2>3. CASE Stop
    BY <2>1, <2>3, Zenon DEF Stop
  <2>4. CASE RecoverDns
    BY <2>4, Zenon DEF RecoverDns
  <2> QED BY <2>2, <2>3, <2>4, Zenon
<1>3. DnsInv'
  BY <1>2, CallsInv, Zenon
<1>4. op'.step \in {"restore", "done"} /\ dns'.server = dns.server /\ (dns'.active => dns.active) /\ saved' = saved
  BY <1>2, RestoreCall, Zenon
<1>5. stage' = "recoverDns" => ~dns'.active
  BY <1>2, <1>4, Zenon DEF StartOK, WithoutDns
<1>6. SessionTypeOK' /\ FollowOK'
  BY <1>1, Zenon DEF SessionTypeOK, FollowOK, Exit
<1>7. StartOK'
  BY <1>1, <1>4, <1>5, Zenon DEF StartOK, InCall, WithoutDns
<1>8. ActiveOK'
  BY <1>4, Zenon DEF ActiveOK
<1> QED BY <1>3, <1>6, <1>7, <1>8, Zenon

LEMMA SyncInv == ASSUME JournalTypeOK, SessionDnsInv, Sync PROVE SessionDnsInv'
<1> USE DEF SessionDnsInv
<1>1. /\ stage = "sync" /\ network.ipv4 \in up /\ listener' = network.ipv4 /\ network' = network
      /\ pending
  BY Zenon DEF Sync, FollowOK
<1>2. network.ipv4 \in Address
  BY <1>1, ExitUp, Zenon
<1>3. CASE dns.server = network.ipv4
  <2>1. stage' = "loop" /\ pending' = FALSE /\ UNCHANGED dnsVars
    BY <1>3, Zenon DEF Sync
  <2>2. SessionTypeOK'
    BY <1>1, <1>2, <2>1, Zenon DEF SessionTypeOK, Exit
  <2>3. FollowOK'
    BY <1>1, <1>3, <2>1, Zenon DEF FollowOK, dnsVars
  <2> QED BY <1>1, <2>1, <2>2, <2>3, QuietInv, Zenon DEF InCall, WithoutDns
<1>4. CASE dns.server # network.ipv4
  <2>1. stage' = "syncRestore" /\ pending' = pending /\ RestoreDns("refresh", dns.active) /\ dns.active \in BOOLEAN
    BY <1>4, Zenon DEF Sync, DnsInv, DnsTypeOK
  <2>2. DnsInv'
    BY <2>1, CallsInv, Zenon
  <2>3. /\ op'.step \in {"restore", "done"} /\ dns'.server = dns.server /\ (dns'.active => dns.active)
        /\ op'.step = "done" => ~dns'.active
        /\ saved' = saved
    BY <2>1, RestoreCall, Zenon
  <2>4. SessionTypeOK' /\ FollowOK'
    BY <1>1, <1>2, <2>1, Zenon DEF SessionTypeOK, FollowOK, Exit
  <2>5. StartOK'
    BY <2>1, <2>3, Zenon DEF StartOK, InCall, WithoutDns
  <2>6. ActiveOK'
    BY <2>3, Zenon DEF ActiveOK
  <2> QED BY <2>2, <2>4, <2>5, <2>6, Zenon
<1> QED BY <1>3, <1>4, Zenon

LEMMA SyncRestoredInv == ASSUME JournalTypeOK, SessionDnsInv, SyncRestored PROVE SessionDnsInv'
<1> USE DEF SessionDnsInv
<1>1. stage = "syncRestore" /\ op.step = "done" /\ UNCHANGED <<network, listener, pending>>
  BY Zenon DEF SyncRestored, DnsReturned
<1>2. pending /\ listener = network.ipv4 /\ listener \in Address
  BY <1>1, Zenon DEF FollowOK
<1>3. CASE op.failed
  <2>1. op' = Idle /\ stage' = "loop" /\ UNCHANGED <<servers, saved, dns>>
    BY <1>3, Zenon DEF SyncRestored
  <2>2. DnsInv'
    BY <2>1, CallsInv, Zenon
  <2>3. SessionTypeOK' /\ FollowOK'
    BY <1>1, <1>2, <2>1, Zenon DEF SessionTypeOK, FollowOK, Exit
  <2>4. StartOK' /\ ActiveOK'
    BY <2>1, Zenon DEF StartOK, ActiveOK, InCall, WithoutDns, Idle
  <2> QED BY <2>2, <2>3, <2>4, Zenon
<1>4. CASE ~op.failed
  <2>1. stage' = "syncStart" /\ StartDns("refresh", Physical, listener) /\ ~dns.active
    BY <1>1, <1>4, Zenon DEF SyncRestored, StartOK
  <2>2. DnsInv'
    BY <1>2, <2>1, CallsInv, ServicesCovered, Zenon
  <2>3. op'.step = "begin" /\ op'.server = listener /\ dns' = dns /\ saved' = saved
    BY <2>1, Zenon DEF StartDns, Idle
  <2>4. SessionTypeOK' /\ FollowOK'
    BY <1>1, <1>2, <2>1, Zenon DEF SessionTypeOK, FollowOK, Exit
  <2>5. StartOK' /\ ActiveOK'
    BY <1>1, <2>1, <2>3, Zenon DEF StartOK, ActiveOK, InCall, WithoutDns
  <2> QED BY <2>2, <2>4, <2>5, Zenon
<1> QED BY <1>3, <1>4, Zenon

\* A call that was the last one of its kind, and the death of the process.
LEMMA EndInv == ASSUME SessionDnsInv, StopRoutes \/ DropRoutes \/ Recovered \/ Dies PROVE SessionDnsInv'
<1> USE DEF SessionDnsInv
<1>1. /\ stage' \in {"stopRoutes", "closing", "down"} /\ op' = Idle /\ UNCHANGED <<servers, saved>>
      /\ dns' = dns \/ dns' = NoDns
      /\ stage' # "stopRoutes" => dns' = NoDns
  BY Zenon DEF StopRoutes, DropRoutes, Recovered, Dies, DnsCrash, Down
<1>2. (network' = network \/ network' = NoNetwork) /\ (listener' = listener \/ listener' = NoAddress)
      /\ (pending' = pending \/ pending' = FALSE)
  BY Zenon DEF StopRoutes, DropRoutes, Recovered, Dies, Down
<1>3. DnsInv'
  <2>1. DnsCrash \/ (op' = Idle /\ UNCHANGED <<servers, saved, dns>>)
    BY <1>1, Zenon DEF DnsCrash
  <2> QED BY <2>1, CallsInv, Zenon
<1>4. SessionTypeOK'
  <2>1. NoNetwork.ipv4 = NoExit
    BY Zenon DEF NoNetwork
  <2>2. network'.ipv4 \in Exit \cup {NoExit}
    BY <1>2, <2>1, Zenon DEF SessionTypeOK
  <2> QED BY <1>2, <2>2, Zenon DEF SessionTypeOK, Exit
<1>5. StartOK' /\ ActiveOK'
  BY <1>1 DEF StartOK, ActiveOK, InCall, WithoutDns, Idle, NoDns
<1>6. FollowOK'
  BY <1>1, Zenon DEF FollowOK
<1> QED BY <1>3, <1>4, <1>5, <1>6, Zenon

LEMMA SessionDnsInit == ASSUME Init PROVE SessionDnsInv
<1> USE DEF Init, DnsInit
<1>1. DnsTypeOK
  BY Zenon DEF DnsTypeOK, DnsCall, NoDns, Idle
<1>2. DnsRecoverable
  BY AddressAssumption, Zenon DEF DnsRecoverable
<1>3. CallOK
  BY Zenon DEF CallOK, Restoring, Idle
<1>4. SessionTypeOK /\ FollowOK
  BY Zenon DEF SessionTypeOK, NoNetwork, FollowOK
<1>5. StartOK /\ ActiveOK
  BY Zenon DEF StartOK, ActiveOK, InCall, WithoutDns, Idle, NoDns
<1> QED BY <1>1, <1>2, <1>3, <1>4, <1>5, Zenon DEF SessionDnsInv, DnsInv

LEMMA SessionDnsNext == ASSUME JournalTypeOK, SessionDnsInv, [Next]_vars PROVE SessionDnsInv'
<1>1. platform' = platform
  BY SessionStep, PlatformFixed, Zenon
<1>2. CASE \E choice \in Choices : (\E found \in BOOLEAN : OpenSession(choice, found)) \/ Reselect(choice) \/ Tick(choice)
  BY <1>2, StartupInv, LoopInv, Zenon
<1>3. CASE RouteStep \/ LinkStep \/ OtherStep \/ UserStep
  BY <1>1, <1>3, OutsideInv, Zenon DEF RouteStep, LinkStep, OtherStep, UserStep
<1>4. CASE ServiceStep
  BY <1>4, ServiceStepInv, Zenon DEF ServiceStep
<1>5. CASE RunStep
  BY <1>5, StartupInv, LoopInv, StartCoreInv, DnsStartedInv, SyncInv, SyncRestoredInv, RestoringInv, EndInv, Zenon DEF RunStep
<1>6. CASE Stop \/ RecoverRoutes \/ Dies
  BY <1>6, RestoringInv, StartupInv, EndInv, Zenon
<1>7. CASE Fails
  <2>1. CASE (CallFails \/ SaveFails \/ RestoreFails) /\ UNCHANGED <<dnsVars, sessionVars>>
    BY <1>1, <2>1, OutsideInv, Zenon
  <2>2. CASE DnsFails /\ UNCHANGED <<journalVars, sessionVars>>
    BY <2>2, ServiceStepInv, Zenon
  <2>3. CASE CoreFails \/ VerifyFails
    BY <2>3, StartupInv, RestoringInv, Zenon
  <2> QED BY <1>7, <2>1, <2>2, <2>3, Zenon DEF Fails
<1>8. CASE UNCHANGED vars
  BY <1>1, <1>8, OutsideInv, Zenon DEF vars
<1> QED BY <1>2, <1>3, <1>4, <1>5, <1>6, <1>7, <1>8, Zenon DEF Next

\* What whole sessions keep of their DNS, over failures, deaths and recoveries.
THEOREM SessionDnsInvariant == Spec => []SessionDnsInv
<1>1. ASSUME IInv, SessionDnsInv, [Next]_vars PROVE SessionDnsInv'
  BY <1>1, SessionDnsNext, Zenon DEF IInv
<1>2. Init => SessionDnsInv
  BY SessionDnsInit, Zenon
<1> QED BY <1>1, <1>2, SessionInvariant, PTL DEF Spec

\* Whenever the process may die in start, refresh, restore or recover of
\* macos_dns.rs, a service that a session pointed at an address of this machine
\* is named by the file, with the servers its user chose.
THEOREM DnsAlwaysRecoverable == Spec => []DnsRecoverable
<1>1. SessionDnsInv => DnsRecoverable
  BY Zenon DEF SessionDnsInv, DnsInv
<1> QED BY <1>1, SessionDnsInvariant, PTL

\* Whenever run (runtime/src/lib.rs) is in its loop with no change of DNS pending,
\* the core listens at the address of the exit in use, and services it manages
\* point there.
THEOREM DnsFollowsExit == Spec => []DnsServed
<1>1. ASSUME SessionDnsInv PROVE DnsServed
  <2> SUFFICES ASSUME stage = "loop", Darwin, ~pending
               PROVE  /\ listener = network.ipv4
                      /\ dns.active => dns.server = listener /\ \A s \in Service : servers[s] \in Address => servers[s] = listener
    BY Zenon DEF DnsServed
  <2>1. listener = network.ipv4 /\ (dns.active => dns.server = listener)
    BY <1>1, Zenon DEF SessionDnsInv, FollowOK
  <2>2. ASSUME dns.active, NEW s \in Service, servers[s] \in Address PROVE servers[s] = dns.server
    BY <1>1, <2>2 DEF SessionDnsInv, ActiveOK, DnsInv, DnsRecoverable
  <2> QED BY <2>1, <2>2, Zenon
<1> QED BY <1>1, SessionDnsInvariant, PTL
=============================================================================
