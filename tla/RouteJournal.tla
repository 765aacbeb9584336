---------------------------- MODULE RouteJournal ----------------------------
(***************************************************************************)
(* The routes a TUN session adds to the system and the journal they are    *)
(* removed from (crates/platform/src/desktop.rs, Transaction): apply makes *)
(* a set of routes the ones in force, restore removes every journaled one, *)
(* recover does so for a session that was interrupted.                     *)
(*                                                                         *)
(* Every call of the route manager and every save of the journal is a step *)
(* of its own: the process may die between two of them, and each may fail. *)
(* The routing table is external; other programs add routes to it, and the *)
(* routes of an interface leave with it.  A route specification is a       *)
(* prefix and the exit (interface and gateway) it goes to.                 *)
(***************************************************************************)
CONSTANTS
    Prefix,     \* destinations
    Interface,  \* exits, the tunnel's own among them
    Tun         \* the tunnel's interface

RouteSpec == [network : Prefix, interface : Interface]
Platform == {"darwin", "linux", "windows"}

ASSUME TunAssumption == Tun \in Interface

VARIABLES
    platform,   \* which build this is
    up,         \* interfaces that exist
    table,      \* the routing table: specifications, and whether they are ours
    disk,       \* the journal file: {} when there is none, else {its routes}
    journal,    \* Transaction.journal.routes
    tx          \* what the process holding the lock file does

journalVars == <<platform, up, table, disk, journal, tx>>

\* at: the route of the call under way.  failed: apply or restore returned an
\* error.  last: the transaction ends with the restore under way.
Closed == [owner |-> "none", step |-> "idle", restoring |-> FALSE, failed |-> FALSE, last |-> FALSE,
           todo |-> {}, at |-> {}, present |-> {}, desired |-> {}]

Journaled == UNION disk
Own(routes) == {r.spec : r \in {q \in routes : q.own}}
At(step) == tx.owner # "none" /\ tx.step = step

JournalInit ==
    /\ platform \in Platform
    /\ up = Interface \ {Tun}
    /\ table = {}
    /\ disk = {}
    /\ journal = {}
    /\ tx = Closed

-----------------------------------------------------------------------------
(***************************************************************************)
(* The route manager (external) and what the code asks it.                 *)
(***************************************************************************)
\* RouteSpec::matches: metric 7 tells our routes apart where routes have one.
\* Mutant: the metric is not looked at.
MatchesAny(s, r) == r.spec = s
Matches(s, r) == r.spec = s /\ (platform = "darwin" \/ r.own)

Without(s) == {r \in table : ~Matches(s, r)}

\* Already in the snapshot of the table; Windows reuses anybody's.
InPlace(s) ==
    \E r \in tx.present : Matches(s, r) \/ (platform = "windows" /\ r.spec = s)

\* Routes are told apart by prefix on Darwin, by prefix and exit on Windows and
\* by the metric too on Linux.
Accepted(s) ==
    /\ s.interface \in up
    /\ CASE platform = "darwin" -> \A r \in table : r.spec.network # s.network
         [] platform = "windows" -> \A r \in table : r.spec # s
         [] OTHER -> [spec |-> s, own |-> TRUE] \notin table

\* The tunnel closes with the process, and its routes leave.
TunGone ==
    /\ up' = up \ {Tun}
    /\ table' = {r \in table : r.spec.interface # Tun}

-----------------------------------------------------------------------------
(***************************************************************************)
(* apply.                                                                  *)
(***************************************************************************)
Replaced(desired) ==
    {s \in journal : s \notin desired /\ \E n \in desired : n.network = s.network}

\* Mutant: routes that are not desired any more stay.
ObsoleteNone == {}
Obsolete == journal \ tx.desired

\* An error ends apply or restore; apply is not called again, the session ends.
Failed ==
    [tx EXCEPT !.failed = TRUE, !.restoring = FALSE, !.step = "idle", !.todo = {}, !.at = {}, !.present = {}]

\* DesktopTun::open: refused while a journal has routes.
Open(desired) ==
    /\ tx.owner = "none" /\ Journaled = {}
    /\ tx' = [Closed EXCEPT !.owner = "session", !.step = "replace", !.desired = desired]
    /\ up' = up \cup {Tun}
    /\ UNCHANGED <<platform, table, disk, journal>>

\* DesktopTun::refresh of a network that changed.
Refresh(desired) ==
    /\ tx.owner = "session" /\ tx.step = "idle" /\ ~tx.failed
    /\ tx' = [tx EXCEPT !.desired = desired, !.step = "replace", !.todo = Replaced(desired)]
    /\ UNCHANGED <<platform, up, table, disk, journal>>

\* Conflicting routes of ours go first; they stay journaled.
Replace(s) ==
    /\ At("replace") /\ s \in tx.todo
    /\ table' = Without(s)
    /\ tx' = [tx EXCEPT !.todo = @ \ {s}]
    /\ UNCHANGED <<platform, up, disk, journal>>

List ==
    /\ At("replace") /\ tx.todo = {}
    /\ tx' = [tx EXCEPT !.present = table, !.todo = tx.desired, !.step = "add"]
    /\ UNCHANGED <<platform, up, table, disk, journal>>

\* Mutant: the journal in memory is not saved before the route is added.
SavedNever(routes) == disk
Saved(routes) == {routes}

\* One route of apply: nothing when it is in place, else it is journaled and the
\* journal saved before it is added.
Journal(s) ==
    /\ At("add") /\ s \in tx.todo
    /\ IF InPlace(s)
       THEN /\ tx' = [tx EXCEPT !.todo = @ \ {s}]
            /\ UNCHANGED <<disk, journal>>
       ELSE /\ tx' = [tx EXCEPT !.todo = @ \ {s}, !.at = {s}, !.step = "adding"]
            /\ journal' = journal \cup {s}
            /\ disk' = IF s \in journal THEN disk ELSE Saved(journal')
    /\ UNCHANGED <<platform, up, table>>

Add(s) ==
    /\ At("adding") /\ s \in tx.at /\ Accepted(s)
    /\ table' = table \cup {[spec |-> s, own |-> TRUE]}
    /\ tx' = [tx EXCEPT !.at = {}, !.step = "add"]
    /\ UNCHANGED <<platform, up, disk, journal>>

\* The system has another route in its place.
AddRejected(s) ==
    /\ At("adding") /\ s \in tx.at /\ ~Accepted(s)
    /\ tx' = Failed
    /\ UNCHANGED <<platform, up, table, disk, journal>>

AddsDone ==
    /\ At("add") /\ tx.todo = {}
    /\ tx' = [tx EXCEPT !.todo = Obsolete, !.present = {}, !.step = "drop"]
    /\ UNCHANGED <<platform, up, table, disk, journal>>

-----------------------------------------------------------------------------
(***************************************************************************)
(* Routes leave: the obsolete ones at the end of apply, all of them in     *)
(* restore.                                                                *)
(***************************************************************************)
Restores(last) ==
    /\ tx' = [tx EXCEPT !.restoring = TRUE, !.last = last, !.todo = journal, !.desired = {}, !.step = "drop"]
    /\ UNCHANGED <<platform, up, table, disk, journal>>

\* DesktopTun::restore, at the end of a session.
Restore ==
    /\ tx.owner = "session" /\ tx.step = "idle"
    /\ Restores(FALSE)

\* The process is done with the transaction, and its lock is free.
Close ==
    /\ tx' = Closed
    /\ journal' = {}
    /\ IF tx.owner = "session" THEN TunGone ELSE UNCHANGED <<up, table>>
    /\ UNCHANGED platform

\* DesktopTun is dropped: it restores first when there are routes left.
DropTun ==
    /\ tx.owner = "session" /\ tx.step = "idle"
    /\ IF journal = {} THEN Close /\ UNCHANGED disk ELSE Restores(TRUE)

Known == {s \in Journaled : s.interface \in up}

\* recover: routes of interfaces that are gone left with them.
Recover ==
    /\ tx.owner = "none" /\ disk # {}
    /\ journal' = Known
    /\ tx' = [Closed EXCEPT !.owner = "recovery", !.restoring = TRUE, !.last = TRUE, !.todo = Known, !.step = "drop"]
    /\ UNCHANGED <<platform, up, table, disk>>

\* The route leaves the table first and the journal afterwards.
Drop(s) ==
    /\ At("drop") /\ s \in tx.todo
    /\ table' = Without(s)
    /\ tx' = [tx EXCEPT !.todo = @ \ {s}, !.at = {s}, !.step = "forget"]
    /\ UNCHANGED <<platform, up, disk, journal>>

Forget ==
    /\ At("forget")
    /\ journal' = journal \ tx.at
    /\ disk' = {journal'}
    /\ tx' = [tx EXCEPT !.at = {}, !.step = "drop"]
    /\ UNCHANGED <<platform, up, table>>

Applied ==
    /\ At("drop") /\ ~tx.restoring /\ tx.todo = {}
    /\ tx' = [tx EXCEPT !.step = "idle"]
    /\ UNCHANGED <<platform, up, table, disk, journal>>

\* The file is removed once nothing is journaled any more.
Restored ==
    /\ At("drop") /\ tx.restoring /\ tx.todo = {}
    /\ disk' = {}
    /\ IF tx.last
       THEN Close
       ELSE /\ tx' = [tx EXCEPT !.restoring = FALSE, !.step = "idle"]
            /\ UNCHANGED <<platform, up, table, journal>>

-----------------------------------------------------------------------------
(***************************************************************************)
(* Failures.                                                               *)
(***************************************************************************)
\* A call of the route manager fails.
CallFails ==
    /\ ~tx.restoring /\ (At("replace") \/ At("adding") \/ (At("drop") /\ tx.todo # {}))
    /\ tx' = Failed
    /\ UNCHANGED <<platform, up, table, disk, journal>>

\* So does a save; the file may have been replaced or not.
SaveFails ==
    /\ ~tx.restoring
    /\ \/ /\ At("add")
          /\ \E s \in tx.todo \ journal : ~InPlace(s) /\ journal' = journal \cup {s}
       \/ At("forget") /\ journal' = journal \ tx.at
    /\ disk' \in {disk, {journal'}}
    /\ tx' = Failed
    /\ UNCHANGED <<platform, up, table>>

\* An error of restore keeps what is left of the journal, for the next restore
\* or for recover.
RestoreFails ==
    /\ tx.restoring /\ (At("drop") \/ At("forget"))
    /\ disk' \in IF tx.step = "forget" THEN {disk, {journal \ tx.at}} ELSE {disk}
    /\ IF tx.last
       THEN Close
       ELSE /\ tx' = Failed
            /\ journal' = journal \ tx.at
            /\ UNCHANGED <<platform, up, table>>

\* The process dies.
Crash ==
    /\ tx.owner # "none"
    /\ Close
    /\ UNCHANGED disk

-----------------------------------------------------------------------------
(***************************************************************************)
(* The system: interfaces come and go, other programs add routes.          *)
(***************************************************************************)
LinkDown(i) ==
    /\ i \in up \ {Tun}
    /\ up' = up \ {i}
    /\ table' = {r \in table : r.spec.interface # i}
    /\ UNCHANGED <<platform, disk, journal, tx>>

LinkUp(i) ==
    /\ i \notin up /\ i # Tun
    /\ up' = up \cup {i}
    /\ UNCHANGED <<platform, table, disk, journal, tx>>

OtherAdds(s) ==
    /\ s.interface \in up \ {Tun} /\ \A r \in table : r.spec # s
    /\ platform = "darwin" => \A r \in table : r.spec.network # s.network
    /\ table' = table \cup {[spec |-> s, own |-> FALSE]}
    /\ UNCHANGED <<platform, up, disk, journal, tx>>

ApplyStep ==
    \/ \E s \in RouteSpec : Replace(s) \/ Journal(s) \/ Add(s) \/ AddRejected(s) \/ Drop(s)
    \/ List \/ AddsDone \/ Forget \/ Applied \/ Restored

SystemStep ==
    \/ \E i \in Interface : LinkDown(i) \/ LinkUp(i)
    \/ \E s \in RouteSpec : OtherAdds(s)

JournalNext ==
    \/ \E desired \in SUBSET RouteSpec : Open(desired) \/ Refresh(desired)
    \/ ApplyStep \/ Restore \/ DropTun \/ Recover
    \/ CallFails \/ SaveFails \/ RestoreFails \/ Crash
    \/ SystemStep

JournalSpec == JournalInit /\ [][JournalNext]_journalVars

-----------------------------------------------------------------------------
JournalTypeOK ==
    /\ platform \in Platform
    /\ up \subseteq Interface
    /\ table \subseteq [spec : RouteSpec, own : BOOLEAN]
    /\ \A r \in table : r.spec.interface \in up
    /\ disk \subseteq SUBSET RouteSpec /\ \A a, b \in disk : a = b
    /\ journal \subseteq RouteSpec
    /\ tx \in [owner : {"none", "session", "recovery"}, step : {"idle", "replace", "add", "adding", "drop", "forget"},
               restoring : BOOLEAN, failed : BOOLEAN, last : BOOLEAN, todo : SUBSET RouteSpec, at : SUBSET RouteSpec,
               present : SUBSET [spec : RouteSpec, own : BOOLEAN], desired : SUBSET RouteSpec]
    /\ Tun \in up <=> tx.owner = "session"

\* Whenever the process may die, every route it added and has not removed is in
\* the journal file: apply saves before it adds and forgets after it removed.
\* So a missing file means that nothing was left behind.
WriteAhead == Own(table) \subseteq Journaled

\* Routes of others stay: only on Darwin, where routes carry no metric, may one
\* go, and then it is equal to a journaled one.
OthersKept ==
    [][\A r \in table \ table' :
         r.own \/ r.spec.interface \notin up' \/ (platform = "darwin" /\ r.spec \in journal)]_journalVars

\* After apply the routes in force are the desired ones: none of an earlier
\* network is left, and everything to be captured goes into the tunnel.  After
\* restore there are none.
AppliedInForce ==
    tx.owner = "session" /\ tx.step = "idle" /\ ~tx.failed =>
       /\ Own(table) \subseteq tx.desired
       /\ \A s \in tx.desired : s.interface = Tun => s \in Own(table)
=============================================================================
