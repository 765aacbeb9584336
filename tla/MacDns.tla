------------------------------- MODULE MacDns -------------------------------
(***************************************************************************)
(* The DNS servers of the macOS network services while a session points    *)
(* them at its own listener (crates/platform/src/macos_dns.rs).  What the  *)
(* services had is saved to a file before the first one is changed; a      *)
(* service that is still as the session set it gets it back when the       *)
(* session ends, moves to another address or is recovered.                 *)
(*                                                                         *)
(* networksetup is external: each call of it is a step, may fail, and the  *)
(* user may change a service at any time.                                  *)
(***************************************************************************)
CONSTANTS
    Service,    \* enabled network services
    Address,    \* addresses of this machine a listener may use
    Chosen,     \* servers a user sets
    NoAddress   \* no listener, no session

\* No user sets an address of this machine: a service at one was set by a session.
ASSUME AddressAssumption == Address \cap Chosen = {} /\ NoAddress \notin Address

VARIABLES
    servers,    \* the configured servers of each service
    saved,      \* the state file: {} when there is none, else {its contents}
    dns,        \* the runtime's MacDns: its server, and whether it is active
    op          \* the call of MacDns under way

dnsVars == <<servers, saved, dns, op>>

Idle == [step |-> "idle", call |-> "none", todo |-> {}, server |-> NoAddress, failed |-> FALSE]
NoDns == [server |-> NoAddress, active |-> FALSE]
TheState == CHOOSE state \in saved : TRUE

DnsInit ==
    /\ servers \in [Service -> Chosen]
    /\ saved = {}
    /\ dns = NoDns
    /\ op = Idle

\* The call under way returned.
Returns(ok) == op' = [Idle EXCEPT !.call = op.call, !.step = "done", !.failed = ~ok]

-----------------------------------------------------------------------------
(***************************************************************************)
(* start.                                                                  *)
(***************************************************************************)
\* Mutant: the services are changed before what they had is saved.
SaveStateNot(covered, server) == saved
SaveState(covered, server) == {[servers |-> [s \in covered |-> servers[s]], server |-> server]}

StartDns(call, covered, server) ==
    /\ op' = [Idle EXCEPT !.call = call, !.step = "begin", !.todo = covered, !.server = server]
    /\ UNCHANGED <<servers, saved, dns>>

\* Refused while a state file exists; else the servers of the covered services
\* are read and saved.
BeginDns ==
    /\ op.step = "begin"
    /\ IF saved # {}
       THEN Returns(FALSE) /\ UNCHANGED saved
       ELSE op' = [op EXCEPT !.step = "set"] /\ saved' = SaveState(op.todo, op.server)
    /\ UNCHANGED <<servers, dns>>

\* There is no enabled service for the interface, a service cannot be read or
\* the file not saved; the error may come after the file was put in place.
BeginFails ==
    /\ op.step = "begin"
    /\ Returns(FALSE)
    /\ saved' \in IF saved = {} THEN {saved, SaveState(op.todo, op.server)} ELSE {saved}
    /\ UNCHANGED <<servers, dns>>

SetServer(s) ==
    /\ op.step = "set" /\ s \in op.todo
    /\ servers' = [servers EXCEPT ![s] = op.server]
    /\ op' = [op EXCEPT !.todo = @ \ {s}]
    /\ UNCHANGED <<saved, dns>>

StartDone ==
    /\ op.step = "set" /\ op.todo = {}
    /\ dns' = [server |-> op.server, active |-> TRUE]
    /\ Returns(TRUE)
    /\ UNCHANGED <<servers, saved>>

\* A service that cannot be set: the ones that were are restored, once at once
\* and once more when the new MacDns is dropped.
SetFails ==
    /\ op.step = "set" /\ op.todo # {}
    /\ op' = [op EXCEPT !.step = "undo", !.todo = DOMAIN TheState.servers]
    /\ UNCHANGED <<servers, saved, dns>>

-----------------------------------------------------------------------------
(***************************************************************************)
(* restore.                                                                *)
(***************************************************************************)
Restoring == op.step \in {"undo", "undoDrop", "restore"}

\* restore of the runtime's MacDns, and recover of a file left behind.
RestoreDns(call, active) ==
    /\ op' = IF active /\ saved # {}
             THEN [Idle EXCEPT !.call = call, !.step = "restore", !.todo = DOMAIN TheState.servers]
             ELSE [Idle EXCEPT !.call = call, !.step = "done"]
    /\ dns' = IF active /\ saved # {} THEN dns ELSE [dns EXCEPT !.active = FALSE]
    /\ UNCHANGED <<servers, saved>>

\* Mutant: compared with what the service had.
OursSaved(s) == servers[s] = TheState.servers[s]
Ours(s) == servers[s] = TheState.server

RestoreService(s) ==
    /\ Restoring /\ s \in op.todo
    /\ servers' = IF Ours(s) THEN [servers EXCEPT ![s] = TheState.servers[s]] ELSE servers
    /\ op' = [op EXCEPT !.todo = @ \ {s}]
    /\ UNCHANGED <<saved, dns>>

\* The file goes when every service was looked at.
RestoreDone ==
    /\ Restoring /\ op.todo = {}
    /\ saved' = {}
    /\ dns' = IF op.step = "restore" THEN [dns EXCEPT !.active = FALSE] ELSE dns
    /\ Returns(op.step = "restore")
    /\ UNCHANGED servers

\* An error keeps the file.  Undoing is tried again when the new MacDns is
\* dropped.
RestoreDnsFails ==
    /\ Restoring
    /\ IF op.step = "undo"
       THEN op' = [op EXCEPT !.step = "undoDrop", !.todo = DOMAIN TheState.servers]
       ELSE Returns(FALSE)
    /\ UNCHANGED <<servers, saved, dns>>

DnsStep ==
    \/ \E s \in Service : SetServer(s) \/ RestoreService(s)
    \/ BeginDns \/ StartDone \/ RestoreDone

DnsFails == BeginFails \/ SetFails \/ RestoreDnsFails

\* The process dies.
DnsCrash ==
    /\ dns' = NoDns
    /\ op' = Idle
    /\ UNCHANGED <<servers, saved>>

UserSets(s, c) ==
    /\ servers[s] # c
    /\ servers' = [servers EXCEPT ![s] = c]
    /\ UNCHANGED <<saved, dns, op>>

-----------------------------------------------------------------------------
\* A service that points at a session's address can be given back what its user
\* chose: the file is there and names it.
DnsRecoverable ==
    \A s \in Service : servers[s] \in Address =>
       \E state \in saved : s \in DOMAIN state.servers /\ state.server = servers[s] /\ state.servers[s] \in Chosen
=============================================================================
