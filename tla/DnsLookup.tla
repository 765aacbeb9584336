----------------------------- MODULE DnsLookup -----------------------------
(***************************************************************************)
(* A lookup of one name by the resolver (crates/core/src/dns.rs): the A    *)
(* and the AAAA exchange it joins, each of which tries the cache, then the *)
(* servers of the name's nameserver-policy and the plain nameservers.  The *)
(* exchanges share the cache and what is known of the policy servers.      *)
(*                                                                         *)
(* A reply is abstracted to what the resolver tells apart.  Timers (the    *)
(* head start, the AAAA grace, the five seconds of an upstream) are steps  *)
(* that may come at any time while they run.                               *)
(***************************************************************************)
EXTENDS Integers, FiniteSets

CONSTANTS
    Policy,     \* servers of the nameserver-policy entry of the name
    Nameserver  \* plain nameservers

ASSUME ServersAssumption ==
    /\ Policy # {} /\ Nameserver # {}
    /\ Policy \cap Nameserver = {}

VARIABLES
    onNetwork,  \* the network, a number per change
    policed,    \* whether a nameserver-policy entry matches the name
    cache,      \* record type -> cached answer, and on which network it was asked for
    reachable,  \* what is known of the policy servers, and on which network
    exchange,   \* record type -> the exchange
    lookup      \* the lookup that joins them

lookupVars == <<onNetwork, policed, cache, reachable, exchange, lookup>>

Type == {"A", "AAAA"}
Server == Policy \cup Nameserver
\* Messages for which `answered` holds: addresses, and NXDOMAIN or no data.
Answered == {"address", "empty"}
Outcome == Answered \cup {"rejected", "failed"}
Unknown == [is |-> "unknown", on |-> 0]
NoEntry == [is |-> "none", on |-> 0]
NoExchange == [at |-> "idle", on |-> 0, timer |-> FALSE, status |-> [u \in Server |-> "unasked"], result |-> "none", from |-> "none"]

LookupInit ==
    /\ onNetwork = 1
    /\ policed \in BOOLEAN
    /\ cache = [t \in Type |-> NoEntry]
    /\ reachable = Unknown
    /\ exchange = [t \in Type |-> NoExchange]
    /\ lookup = "idle"

-----------------------------------------------------------------------------
(***************************************************************************)
(* race                                                                    *)
(***************************************************************************)
\* Mutant: the first reply of any kind ends the race.
RaceFirst(status, servers) ==
    LET got(o) == \E u \in servers : status[u] = o
    IN  IF got("address") THEN "address"
        ELSE IF got("empty") THEN "empty"
        ELSE IF got("rejected") THEN "rejected"
        ELSE IF got("asked") THEN "pending"
        ELSE "failed"
\* The first answer ends it; a rejecting reply only when no upstream answers.
Race(status, servers) ==
    LET got(o) == \E u \in servers : status[u] = o
    IN  IF got("address") THEN "address"
        ELSE IF got("empty") THEN "empty"
        ELSE IF got("asked") THEN "pending"
        ELSE IF got("rejected") THEN "rejected"
        ELSE "failed"

Ask(e, servers) == [e EXCEPT !.status = [u \in Server |-> IF u \in servers THEN "asked" ELSE @[u]]]
End(e, from) == [e EXCEPT !.at = "done", !.from = from,
                          !.result = IF from = "none" THEN "failed"
                                     ELSE Race(e.status, IF from = "policy" THEN Policy ELSE Nameserver)]

(***************************************************************************)
(* exchange_policy: what a result of either race leads to.                 *)
(***************************************************************************)
\* The plain nameservers answer instead; they may have been asked already.
AfterPolicyFailed(e) ==
    CASE e.at = "alone" -> [Ask(e, Nameserver) EXCEPT !.at = "fallback"]
      [] e.at = "both" -> [e EXCEPT !.at = "fallback"]
      [] e.at = "policy" -> End(e, "none")

\* Mutant: the policy's answer is not awaited on its own.
AfterFallbackFailedKeeps(e) == IF e.at = "both" THEN e ELSE End(e, "none")
AfterFallbackFailed(e) == IF e.at = "both" THEN [e EXCEPT !.at = "policy"] ELSE End(e, "none")

\* The exchange once `servers` reported.
Settle(e, servers) ==
    LET result == Race(e.status, servers)
        policy == servers = Policy
    IN  CASE result = "pending" -> e
          [] result = "failed" -> IF policy THEN AfterPolicyFailed(e) ELSE AfterFallbackFailed(e)
          [] OTHER -> End(e, IF policy THEN "policy" ELSE "nameserver")

\* mark: the policy servers replied, or failed, or the nameservers replied first.
Mark(e, servers) ==
    LET result == Race(e.status, servers)
    IN  IF result = "pending" \/ e.at \in {"plain", "fallback"} THEN reachable
        ELSE IF servers = Policy THEN [is |-> IF result = "failed" THEN "no" ELSE "yes", on |-> e.on]
        ELSE IF result = "failed" THEN reachable ELSE [is |-> "no", on |-> e.on]

\* cached_exchange looks in the cache, then asks: the policy servers, alone for
\* as long as what is known of them gives, or the plain nameservers.
Begin(t) ==
    LET new == [NoExchange EXCEPT !.on = onNetwork]
    IN  CASE cache[t] # NoEntry -> [new EXCEPT !.at = "done", !.from = "cache", !.result = cache[t].is]
          [] cache[t] = NoEntry /\ policed ->
               [Ask(new, Policy) EXCEPT !.at = "alone", !.timer = reachable.is # "yes"]
          [] OTHER -> [Ask(new, Nameserver) EXCEPT !.at = "plain"]

MayFallBack(t) == exchange[t].at = "alone" /\ exchange[t].timer

HeadStartEnds(t) ==
    /\ MayFallBack(t)
    /\ exchange' = [exchange EXCEPT ![t] = [Ask(@, Nameserver) EXCEPT !.at = "both"]]
    /\ UNCHANGED <<onNetwork, policed, cache, reachable, lookup>>

-----------------------------------------------------------------------------
(***************************************************************************)
(* lookup: both exchanges at once; the first to end decides what to await. *)
(***************************************************************************)
AfterA(result) == IF result = "address" THEN "grace" ELSE "aaaa"

Joined(t, result) ==
    CASE lookup = "both" /\ t = "A" -> AfterA(result)
      [] lookup = "both" /\ t = "AAAA" -> "a"
      [] OTHER -> "done"

StartLookup ==
    /\ lookup = "idle"
    /\ lookup' = "both"
    /\ exchange' = [t \in Type |-> Begin(t)]
    /\ UNCHANGED <<onNetwork, policed, cache, reachable>>

\* An exchange answered by the cache is joined without waiting.
JoinCached(t) ==
    /\ exchange[t].from = "cache"
    /\ lookup \in {"both"} \cup IF t = "A" THEN {"a"} ELSE {"aaaa", "grace"}
    /\ lookup' = Joined(t, exchange[t].result)
    /\ UNCHANGED <<onNetwork, policed, cache, reachable, exchange>>

\* An upstream answers, rejects or fails (its five seconds pass).  When that
\* ends the exchange an answer with a time to live is cached, and lookup goes on.
Reply(t, u, outcome) ==
    /\ exchange[t].status[u] = "asked"
    /\ exchange[t].at # "done"
    /\ LET servers == IF u \in Policy THEN Policy ELSE Nameserver
           heard == [exchange[t] EXCEPT !.status[u] = outcome]
           next == Settle(heard, servers)
       IN  /\ exchange' = [exchange EXCEPT ![t] = next]
           /\ reachable' = Mark(heard, servers)
           /\ IF next.at = "done"
              THEN /\ lookup' = Joined(t, next.result)
                   /\ \/ UNCHANGED cache
                      \/ next.result \in Answered /\ cache' = [cache EXCEPT ![t] = [is |-> next.result, on |-> next.on]]
              ELSE UNCHANGED <<lookup, cache>>
    /\ UNCHANGED <<onNetwork, policed>>

\* AAAA_GRACE passes.
GraceEnds ==
    /\ lookup = "grace"
    /\ lookup' = "done"
    /\ UNCHANGED <<onNetwork, policed, cache, reachable, exchange>>

\* The caller takes the addresses; an exchange still running is dropped.
Return ==
    /\ lookup = "done"
    /\ lookup' = "idle"
    /\ exchange' = [t \in Type |-> NoExchange]
    /\ UNCHANGED <<onNetwork, policed, cache, reachable>>

Expire(t) ==
    /\ cache[t] # NoEntry
    /\ cache' = [cache EXCEPT ![t] = NoEntry]
    /\ UNCHANGED <<onNetwork, policed, reachable, exchange, lookup>>

\* set_network and network_changed: another policy, and clear_cache.
ChangeNetwork ==
    /\ onNetwork' = onNetwork + 1
    /\ policed' \in BOOLEAN
    /\ cache' = [t \in Type |-> NoEntry]
    /\ reachable' = Unknown
    /\ UNCHANGED <<exchange, lookup>>

Progress(t) ==
    \/ HeadStartEnds(t)
    \/ JoinCached(t)
    \/ \E u \in Server, outcome \in Outcome : Reply(t, u, outcome)

LookupNext ==
    \/ StartLookup \/ GraceEnds \/ Return \/ ChangeNetwork
    \/ \E t \in Type : Progress(t) \/ Expire(t)

LookupSpec == LookupInit /\ [][LookupNext]_lookupVars

-----------------------------------------------------------------------------

Ended(t) == exchange[t].at = "done"

\* An exchange ends badly only after every server it may use has.  race: a
\* rejecting reply "is returned only when no other upstream answers".
\* exchange_policy: away from the policy servers' network "its names must still
\* resolve, through the plain nameservers".
GivesUpLast ==
    \A t \in Type : Ended(t) =>
       /\ exchange[t].result = "rejected" =>
             \A u \in IF exchange[t].from = "policy" THEN Policy ELSE Nameserver :
                exchange[t].status[u] \in {"rejected", "failed"}
       /\ exchange[t].result = "failed" =>
             /\ \A u \in Nameserver : exchange[t].status[u] = "failed"
             /\ \A u \in Policy : exchange[t].status[u] \in {"failed", "unasked"}

\* A lookup that found addresses ends without the other exchange, and every
\* lookup ends: the states of exchange_policy never wait for an ended race.
LookupEnds == lookup = "both" ~> lookup = "done"

\* The resolver's `reachable` is "forgotten with the cache when the network
\* changes": neither holds what was learnt on an earlier network.
ForgottenOnChange ==
    /\ reachable.is # "unknown" => reachable.on = onNetwork
    /\ \A t \in Type : cache[t] # NoEntry => cache[t].on = onNetwork
=============================================================================
