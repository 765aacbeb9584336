-------------------------- MODULE NetworkProofs -----------------------------
(***************************************************************************)
(* The parts that live through changes of the network: the lookups of the  *)
(* resolver, the routing policy and the reports of the iOS tunnel, for any *)
(* number of servers, callers, rule lists, networks and runs.              *)
(***************************************************************************)
EXTENDS DnsLookup, Routing, IosHistory, FiniteSetTheorems, TLAPS

-----------------------------------------------------------------------------
(***************************************************************************)
(* Lookups.  The invariant says, for each place of exchange_policy, which  *)
(* races run and how the others ended.                                     *)
(***************************************************************************)
Statuses == [Server -> {"unasked", "asked"} \cup Outcome]
Running(status, servers) ==
    /\ \A u \in servers : status[u] \in {"asked", "rejected", "failed"}
    /\ \E u \in servers : status[u] = "asked"
Every(status, servers, outcome) == \A u \in servers : status[u] = outcome

\* What an exchange that is over may say.
Verdict(status, result, from) ==
    /\ result = "rejected" =>
          \A u \in IF from = "policy" THEN Policy ELSE Nameserver : status[u] \in {"rejected", "failed"}
    /\ result = "failed" =>
          /\ Every(status, Nameserver, "failed")
          /\ \A u \in Policy : status[u] \in {"failed", "unasked"}

RacesAt(at, status) ==
    /\ at = "alone" => Running(status, Policy) /\ Every(status, Nameserver, "unasked")
    /\ at = "both" => Running(status, Policy) /\ Running(status, Nameserver)
    /\ at = "policy" => Running(status, Policy) /\ Every(status, Nameserver, "failed")
    /\ at = "fallback" => Every(status, Policy, "failed") /\ Running(status, Nameserver)
    /\ at = "plain" => Every(status, Policy, "unasked") /\ Running(status, Nameserver)

Exchange ==
    [at : {"idle", "alone", "both", "policy", "fallback", "plain", "done"}, on : Nat, timer : BOOLEAN,
     status : Statuses, result : Outcome \cup {"none"}, from : {"none", "cache", "policy", "nameserver"}]

ExchangeOK(e) ==
    /\ e \in Exchange
    /\ RacesAt(e.at, e.status)
    /\ e.at = "idle" => Every(e.status, Server, "unasked")
    /\ e.at = "done" => Verdict(e.status, e.result, e.from)

LookupInv ==
    /\ onNetwork \in Nat
    /\ reachable \in [is : {"unknown", "yes", "no"}, on : Nat]
    /\ cache \in [Type -> {NoEntry} \cup [is : Answered, on : Nat]]
    /\ exchange \in [Type -> Exchange]
    /\ \A t \in Type : ExchangeOK(exchange[t])

\* What a race all of whose servers were asked comes to.
LEMMA RaceResult ==
    ASSUME NEW status \in Statuses, NEW servers \in SUBSET Server, \A u \in servers : status[u] # "unasked"
    PROVE /\ Race(status, servers) \in Outcome \cup {"pending"}
          /\ Race(status, servers) = "pending" => Running(status, servers)
          /\ Race(status, servers) = "failed" => Every(status, servers, "failed")
          /\ Race(status, servers) = "rejected" => \A u \in servers : status[u] \in {"rejected", "failed"}
<1>1. \A u \in servers : status[u] \in {"asked", "rejected", "failed", "address", "empty"}
  BY Zenon DEF Statuses, Outcome, Answered
<1>2. Race(status, servers) \in Outcome \cup {"pending"}
  BY Zenon DEF Race, Outcome, Answered
<1>3. Race(status, servers) \in {"pending", "rejected", "failed"} => \A u \in servers : status[u] \in {"asked", "rejected", "failed"}
  BY <1>1, Zenon DEF Race
<1>4. Race(status, servers) = "pending" => Running(status, servers)
  BY <1>3, Zenon DEF Race, Running
<1>5. Race(status, servers) = "failed" => Every(status, servers, "failed")
  BY <1>3, Zenon DEF Race, Every
<1>6. Race(status, servers) = "rejected" => \A u \in servers : status[u] \in {"rejected", "failed"}
  BY <1>3, Zenon DEF Race
<1> QED BY <1>2, <1>4, <1>5, <1>6, Zenon

LEMMA ServerSets ==
    /\ Policy \in SUBSET Server /\ Nameserver \in SUBSET Server /\ Policy # Nameserver
    /\ \A u \in Policy : u \notin Nameserver
BY ServersAssumption, Zenon DEF Server

\* Asking servers starts their race and leaves the other one alone.
LEMMA AskRuns ==
    ASSUME NEW e \in Exchange, NEW servers \in SUBSET Server, servers # {}
    PROVE /\ Ask(e, servers) \in Exchange
          /\ Ask(e, servers) = [e EXCEPT !.status = Ask(e, servers).status]
          /\ Running(Ask(e, servers).status, servers)
          /\ \A u \in Server \ servers : Ask(e, servers).status[u] = e.status[u]
<1> DEFINE status == [u \in Server |-> IF u \in servers THEN "asked" ELSE e.status[u]]
<1>1. e.status \in Statuses
  BY Zenon DEF Exchange
<1>2. status \in Statuses
  BY <1>1, Zenon DEF Statuses
<1>3. Ask(e, servers) = [e EXCEPT !.status = status]
  BY Zenon DEF Ask
<1> HIDE DEF status
<1>4. Ask(e, servers) \in Exchange /\ Ask(e, servers).status = status
  BY <1>2, <1>3, Zenon DEF Exchange
<1>5. \A u \in servers : status[u] = "asked"
  BY Zenon DEF status
<1>6. \A u \in Server \ servers : status[u] = e.status[u]
  BY Zenon DEF status
<1> QED BY <1>3, <1>4, <1>5, <1>6, Zenon DEF Running

\* An exchange that is over.
LEMMA EndFailed ==
    ASSUME NEW e \in Exchange
    PROVE /\ End(e, "none") \in Exchange /\ End(e, "none").at = "done" /\ End(e, "none").result = "failed"
          /\ End(e, "none").from = "none" /\ End(e, "none").status = e.status
BY Zenon DEF End, Exchange, Outcome

LEMMA EndRace ==
    ASSUME NEW e \in Exchange, NEW from \in {"policy", "nameserver"}, NEW result \in Outcome,
           result = Race(e.status, IF from = "policy" THEN Policy ELSE Nameserver)
    PROVE /\ End(e, from) \in Exchange /\ End(e, from).at = "done" /\ End(e, from).result = result
          /\ End(e, from).from = from /\ End(e, from).status = e.status
<1>1. End(e, from) = [e EXCEPT !.at = "done", !.from = from, !.result = result]
  BY Zenon DEF End
<1> QED BY <1>1, Zenon DEF Exchange

\* An exchange that heard from a server of a running race.
LEMMA SettleOK ==
    ASSUME NEW e, ExchangeOK(e), e.at # "done", NEW u \in Server, NEW outcome \in Outcome, e.status[u] = "asked",
           NEW heard, heard = [e EXCEPT !.status[u] = outcome],
           NEW servers, servers = IF u \in Policy THEN Policy ELSE Nameserver
    PROVE ExchangeOK(Settle(heard, servers))
          /\ (Settle(heard, servers).at = "done" => Settle(heard, servers).result \in Outcome)
<1> DEFINE status == heard.status
           race == Race(status, servers)
<1>1. e \in Exchange /\ e.status \in Statuses /\ e.at \in {"alone", "both", "policy", "fallback", "plain"}
  <2>1. e \in Exchange /\ e.status \in Statuses
    BY Zenon DEF ExchangeOK, Exchange
  <2>2. e.at # "idle"
    BY Zenon DEF ExchangeOK, Every
  <2> QED BY <2>1, <2>2, Zenon DEF Exchange
<1>2. status = [e.status EXCEPT ![u] = outcome] /\ heard = [e EXCEPT !.status = status]
  BY <1>1, Zenon DEF Exchange
<1>3. u \in servers /\ servers \in SUBSET Server /\ (servers = Policy <=> u \in Policy)
  BY ServerSets, Zenon DEF Server
<1> HIDE DEF status
<1>4. RacesAt(e.at, e.status)
  BY Zenon DEF ExchangeOK
<1>5. Running(e.status, servers)
  <2>1. CASE u \in Policy
    BY <1>1, <1>3, <1>4, <2>1, Zenon DEF RacesAt, Every
  <2>2. CASE u \notin Policy
    BY <1>1, <1>3, <1>4, <2>2, Zenon DEF RacesAt, Every
  <2> QED BY <2>1, <2>2, Zenon
<1>6. /\ race \in Outcome \cup {"pending"}
      /\ race = "pending" => Running(status, servers)
      /\ race = "failed" => Every(status, servers, "failed")
      /\ race = "rejected" => \A v \in servers : status[v] \in {"rejected", "failed"}
  <2>1. status \in Statuses
    BY <1>1, <1>2, Zenon DEF Statuses
  <2>2. \A v \in servers : status[v] # "unasked"
    BY <1>1, <1>2, <1>3, <1>5, Zenon DEF Running, Statuses, Outcome, Answered
  <2> QED BY <1>3, <2>1, <2>2, RaceResult, Zenon
<1>7. heard \in Exchange /\ heard.at = e.at /\ heard.status = status
  BY <1>1, <1>2 DEF Exchange, Statuses
<1>8. \A v \in Server \ servers : status[v] = e.status[v]
  BY <1>1, <1>2, <1>3, Zenon DEF Statuses
<1> HIDE DEF race
<1>9. CASE race = "pending"
  <2>1. Settle(heard, servers) = heard
    BY <1>9, Zenon DEF Settle, race, status
  <2>2. RacesAt(e.at, status)
    BY <1>1, <1>3, <1>4, <1>6, <1>8, <1>9, ServerSets DEF RacesAt, Running, Every
  <2> QED BY <1>1, <1>7, <2>1, <2>2, Zenon DEF ExchangeOK
<1>10. CASE race \in {"address", "empty", "rejected"}
  <2> DEFINE from == IF servers = Policy THEN "policy" ELSE "nameserver"
  <2>1. Settle(heard, servers) = End(heard, from)
    BY <1>10, Zenon DEF Settle, race, status
  <2>2. race = Race(heard.status, IF from = "policy" THEN Policy ELSE Nameserver)
    BY <1>7, Zenon DEF race
  <2>3. from \in {"policy", "nameserver"} /\ race \in Outcome
    BY <1>10, Zenon DEF Outcome, Answered
  <2>4. Verdict(status, race, from)
    BY <1>6, <1>10, Zenon DEF Verdict
  <2> HIDE DEF from
  <2>5. /\ End(heard, from) \in Exchange /\ End(heard, from).at = "done" /\ End(heard, from).result = race
        /\ End(heard, from).from = from /\ End(heard, from).status = status
    <3>1. /\ End(heard, from) \in Exchange /\ End(heard, from).at = "done" /\ End(heard, from).result = race
          /\ End(heard, from).from = from /\ End(heard, from).status = heard.status
      <4>1. heard \in Exchange
        BY <1>7, Zenon
      <4> QED BY <2>2, <2>3, <4>1, EndRace, ZenonT(60)
    <3> QED BY <1>7, <3>1, Zenon
  <2> QED BY <1>10, <2>1, <2>4, <2>5, Zenon DEF ExchangeOK, RacesAt, Outcome, Answered
<1>11. CASE race = "failed" /\ servers = Policy
  <2>1. e.at \in {"alone", "both", "policy"}
    BY <1>1, <1>4, <1>5, <1>11, Zenon DEF RacesAt, Running, Every
  <2>2. Settle(heard, servers) = AfterPolicyFailed(heard)
    BY <1>11, Zenon DEF Settle, race, status
  <2>3. CASE e.at = "alone"
    <3> DEFINE asked == Ask(heard, Nameserver)
               n == [asked EXCEPT !.at = "fallback"]
    <3>1. Settle(heard, servers) = n
      BY <1>7, <2>2, <2>3, Zenon DEF AfterPolicyFailed
    <3>2. asked \in Exchange /\ Running(asked.status, Nameserver) /\ \A v \in Server \ Nameserver : asked.status[v] = status[v]
      <4>1. heard \in Exchange /\ heard.status = status /\ Nameserver \in SUBSET Server /\ Nameserver # {}
        BY <1>7, ServerSets, ServersAssumption, Zenon
      <4>2. /\ Ask(heard, Nameserver) \in Exchange /\ Running(Ask(heard, Nameserver).status, Nameserver)
            /\ \A v \in Server \ Nameserver : Ask(heard, Nameserver).status[v] = heard.status[v]
        BY <4>1, AskRuns, Zenon
      <4> QED BY <4>1, <4>2, Zenon
    <3> HIDE DEF asked
    <3>3. n \in Exchange /\ n.at = "fallback" /\ n.status = asked.status
      BY <3>2, Zenon DEF Exchange
    <3>4. Every(asked.status, Policy, "failed")
      BY <1>6, <1>11, <3>2, ServerSets, Zenon DEF Every
    <3> QED BY <3>1, <3>2, <3>3, <3>4, Zenon DEF ExchangeOK, RacesAt
  <2>4. CASE e.at = "both"
    <3> DEFINE n == [heard EXCEPT !.at = "fallback"]
    <3>1. Settle(heard, servers) = n
      BY <1>7, <2>2, <2>4, Zenon DEF AfterPolicyFailed
    <3>2. n \in Exchange /\ n.at = "fallback" /\ n.status = status
      BY <1>7, Zenon DEF Exchange
    <3>3. Running(status, Nameserver)
      BY <1>4, <1>8, <1>11, <2>4, ServerSets, Zenon DEF RacesAt, Running
    <3> QED BY <1>6, <1>11, <3>1, <3>2, <3>3, Zenon DEF ExchangeOK, RacesAt
  <2>5. CASE e.at = "policy"
    <3>1. Settle(heard, servers) = End(heard, "none")
      BY <1>7, <2>2, <2>5, Zenon DEF AfterPolicyFailed
    <3>2. /\ End(heard, "none") \in Exchange /\ End(heard, "none").at = "done" /\ End(heard, "none").result = "failed"
          /\ End(heard, "none").from = "none" /\ End(heard, "none").status = status
      BY <1>7, EndFailed, Zenon
    <3>3. Every(status, Nameserver, "failed")
      BY <1>4, <1>8, <1>11, <2>5, ServerSets, Zenon DEF RacesAt, Every
    <3>4. Verdict(status, "failed", "none")
      BY <1>6, <1>11, <3>3, Zenon DEF Verdict, Every
    <3> QED BY <3>1, <3>2, <3>4, Zenon DEF ExchangeOK, RacesAt, Outcome
  <2> QED BY <2>1, <2>3, <2>4, <2>5, Zenon
<1>12. CASE race = "failed" /\ servers = Nameserver
  <2>1. e.at \in {"both", "fallback", "plain"}
    BY <1>1, <1>4, <1>5, <1>12, Zenon DEF RacesAt, Running, Every
  <2>2. Settle(heard, servers) = AfterFallbackFailed(heard)
    BY <1>12, ServerSets, Zenon DEF Settle, race, status
  <2>3. CASE e.at = "both"
    <3> DEFINE n == [heard EXCEPT !.at = "policy"]
    <3>1. Settle(heard, servers) = n
      BY <1>7, <2>2, <2>3, Zenon DEF AfterFallbackFailed
    <3>2. n \in Exchange /\ n.at = "policy" /\ n.status = status
      BY <1>7, Zenon DEF Exchange
    <3>3. Running(status, Policy)
      BY <1>4, <1>8, <1>12, <2>3, ServerSets, Zenon DEF RacesAt, Running
    <3> QED BY <1>6, <1>12, <3>1, <3>2, <3>3, Zenon DEF ExchangeOK, RacesAt
  <2>4. CASE e.at \in {"fallback", "plain"}
    <3>1. Settle(heard, servers) = End(heard, "none")
      BY <1>7, <2>2, <2>4, Zenon DEF AfterFallbackFailed
    <3>2. /\ End(heard, "none") \in Exchange /\ End(heard, "none").at = "done" /\ End(heard, "none").result = "failed"
          /\ End(heard, "none").from = "none" /\ End(heard, "none").status = status
      BY <1>7, EndFailed, Zenon
    <3>3. \A v \in Policy : status[v] \in {"failed", "unasked"}
      BY <1>4, <1>8, <1>12, <2>4, ServerSets, Zenon DEF RacesAt, Every
    <3>4. Verdict(status, "failed", "none")
      BY <1>6, <1>12, <3>3, Zenon DEF Verdict, Every
    <3> QED BY <3>1, <3>2, <3>4, Zenon DEF ExchangeOK, RacesAt, Outcome
  <2> QED BY <2>1, <2>3, <2>4, Zenon
<1> QED BY <1>6, <1>9, <1>10, <1>11, <1>12, Zenon DEF Outcome, Answered

LEMMA NoExchangeOK == ExchangeOK(NoExchange) /\ NoExchange \in Exchange
<1>1. [u \in Server |-> "unasked"] \in Statuses
  BY Zenon DEF Statuses
<1>2. NoExchange \in Exchange /\ NoExchange.at = "idle" /\ NoExchange.status = [u \in Server |-> "unasked"]
  BY <1>1, Zenon DEF NoExchange, Exchange
<1> QED BY <1>2, Zenon DEF ExchangeOK, RacesAt, Every

LEMMA BeginOK == ASSUME LookupInv, NEW t \in Type PROVE ExchangeOK(Begin(t))
<1> DEFINE new == [NoExchange EXCEPT !.on = onNetwork]
           unasked == [u \in Server |-> "unasked"]
<1>1. new \in Exchange /\ new.status = unasked
  BY NoExchangeOK, Zenon DEF NoExchange, Exchange, LookupInv
<1> HIDE DEF new
<1>2. CASE cache[t] # NoEntry
  <2> DEFINE n == [new EXCEPT !.at = "done", !.from = "cache", !.result = cache[t].is]
  <2>1. cache[t].is \in Answered
    BY <1>2, Zenon DEF LookupInv
  <2>2. Begin(t) = n
    BY <1>2, Zenon DEF Begin, new
  <2>3. n \in Exchange /\ n.at = "done" /\ n.result \in Answered
    BY <1>1, <2>1, Zenon DEF Exchange, Outcome, Answered
  <2> HIDE DEF n
  <2> QED BY <2>2, <2>3, Zenon DEF ExchangeOK, RacesAt, Verdict, Answered
<1>3. CASE cache[t] = NoEntry /\ policed
  <2> DEFINE asked == Ask(new, Policy)
             n == [asked EXCEPT !.at = "alone", !.timer = reachable.is # "yes"]
  <2>1. Begin(t) = n
    BY <1>3, Zenon DEF Begin, new
  <2>2. asked \in Exchange /\ Running(asked.status, Policy) /\ \A u \in Server \ Policy : asked.status[u] = unasked[u]
    BY <1>1, AskRuns, ServerSets, ServersAssumption
  <2> HIDE DEF asked
  <2>3. n \in Exchange /\ n.at = "alone" /\ n.status = asked.status
    BY <2>2, Zenon DEF Exchange
  <2>4. Every(asked.status, Nameserver, "unasked")
    BY <2>2, ServerSets, Zenon DEF Every
  <2> HIDE DEF n
  <2> QED BY <2>1, <2>2, <2>3, <2>4, Zenon DEF ExchangeOK, RacesAt
<1>4. CASE cache[t] = NoEntry /\ ~policed
  <2> DEFINE asked == Ask(new, Nameserver)
             n == [asked EXCEPT !.at = "plain"]
  <2>1. Begin(t) = n
    BY <1>4, Zenon DEF Begin, new
  <2>2. asked \in Exchange /\ Running(asked.status, Nameserver) /\ \A u \in Server \ Nameserver : asked.status[u] = unasked[u]
    BY <1>1, AskRuns, ServerSets, ServersAssumption
  <2> HIDE DEF asked
  <2>3. n \in Exchange /\ n.at = "plain" /\ n.status = asked.status
    BY <2>2, Zenon DEF Exchange
  <2>4. Every(asked.status, Policy, "unasked")
    BY <2>2, ServerSets, Zenon DEF Every
  <2> HIDE DEF n
  <2> QED BY <2>1, <2>2, <2>3, <2>4, Zenon DEF ExchangeOK, RacesAt
<1> QED BY <1>2, <1>3, <1>4, Zenon

LEMMA LookupInitInv == ASSUME LookupInit PROVE LookupInv
BY NoExchangeOK, Zenon DEF LookupInit, LookupInv, Unknown

LEMMA ReplyInv == ASSUME LookupInv, NEW t \in Type, NEW u \in Server, NEW outcome \in Outcome, Reply(t, u, outcome) PROVE LookupInv'
<1> DEFINE servers == IF u \in Policy THEN Policy ELSE Nameserver
           heard == [exchange[t] EXCEPT !.status[u] = outcome]
           next == Settle(heard, servers)
<1>1. /\ exchange[t].status[u] = "asked" /\ exchange[t].at # "done" /\ exchange' = [exchange EXCEPT ![t] = next]
      /\ reachable' = Mark(heard, servers) /\ onNetwork' = onNetwork
      /\ cache' = cache \/ (next.at = "done" /\ next.result \in Answered
                            /\ cache' = [cache EXCEPT ![t] = [is |-> next.result, on |-> next.on]])
  BY Zenon DEF Reply
<1>2. ExchangeOK(exchange[t]) /\ exchange[t] \in Exchange
  BY Zenon DEF LookupInv
<1>3. heard.on = exchange[t].on /\ heard.on \in Nat
  BY <1>2, Zenon DEF Exchange
<1>4. ExchangeOK(next)
  BY <1>1, <1>2, SettleOK, Zenon
<1> HIDE DEF next, heard, servers
<1>5. next \in Exchange /\ next.on \in Nat
  BY <1>4, Zenon DEF ExchangeOK, Exchange
<1>6. exchange' \in [Type -> Exchange] /\ \A s \in Type : ExchangeOK(exchange'[s])
  BY <1>1, <1>4, <1>5, Zenon DEF LookupInv
<1>7. reachable' \in [is : {"unknown", "yes", "no"}, on : Nat]
  BY <1>1, <1>3, Zenon DEF Mark, LookupInv
<1>8. cache' \in [Type -> {NoEntry} \cup [is : Answered, on : Nat]]
  BY <1>1, <1>5 DEF LookupInv
<1> QED BY <1>1, <1>6, <1>7, <1>8, Zenon DEF LookupInv

LEMMA HeadStartInv == ASSUME LookupInv, NEW t \in Type, HeadStartEnds(t) PROVE LookupInv'
<1> DEFINE e == exchange[t]
           asked == Ask(e, Nameserver)
           n == [asked EXCEPT !.at = "both"]
<1>1. e.at = "alone" /\ exchange' = [exchange EXCEPT ![t] = n] /\ UNCHANGED <<onNetwork, cache, reachable>>
  BY Zenon DEF HeadStartEnds, MayFallBack
<1>2. ExchangeOK(e) /\ e \in Exchange
  BY Zenon DEF LookupInv
<1>3. asked \in Exchange /\ Running(asked.status, Nameserver) /\ \A u \in Server \ Nameserver : asked.status[u] = e.status[u]
  BY <1>2, AskRuns, ServerSets, ServersAssumption, Zenon
<1>4. Running(e.status, Policy)
  BY <1>1, <1>2, Zenon DEF ExchangeOK, RacesAt
<1> HIDE DEF asked, e
<1>5. Running(asked.status, Policy)
  BY <1>3, <1>4, ServerSets, Zenon DEF Running
<1>6. n \in Exchange /\ n.at = "both" /\ n.status = asked.status
  BY <1>3, Zenon DEF Exchange
<1> HIDE DEF n
<1>7. ExchangeOK(n)
  BY <1>3, <1>5, <1>6, Zenon DEF ExchangeOK, RacesAt
<1> QED BY <1>1, <1>6, <1>7, Zenon DEF LookupInv

LEMMA LookupNextInv == ASSUME LookupInv, [LookupNext]_lookupVars PROVE LookupInv'
<1>1. CASE StartLookup
  <2>1. \A t \in Type : ExchangeOK(Begin(t)) /\ Begin(t) \in Exchange
    BY BeginOK, Zenon DEF ExchangeOK
  <2> QED BY <1>1, <2>1, Zenon DEF StartLookup, LookupInv
<1>2. CASE GraceEnds \/ UNCHANGED lookupVars \/ \E t \in Type : JoinCached(t)
  BY <1>2, Zenon DEF GraceEnds, JoinCached, lookupVars, LookupInv
<1>3. CASE Return
  BY <1>3, NoExchangeOK, Zenon DEF Return, LookupInv
<1>4. CASE ChangeNetwork
  BY <1>4 DEF ChangeNetwork, LookupInv, Unknown
<1>5. ASSUME NEW t \in Type, Expire(t) PROVE LookupInv'
  BY <1>5, Zenon DEF Expire, LookupInv
<1> QED BY <1>1, <1>2, <1>3, <1>4, <1>5, HeadStartInv, ReplyInv, Zenon DEF LookupNext, Progress

\* What cached_exchange and exchange_policy of dns.rs keep of every exchange.
THEOREM LookupInvariant == LookupSpec => []LookupInv
BY LookupInitInv, LookupNextInv, PTL DEF LookupSpec

\* An exchange of the resolver (exchange_policy and race of dns.rs) reports a
\* failure only when every server it may use failed, and hands on a rejecting
\* reply only when none of the race answered, for any number of servers and in
\* whatever order they reply, with the network changing underneath.
THEOREM ExchangesGiveUpLast == LookupSpec => []GivesUpLast
<1>1. LookupInv => GivesUpLast
  BY Zenon DEF LookupInv, ExchangeOK, Verdict, Every, GivesUpLast, Ended
<1> QED BY <1>1, LookupInvariant, PTL

-----------------------------------------------------------------------------
(***************************************************************************)
(* Routing.  For any number of concurrent callers, rule lists, networks and *)
(* failures of the refresh: the rules in force are those last set, the     *)
(* override and the NETWORK-NAME conditions those of the current network,  *)
(* and the live filter has the current allowlist.                          *)
(***************************************************************************)
Caller == Updater \cup Reporter \cup Setter

\* What a caller holds.
Held(p, record) == pending' = [pending EXCEPT ![p] = record]

LEMMA HeldIs ==
    ASSUME DOMAIN pending = Caller, NEW p \in Caller, NEW record, Held(p, record)
    PROVE  /\ DOMAIN pending' = Caller
           /\ pending'[p] = record
           /\ \A q \in Caller : q # p => pending'[q] = pending[q]
BY Zenon DEF Held

LEMMA IdleAt == Idle.at = "idle"
BY Zenon DEF Idle

-----------------------------------------------------------------------------
(* The rules *)

\* The rules of a caller and of the refresh belong to the list they install.
RulesInv ==
    /\ DOMAIN pending = Caller
    /\ RulesMatchRaw
    /\ \A p \in Updater : pending[p].at = "compiled" => DOMAIN pending[p].rules = pending[p].list
    /\ task.at = "installing" => DOMAIN task.rules = raw

\* The updaters' part changes only with pending, and stays for other callers.
LEMMA OtherCaller ==
    ASSUME RulesInv, NEW p \in Reporter \cup Setter, NEW record, Held(p, record),
           UNCHANGED <<raw, rules, task>>
    PROVE  RulesInv'
<1>1. p \in Caller /\ p \notin Updater
  BY RoutingAssumption, Zenon DEF Caller
<1>2. \A q \in Updater : pending'[q] = pending[q]
  BY <1>1, HeldIs, Zenon DEF RulesInv, Caller
<1> QED BY <1>1, <1>2, HeldIs, Zenon DEF RulesInv, RulesMatchRaw

LEMMA RefreshRules == ASSUME RulesInv, RefreshStep PROVE RulesInv'
<1> USE DEF RulesInv, RulesMatchRaw, policyVars
<1>1. CASE Refresh
  BY <1>1, Zenon DEF Refresh
<1>2. CASE \E staged \in SUBSET File : Load(staged)
  BY <1>2 DEF Load
<1>3. CASE LoadFails \/ CompileFails
  BY <1>3, IdleAt, Zenon DEF LoadFails, CompileFails
<1>4. CASE Commit
  BY <1>4, Zenon DEF Commit, Replace
<1>5. CASE \E done \in SUBSET File : CommitFails(done)
  BY <1>5, IdleAt, Zenon DEF CommitFails, Replace
<1>6. CASE Configure
  <2>1. UNCHANGED <<raw, rules, pending>>
    BY <1>6, Zenon DEF Configure
  <2>2. task'.at = "installing" => DOMAIN task'.rules = raw
    BY <1>6, IdleAt DEF Configure, Compiled, Bind, Restrict
  <2> QED BY <2>1, <2>2, Zenon
<1>7. CASE Install
  BY <1>7, IdleAt, Zenon DEF Install
<1> QED BY <1>1, <1>2, <1>3, <1>4, <1>5, <1>6, <1>7, Zenon DEF RefreshStep

LEMMA UpdateRules ==
    ASSUME RulesInv, NEW p \in Updater, (\E list \in RuleLists : Compile(p, list)) \/ SetRules(p)
    PROVE  RulesInv'
<1>1. p \in Caller
  BY Zenon DEF Caller
<1>2. ASSUME NEW list \in RuleLists, Compile(p, list) PROVE RulesInv'
  <2> DEFINE compiled == [at |-> "compiled", list |-> list, rules |-> Bind(loaded, list)]
  <2>1. Held(p, compiled) /\ UNCHANGED <<raw, rules, task>>
    BY <1>2, Zenon DEF Compile, Held, policyVars
  <2>2. DOMAIN compiled.rules = compiled.list
    BY Zenon DEF Bind, Restrict
  <2> HIDE DEF compiled
  <2> QED BY <1>1, <2>1, <2>2, HeldIs DEF RulesInv, RulesMatchRaw, Caller
<1>3. CASE SetRules(p)
  <2>1. Held(p, Idle) /\ UNCHANGED task /\ task.at # "installing"
    BY <1>3, Zenon DEF SetRules, Held, Unlocked
  <2>2. DOMAIN rules' = raw'
    BY <1>3, Zenon DEF SetRules, RulesInv
  <2>3. DOMAIN pending' = Caller /\ pending'[p] = Idle
        /\ \A q \in Caller \ {p} : pending'[q] = pending[q]
    BY <1>1, <2>1, HeldIs, Zenon DEF RulesInv
  <2>4. ASSUME NEW q \in Updater, pending'[q].at = "compiled"
        PROVE  DOMAIN pending'[q].rules = pending'[q].list
    <3>1. q # p
      BY <2>3, <2>4, IdleAt, Zenon
    <3>2. pending'[q] = pending[q]
      BY <2>3, <3>1, Zenon DEF Caller
    <3> QED BY <2>4, <3>2, Zenon DEF RulesInv
  <2> QED BY <2>1, <2>2, <2>3, <2>4, Zenon DEF RulesInv, RulesMatchRaw
<1> QED BY <1>2, <1>3, Zenon

LEMMA RulesNext == ASSUME RulesInv, [Next]_vars PROVE RulesInv'
<1>1. CASE \E f \in File : Age(f)
  BY <1>1, Zenon DEF Age, RulesInv, RulesMatchRaw, policyVars
<1>2. CASE RefreshStep
  BY <1>2, RefreshRules, Zenon
<1>3. ASSUME NEW p \in Updater, (\E list \in RuleLists : Compile(p, list)) \/ SetRules(p)
      PROVE  RulesInv'
  BY <1>3, UpdateRules, Zenon
<1>4. ASSUME NEW p \in Reporter,
             (\E n \in Network : StoreNetwork(p, n)) \/ MarkRules(p) \/ ApplyOverride(p)
      PROVE  RulesInv'
  <2>1. (\E record : Held(p, record)) /\ UNCHANGED <<raw, rules, task>>
    BY <1>4, Zenon DEF StoreNetwork, MarkRules, ApplyOverride, Held, policyVars
  <2> QED BY <2>1, OtherCaller, Zenon
<1>5. ASSUME NEW p \in Setter,
             (\E a \in Allow : StoreAllow(p, a)) \/ TakeFilter(p) \/ ChangeFilter(p)
      PROVE  RulesInv'
  <2>1. (\E record : Held(p, record)) /\ UNCHANGED <<raw, rules, task>>
    BY <1>5, Zenon DEF StoreAllow, TakeFilter, ChangeFilter, Held, policyVars
  <2> QED BY <2>1, OtherCaller, Zenon
<1>6. CASE UNCHANGED vars
  BY <1>6, Zenon DEF vars, RulesInv, RulesMatchRaw
<1> QED BY <1>1, <1>2, <1>3, <1>4, <1>5, <1>6, Zenon DEF Next

\* However refreshes and updates of the rules overlap, the rules in force are
\* the list last set.
THEOREM RoutingRulesMatchRaw == Spec => []RulesMatchRaw
<1>1. Init => RulesInv
  BY IdleAt, Zenon DEF Init, RulesInv, RulesMatchRaw, Bind, Restrict, Caller
<1>2. RulesInv /\ [Next]_vars => RulesInv'
  BY RulesNext, Zenon
<1>3. RulesInv => RulesMatchRaw
  BY Zenon DEF RulesInv
<1> QED BY <1>1, <1>2, <1>3, PTL DEF Spec

-----------------------------------------------------------------------------
(* The network *)

\* A report still has to mark the rules, or to apply its override.
ToMark(p) == pending[p].at = "stored"
ToApply(p) == pending[p].at = "marked" \/ (pending[p].at = "stored" /\ pending[p].changed)

\* The override of the current network is in the resolver's policy, as far as
\* the snapshot can resolve it; the refresh applied it whatever it installs.
InForce ==
    IF task.at = "installing" THEN applied = Override(network)
    ELSE Resolvable(loaded, Override(network)) => applied = Override(network)

NetworkInv ==
    /\ DOMAIN pending = Caller
    /\ (\A p \in Reporter : ~ToMark(p)) => marked = network
    /\ (\A p \in Reporter : ~ToApply(p)) => InForce

\* Steps of the others leave the reports alone.
LEMMA OthersStep ==
    ASSUME NetworkInv, NEW p \in Updater \cup Setter, NEW record, Held(p, record)
    PROVE  DOMAIN pending' = Caller /\ \A q \in Reporter : pending'[q] = pending[q]
BY HeldIs, RoutingAssumption, Zenon DEF NetworkInv, Caller

LEMMA NetworkFrame ==
    ASSUME NetworkInv, DOMAIN pending' = Caller, \A q \in Reporter : pending'[q] = pending[q],
           marked' = marked \/ marked' = network', UNCHANGED network, InForce => InForce'
    PROVE  NetworkInv'
BY Zenon DEF NetworkInv, ToMark, ToApply

LEMMA RefreshNetwork == ASSUME NetworkInv, RefreshStep PROVE NetworkInv'
<1> USE DEF policyVars, networkVars
<1>1. UNCHANGED <<network, pending>> /\ (marked' = marked \/ marked' = network')
  BY Zenon DEF RefreshStep, Refresh, Load, LoadFails, Commit, CommitFails, Replace, CompileFails,
         Configure, Install
<1>2. CASE Configure
  <2>1. CASE Resolvable(task.data, Override(network))
    <3>1. InForce'
      BY <1>2, <2>1, Zenon DEF Configure, InForce
    <3> QED BY <1>1, <3>1, NetworkFrame, Zenon DEF NetworkInv
  <2>2. CASE ~Resolvable(task.data, Override(network))
    <3>1. task' = Idle /\ task.at = "built" /\ UNCHANGED <<applied, loaded, network>>
      BY <1>2, <2>2, Zenon DEF Configure
    <3>2. InForce => InForce'
      BY <3>1, IdleAt, Zenon DEF InForce, Resolvable
    <3> QED BY <1>1, <3>2, NetworkFrame, Zenon DEF NetworkInv
  <2> QED BY <2>1, <2>2, Zenon
<1>3. CASE Install
  <2>1. InForce => InForce'
    BY <1>3, IdleAt, Zenon DEF Install, InForce
  <2> QED BY <1>1, <2>1, NetworkFrame, Zenon DEF NetworkInv
<1>4. CASE ~Configure /\ ~Install
  <2>1. task.at # "installing" /\ task'.at # "installing" /\ UNCHANGED <<applied, loaded, network>>
    <3>1. CASE Refresh
      BY <3>1, IdleAt, Zenon DEF Refresh
    <3>2. CASE (\E staged \in SUBSET File : Load(staged)) \/ LoadFails
      BY <3>2, IdleAt DEF Load, LoadFails
    <3>3. CASE Commit \/ \E done \in SUBSET File : CommitFails(done)
      BY <3>3, IdleAt DEF Commit, CommitFails, Replace
    <3>4. CASE CompileFails
      BY <3>4, IdleAt, Zenon DEF CompileFails
    <3> QED BY <1>4, <3>1, <3>2, <3>3, <3>4, Zenon DEF RefreshStep
  <2>2. InForce => InForce'
    BY <2>1, Zenon DEF InForce, Resolvable
  <2> QED BY <1>1, <2>2, NetworkFrame, Zenon DEF NetworkInv
<1> QED BY <1>2, <1>3, <1>4, Zenon

LEMMA StoreNetworkStep ==
    ASSUME NetworkInv, NEW p \in Reporter, NEW n \in Network, StoreNetwork(p, n) PROVE NetworkInv'
<1> DEFINE stored == [at |-> "stored", active |-> Override(n), changed |-> Override(network) # Override(n)]
<1>1. Held(p, stored) /\ network' = n /\ UNCHANGED <<marked, applied, loaded, task>>
  BY Zenon DEF StoreNetwork, Held, policyVars
<1>2. stored.at = "stored" /\ (~stored.changed => Override(network) = Override(n))
  BY Zenon
<1> HIDE DEF stored
<1>3. /\ DOMAIN pending' = Caller /\ pending'[p] = stored
      /\ \A q \in Reporter : q # p => pending'[q] = pending[q]
  BY <1>1, HeldIs, Zenon DEF NetworkInv, Caller
<1>4. ToMark(p)' /\ pending[p].at = "idle"
  BY <1>2, <1>3, IdleAt, Zenon DEF ToMark, StoreNetwork
<1>5. ASSUME \A q \in Reporter : ~ToApply(q)' PROVE InForce'
  <2>1. Override(network') = Override(network)
    BY <1>1, <1>2, <1>3, <1>5, Zenon DEF ToApply
  <2>2. \A q \in Reporter : ~ToApply(q)
    BY <1>3, <1>4, <1>5, Zenon DEF ToApply
  <2> QED BY <1>1, <2>1, <2>2, Zenon DEF NetworkInv, InForce, Resolvable
<1> QED BY <1>3, <1>4, <1>5, Zenon DEF NetworkInv

LEMMA MarkRulesStep ==
    ASSUME NetworkInv, NEW p \in Reporter, MarkRules(p) PROVE NetworkInv'
<1> DEFINE record == IF pending[p].changed THEN [at |-> "marked", active |-> pending[p].active] ELSE Idle
<1>1. Held(p, record) /\ marked' = network' /\ UNCHANGED <<network, applied, loaded, task>>
  BY Zenon DEF MarkRules, Held, networkVars, NetworkInv
<1>2. pending[p].changed => record.at = "marked"
  BY Zenon
<1> HIDE DEF record
<1>3. /\ DOMAIN pending' = Caller /\ pending'[p] = record
      /\ \A q \in Reporter : q # p => pending'[q] = pending[q]
  BY <1>1, HeldIs, Zenon DEF NetworkInv, Caller
<1>4. (\A q \in Reporter : ~ToApply(q)') => \A q \in Reporter : ~ToApply(q)
  BY <1>2, <1>3, Zenon DEF ToApply, MarkRules
<1>5. InForce => InForce'
  BY <1>1, Zenon DEF InForce, Resolvable
<1> QED BY <1>1, <1>3, <1>4, <1>5, Zenon DEF NetworkInv

LEMMA ApplyOverrideStep ==
    ASSUME NetworkInv, NEW p \in Reporter, ApplyOverride(p) PROVE NetworkInv'
<1>1. Held(p, Idle) /\ UNCHANGED <<marked, network, loaded, task>>
  BY Zenon DEF ApplyOverride, Held, policyVars
<1>2. InForce'
  BY <1>1, Zenon DEF ApplyOverride, InForce, Resolvable, CurrentOverride, Unlocked
<1>3. /\ DOMAIN pending' = Caller /\ pending'[p] = Idle
      /\ \A q \in Reporter : q # p => pending'[q] = pending[q]
  BY <1>1, HeldIs, Zenon DEF NetworkInv, Caller
<1>4. (\A q \in Reporter : ~ToMark(q)') => \A q \in Reporter : ~ToMark(q)
  BY <1>3, Zenon DEF ToMark, ApplyOverride
<1> QED BY <1>1, <1>2, <1>3, <1>4, Zenon DEF NetworkInv

LEMMA NetworkNext == ASSUME NetworkInv, [Next]_vars PROVE NetworkInv'
<1>1. CASE RefreshStep
  BY <1>1, RefreshNetwork, Zenon
<1>2. CASE (\E f \in File : Age(f)) \/ UNCHANGED vars
  BY <1>2, NetworkFrame, Zenon DEF Age, vars, NetworkInv, InForce, Resolvable, policyVars, networkVars
<1>3. ASSUME NEW p \in Updater, (\E list \in RuleLists : Compile(p, list)) \/ SetRules(p)
      PROVE  NetworkInv'
  <2>1. /\ \E record : Held(p, record)
        /\ UNCHANGED <<network, applied, loaded, task>> /\ (marked' = marked \/ marked' = network')
    BY <1>3, Zenon DEF Compile, SetRules, Held, policyVars, networkVars
  <2> QED BY <2>1, OthersStep, NetworkFrame, Zenon DEF InForce, Resolvable
<1>4. ASSUME NEW p \in Setter,
             (\E a \in Allow : StoreAllow(p, a)) \/ TakeFilter(p) \/ ChangeFilter(p)
      PROVE  NetworkInv'
  <2>1. (\E record : Held(p, record)) /\ UNCHANGED <<network, applied, loaded, task, marked>>
    BY <1>4, Zenon DEF StoreAllow, TakeFilter, ChangeFilter, Held, policyVars, networkVars
  <2> QED BY <2>1, OthersStep, NetworkFrame, Zenon DEF InForce, Resolvable
<1>5. ASSUME NEW p \in Reporter,
             (\E n \in Network : StoreNetwork(p, n)) \/ MarkRules(p) \/ ApplyOverride(p)
      PROVE  NetworkInv'
  BY <1>5, StoreNetworkStep, MarkRulesStep, ApplyOverrideStep, Zenon
<1> QED BY <1>1, <1>2, <1>3, <1>4, <1>5, Zenon DEF Next

\* With no report in progress, rules and resolver are set for the current
\* network, for any number of overlapping reports, refreshes and updates.
THEOREM RoutingNetworkInForce == Spec => []NetworkInForce
<1>1. Init => NetworkInv
  BY IdleAt, Zenon DEF Init, NetworkInv, InForce, ToMark, ToApply, Caller
<1>2. NetworkInv /\ [Next]_vars => NetworkInv'
  BY NetworkNext, Zenon
<1>3. NetworkInv => NetworkInForce
  BY IdleAt, Zenon DEF NetworkInv, NetworkInForce, InForce, Reporting, Unlocked, ToMark, ToApply
<1> QED BY <1>1, <1>2, <1>3, PTL DEF Spec

-----------------------------------------------------------------------------
(* The allowlist *)

\* The apps change the allowlist from one place.
OneSetter == \A p, q \in Setter : p = q

\* Filters are numbered as they are built.
Top == Cardinality(DOMAIN userAllow) - 1

\* The change under way holds the list last set; it will reach filter g.
Reaches(p, g) ==
    \/ pending[p].at = "allowed"
    \/ pending[p].at = "filter" /\ pending[p].filter = g

\* The live filter is the snapshot's or the last one built, and the last one
\* built is live while the refresh installs it.
AllowInv ==
    /\ DOMAIN pending = Caller
    /\ Top \in Nat /\ DOMAIN userAllow = 0..Top
    /\ lists \in 0..Top
    /\ filter = lists \/ filter = Top
    /\ task.at = "installing" => filter = Top
    /\ \A p \in Setter :
          /\ pending[p].at \in {"allowed", "filter"} => pending[p].allow = allow
          /\ pending[p].at = "filter" => pending[p].filter \in 0..Top
    /\ FilterInstalled => userAllow[filter] = allow \/ \E p \in Setter : Reaches(p, filter)

\* Steps that change neither filters nor allowlists nor what a setter holds.
LEMMA AllowFrame ==
    ASSUME AllowInv, DOMAIN pending' = Caller, \A p \in Setter : pending'[p] = pending[p],
           UNCHANGED <<lists, filter, userAllow, allow>>,
           task'.at = "installing" <=> task.at = "installing"
    PROVE  AllowInv'
BY Zenon DEF AllowInv, Top, FilterInstalled, Unlocked, Reaches

\* A refresh that fails after its filter went live leaves FilterInstalled false.
LEMMA ConfigureAllow == ASSUME AllowInv, Configure PROVE AllowInv'
<1> DEFINE new == Top + 1
<1>1. new \in Nat \ {0} /\ new = Cardinality(DOMAIN userAllow)
  <2>1. Cardinality(DOMAIN userAllow) = Top + 1
    <3>1. Top \in Nat /\ DOMAIN userAllow = 0..Top /\ 0 \in Int /\ Top \in Int
      BY DEF AllowInv
    <3> HIDE DEF Top
    <3>2. Cardinality(0..Top) = IF 0 > Top THEN 0 ELSE Top - 0 + 1
      BY <3>1, FS_Interval, Zenon
    <3> QED BY <3>1, <3>2
  <2> QED BY <2>1 DEF AllowInv
<1>2. filter' = new /\ DOMAIN userAllow' = 0..new /\ UNCHANGED <<lists, allow, pending>>
  BY <1>1 DEF Configure, NewLists, Put, AllowInv
<1>3. Top' = new
  BY <1>1, <1>2, FS_Interval DEF Top
<1>4. ~FilterInstalled'
  BY <1>1, <1>2, <1>3 DEF AllowInv, FilterInstalled, Top
<1> QED BY <1>1, <1>2, <1>3, <1>4 DEF AllowInv

LEMMA InstallAllow == ASSUME AllowInv, Install PROVE AllowInv'
<1>1. /\ filter = Top /\ filter \in DOMAIN userAllow
      /\ filter' = filter /\ lists' = filter /\ task' = Idle /\ UNCHANGED <<allow, pending>>
  BY DEF Install, AllowInv
<1>2. DOMAIN userAllow' = DOMAIN userAllow /\ userAllow'[filter] = allow
  BY <1>1, Zenon DEF Install, InstalledAllow
<1>3. Top' = Top
  BY <1>2, Zenon DEF Top
<1> QED BY <1>1, <1>2, <1>3, IdleAt, Zenon DEF AllowInv

LEMMA ApplyAllow == ASSUME AllowInv, NEW p \in Reporter, ApplyOverride(p) PROVE AllowInv'
<1>1. /\ Held(p, Idle) /\ filter' = lists /\ task.at # "installing"
      /\ UNCHANGED <<lists, userAllow, allow, task>>
  BY Zenon DEF ApplyOverride, Held, Unlocked
<1>2. DOMAIN pending' = Caller /\ \A q \in Setter : pending'[q] = pending[q]
  BY <1>1, HeldIs, RoutingAssumption, Zenon DEF AllowInv, Caller
<1>3. Top' = Top /\ (FilterInstalled' => FilterInstalled /\ filter = lists)
  BY <1>1, Zenon DEF AllowInv, FilterInstalled, Top, Unlocked
<1> QED BY <1>1, <1>2, <1>3, Zenon DEF AllowInv, Reaches

LEMMA SetterAllow ==
    ASSUME OneSetter, AllowInv, NEW p \in Setter,
           (\E a \in Allow : StoreAllow(p, a)) \/ TakeFilter(p) \/ ChangeFilter(p)
    PROVE  AllowInv'
<1>1. p \in Caller /\ \A q \in Setter : q = p
  BY Zenon DEF OneSetter, Caller
<1>2. ASSUME NEW a \in Allow, StoreAllow(p, a) PROVE AllowInv'
  <2> DEFINE record == [at |-> "allowed", allow |-> a]
  <2>1. Held(p, record) /\ allow' = a /\ UNCHANGED <<lists, filter, userAllow, task>>
    BY <1>2, Zenon DEF StoreAllow, Held
  <2>2. record.at = "allowed" /\ record.allow = a
    BY Zenon
  <2> HIDE DEF record
  <2>3. DOMAIN pending' = Caller /\ pending'[p] = record
    BY <1>1, <2>1, HeldIs, Zenon DEF AllowInv
  <2> QED BY <1>1, <2>1, <2>2, <2>3, Zenon DEF AllowInv, Top, Reaches
<1>3. CASE TakeFilter(p)
  <2> DEFINE record == [at |-> "filter", allow |-> pending[p].allow, filter |-> filter]
  <2>1. /\ Held(p, record) /\ pending[p].at = "allowed"
        /\ UNCHANGED <<lists, filter, userAllow, allow, task>>
    BY <1>3, Zenon DEF TakeFilter, Held, adblockVars
  <2>2. record.at = "filter" /\ record.allow = pending[p].allow /\ record.filter = filter
    BY Zenon
  <2> HIDE DEF record
  <2>3. DOMAIN pending' = Caller /\ pending'[p] = record
    BY <1>1, <2>1, HeldIs, Zenon DEF AllowInv
  <2>4. Top' = Top /\ filter \in 0..Top /\ FilterInstalled' = FilterInstalled
    <3>1. Top' = Top /\ FilterInstalled' = FilterInstalled
      BY <2>1, Zenon DEF Top, FilterInstalled, Unlocked
    <3>2. Top \in Nat /\ lists \in 0..Top /\ (filter = lists \/ filter = Top)
      BY Zenon DEF AllowInv
    <3> QED BY <3>1, <3>2
  <2>5. /\ pending'[p].at = "filter" /\ pending'[p].allow = allow
        /\ pending'[p].filter = filter /\ pending'[p].filter \in 0..Top
    BY <2>1, <2>2, <2>3, <2>4, Zenon DEF AllowInv
  <2>6. Reaches(p, filter)'
    BY <2>1, <2>5, Zenon DEF Reaches
  <2> QED BY <1>1, <2>1, <2>3, <2>4, <2>5, <2>6, Zenon DEF AllowInv
<1>4. CASE ChangeFilter(p)
  <2>1. /\ Held(p, Idle) /\ pending[p].at = "filter" /\ pending[p].allow = allow
        /\ userAllow' = [userAllow EXCEPT ![pending[p].filter] = allow]
        /\ UNCHANGED <<lists, filter, allow, task>>
    BY <1>4, Zenon DEF ChangeFilter, Held, AllowInv
  <2>2. DOMAIN pending' = Caller /\ pending'[p] = Idle
    BY <1>1, <2>1, HeldIs, Zenon DEF AllowInv
  <2>3. DOMAIN userAllow' = DOMAIN userAllow /\ Top' = Top
    BY <2>1, Zenon DEF Top
  <2>4. FilterInstalled' => userAllow'[filter] = allow
    BY <1>1, <2>1, <2>3, Zenon DEF AllowInv, FilterInstalled, Top, Unlocked, Reaches
  <2> QED BY <1>1, <2>1, <2>2, <2>3, <2>4, IdleAt, Zenon DEF AllowInv
<1> QED BY <1>2, <1>3, <1>4, Zenon

LEMMA AllowNext == ASSUME OneSetter, AllowInv, [Next]_vars PROVE AllowInv'
<1> USE DEF adblockVars
<1>1. CASE Configure
  BY <1>1, ConfigureAllow, Zenon
<1>2. CASE Install
  BY <1>2, InstallAllow, Zenon
<1>3. CASE RefreshStep /\ ~Configure /\ ~Install
  <2>1. /\ task.at # "installing" /\ task'.at # "installing"
        /\ UNCHANGED <<lists, filter, userAllow, allow, pending>>
    <3>1. CASE Refresh
      BY <3>1, IdleAt, Zenon DEF Refresh
    <3>2. CASE \E staged \in SUBSET File : Load(staged)
      BY <3>2 DEF Load
    <3>3. CASE LoadFails \/ CompileFails
      BY <3>3, IdleAt, Zenon DEF LoadFails, CompileFails
    <3>4. CASE Commit
      BY <3>4, Zenon DEF Commit, Replace
    <3>5. CASE \E done \in SUBSET File : CommitFails(done)
      BY <3>5, IdleAt, Zenon DEF CommitFails, Replace
    <3> QED BY <1>3, <3>1, <3>2, <3>3, <3>4, <3>5, Zenon DEF RefreshStep
  <2> QED BY <2>1, AllowFrame, Zenon DEF AllowInv
<1>4. CASE (\E f \in File : Age(f)) \/ UNCHANGED vars
  BY <1>4, AllowFrame, Zenon DEF Age, vars, AllowInv
<1>5. ASSUME NEW p \in Updater \cup Reporter,
             \/ \E list \in RuleLists : Compile(p, list)
             \/ SetRules(p)
             \/ \E n \in Network : StoreNetwork(p, n)
             \/ MarkRules(p)
      PROVE  AllowInv'
  <2>1. (\E record : Held(p, record)) /\ UNCHANGED <<lists, filter, userAllow, allow, task>>
    BY <1>5, Zenon DEF Compile, SetRules, StoreNetwork, MarkRules, Held
  <2>2. DOMAIN pending' = Caller /\ \A q \in Setter : pending'[q] = pending[q]
    BY <2>1, HeldIs, RoutingAssumption, Zenon DEF AllowInv, Caller
  <2> QED BY <2>1, <2>2, AllowFrame, Zenon
<1> QED BY <1>1, <1>2, <1>3, <1>4, <1>5, ApplyAllow, SetterAllow, Zenon DEF Next, RefreshStep

\* Until a configure fails, the live filter has the allowlist last set once its
\* change is over, however it overlaps with refreshes and reports; this needs
\* that the changes themselves come one at a time.
THEOREM RoutingAllowInForce == ASSUME OneSetter PROVE Spec => []AllowInForce
<1>1. ASSUME Init PROVE AllowInv
  <2>1. DOMAIN userAllow = {0} /\ userAllow[0] = allow /\ filter = 0 /\ lists = 0
    BY <1>1, Zenon DEF Init
  <2>2. Top = 0 /\ {0} = 0..0
    BY <2>1, FS_Singleton DEF Top
  <2>3. DOMAIN pending = Caller /\ (\A p \in Setter : pending[p].at = "idle") /\ task.at = "idle"
    BY <1>1, IdleAt, Zenon DEF Init, Caller
  <2> QED BY <2>1, <2>2, <2>3, Zenon DEF AllowInv
<1>2. AllowInv /\ [Next]_vars => AllowInv'
  BY AllowNext, Zenon
<1>3. AllowInv => AllowInForce
  BY IdleAt, Zenon DEF AllowInv, AllowInForce, Reaches
<1> QED BY <1>1, <1>2, <1>3, PTL DEF Spec

-----------------------------------------------------------------------------
(***************************************************************************)
(* The reports of the iOS tunnel and its runs: a report that is delivered  *)
(* late, after its run ended and others were started, reaches no core.     *)
(***************************************************************************)
Report == [path : Path, epoch : Nat, change : BOOLEAN]
Maybe(S) == {<<>>} \cup {<<x>> : x \in S}

IosTypeOK ==
    /\ epoch \in Nat /\ device \in Path
    /\ monitor \in BOOLEAN /\ due \in BOOLEAN
    /\ pendingNetwork \in Maybe(Path) /\ reported \in Maybe(Path)
    /\ fetches \in SUBSET Report /\ work \in Seq(Report)

\* A report under way is of this run, about a network it has seen, or of an
\* earlier one.
Placed(r, run, host, networks) ==
    /\ r.epoch <= run
    /\ host = "nil" => r.epoch < run
    /\ host # "nil" /\ r.epoch = run => r.path \in networks

ReportsOK ==
    /\ \A r \in fetches : Placed(r, epoch, core, seen)
    /\ \A i \in DOMAIN work : Placed(work[i], epoch, core, seen)

\* Without a core nothing is watched; with one, what waits to settle and what was
\* told was seen.
WatchOK ==
    /\ core = "nil" => ~monitor /\ ~due /\ pendingNetwork = <<>>
    /\ core # "nil" => /\ pendingNetwork # <<>> => pendingNetwork[1] \in seen
                       /\ reported # <<>> => reported[1] \in seen

IosInv == IosTypeOK /\ ReportsOK /\ WatchOK

LEMMA IosInitInv == ASSUME SeenInit PROVE IosInv
<1>1. IosTypeOK
  <2>1. <<>> \in Seq(Report) /\ {} \in SUBSET Report /\ <<>> \in Maybe(Path)
    BY DEF Maybe
  <2> QED BY <2>1, Zenon DEF SeenInit, IosInit, IosTypeOK
<1>2. fetches = {} /\ DOMAIN work = {} /\ core = "nil" /\ ~monitor /\ ~due /\ pendingNetwork = <<>>
  BY DEF SeenInit, IosInit
<1> QED BY <1>1, <1>2, Zenon DEF IosInv, ReportsOK, WatchOK

\* The end of a run (shutdown): its reports are of an earlier one now.
LEMMA ShutdownInv == ASSUME IosInv, Shutdown PROVE IosInv'
<1>1. /\ core' = "nil" /\ epoch' = epoch + 1 /\ ~monitor' /\ ~due' /\ pendingNetwork' = <<>>
      /\ UNCHANGED <<device, fetches, work, reported>> /\ monitor' \in BOOLEAN /\ due' \in BOOLEAN
  BY Zenon DEF Shutdown, reportVars
<1>2. IosTypeOK'
  BY <1>1 DEF IosInv, IosTypeOK, Maybe
<1>3. \A r \in Report : Placed(r, epoch, core, seen) => Placed(r, epoch', core', seen')
  BY <1>1 DEF Placed, IosInv, IosTypeOK, Report
<1>4. ReportsOK'
  BY <1>1, <1>3 DEF IosInv, IosTypeOK, ReportsOK
<1>5. WatchOK'
  BY <1>1, Zenon DEF WatchOK
<1> QED BY <1>2, <1>4, <1>5, Zenon DEF IosInv

\* Steps that make no report and end no run.
LEMMA QuietInv ==
    ASSUME IosInv, Remember, UNCHANGED <<epoch, fetches, work, reported, pendingNetwork>>,
           core' = "nil" <=> core = "nil", device' \in Path, monitor' \in BOOLEAN, due' \in BOOLEAN,
           core = "nil" => ~monitor' /\ ~due'
    PROVE IosInv'
<1>1. core # "nil" => seen \subseteq seen'
  BY Zenon DEF Remember
<1>2. IosTypeOK'
  BY Zenon DEF IosInv, IosTypeOK
<1>3. \A r \in Report : Placed(r, epoch, core, seen) => Placed(r, epoch', core', seen')
  BY <1>1, Zenon DEF Placed
<1>4. ReportsOK'
  BY <1>3 DEF IosInv, IosTypeOK, ReportsOK
<1>5. WatchOK'
  BY <1>1, Zenon DEF IosInv, WatchOK
<1> QED BY <1>2, <1>4, <1>5, Zenon DEF IosInv

LEMMA StartTunnelInv == ASSUME IosInv, StartTunnel, Remember PROVE IosInv'
<1>1. /\ core = "nil" /\ core' = "running" /\ monitor' = TRUE /\ due' = TRUE /\ reported' = <<>>
      /\ UNCHANGED <<epoch, device, pendingNetwork, fetches, work>>
  BY Zenon DEF StartTunnel, WatchNetwork
<1>2. IosTypeOK'
  BY <1>1, Zenon DEF IosInv, IosTypeOK, Maybe
<1>3. \A r \in Report : Placed(r, epoch, core, seen) => Placed(r, epoch', core', seen')
  BY <1>1 DEF Placed, IosInv, IosTypeOK, Report
<1>4. ReportsOK'
  BY <1>1, <1>3 DEF IosInv, IosTypeOK, ReportsOK
<1>5. WatchOK'
  BY <1>1, Zenon DEF IosInv, WatchOK
<1> QED BY <1>2, <1>4, <1>5, Zenon DEF IosInv

\* A report made (reportNetwork) about a network this run has seen.
LEMMA ReportInv ==
    ASSUME IosTypeOK, ReportsOK, NEW p \in Path, NEW change \in BOOLEAN, ReportNetwork(p, change),
           UNCHANGED <<core, epoch>>, core # "nil", seen \subseteq seen', p \in seen'
    PROVE fetches' \in SUBSET Report /\ work' \in Seq(Report) /\ ReportsOK'
<1> DEFINE r == [path |-> p, epoch |-> epoch, change |-> change]
<1>1. /\ fetches' = IF p \in Wifi THEN fetches \union {r} ELSE fetches
      /\ work' = IF p \in Wifi THEN work ELSE Append(work, r)
  BY Zenon DEF ReportNetwork
<1>2. r \in Report /\ r.epoch = epoch /\ r.path = p
  BY Zenon DEF Report, IosTypeOK
<1>3. Placed(r, epoch', core', seen')
  BY <1>2 DEF Placed, IosTypeOK
<1> HIDE DEF r
<1>4. \A q \in Report : Placed(q, epoch, core, seen) => Placed(q, epoch', core', seen')
  BY Zenon DEF Placed
<1>5. fetches' \in SUBSET Report /\ work' \in Seq(Report)
  BY <1>1, <1>2 DEF IosTypeOK
<1>6. \A q \in fetches' : Placed(q, epoch', core', seen')
  BY <1>1, <1>3, <1>4, Zenon DEF IosTypeOK, ReportsOK
<1>7. \A i \in DOMAIN work' : work'[i] = r \/ (i \in DOMAIN work /\ work'[i] = work[i])
  BY <1>1, <1>2 DEF IosTypeOK
<1>8. \A i \in DOMAIN work' : Placed(work'[i], epoch', core', seen')
  BY <1>3, <1>4, <1>7 DEF IosTypeOK, ReportsOK
<1> QED BY <1>5, <1>6, <1>8, Zenon DEF ReportsOK

LEMMA PathUpdateInv == ASSUME IosInv, PathUpdate, Remember PROVE IosInv'
<1> USE DEF IosInv
<1>1. due /\ due' = FALSE /\ UNCHANGED <<core, epoch, device, monitor, reported>>
  BY Zenon DEF PathUpdate, runVars, reportVars, ReportNetwork
<1>2. core # "nil"
  BY <1>1, Zenon DEF WatchOK
<1>3. seen' = seen \union {device} /\ device \in Path
  BY <1>1, <1>2, Zenon DEF Remember, IosTypeOK
<1>4. CASE received
  <2>1. pendingNetwork' = <<device>> /\ UNCHANGED <<fetches, work>>
    BY <1>4, Zenon DEF PathUpdate, reportVars
  <2>2. IosTypeOK'
    BY <1>1, <1>3, <2>1, Zenon DEF IosTypeOK, Maybe
  <2>3. \A r \in Report : Placed(r, epoch, core, seen) => Placed(r, epoch', core', seen')
    BY <1>1, <1>3, Zenon DEF Placed
  <2>4. ReportsOK'
    BY <2>1, <2>3 DEF IosTypeOK, ReportsOK
  <2>5. WatchOK'
    BY <1>1, <1>2, <1>3, <2>1, Zenon DEF WatchOK
  <2> QED BY <2>2, <2>4, <2>5, Zenon
<1>5. CASE ~received
  <2>1. ReportNetwork(device, FALSE) /\ pendingNetwork' = pendingNetwork
    BY <1>5, Zenon DEF PathUpdate
  <2>2. fetches' \in SUBSET Report /\ work' \in Seq(Report) /\ ReportsOK'
    BY <1>1, <1>2, <1>3, <2>1, ReportInv, Zenon
  <2>3. IosTypeOK'
    BY <1>1, <2>1, <2>2, Zenon DEF IosTypeOK
  <2>4. WatchOK'
    BY <1>1, <1>2, <1>3, <2>1, Zenon DEF WatchOK
  <2> QED BY <2>2, <2>3, <2>4, Zenon
<1> QED BY <1>4, <1>5, Zenon

LEMMA PathSettledInv == ASSUME IosInv, PathSettled, Remember PROVE IosInv'
<1> USE DEF IosInv
<1>1. pendingNetwork # <<>> /\ pendingNetwork' = <<>> /\ UNCHANGED <<core, epoch, device, monitor, due>>
  BY Zenon DEF PathSettled, runVars
<1>2. core # "nil" /\ pendingNetwork[1] \in seen /\ seen' = seen /\ pendingNetwork[1] \in Path
  BY <1>1 DEF WatchOK, Remember, IosTypeOK, Maybe
<1>3. UNCHANGED reportVars \/ ReportNetwork(pendingNetwork[1], TRUE)
  BY Zenon DEF PathSettled
<1>4. fetches' \in SUBSET Report /\ work' \in Seq(Report) /\ ReportsOK' /\ reported' = reported
  <2>1. CASE UNCHANGED reportVars
    BY <1>1, <1>2, <2>1, Zenon DEF reportVars, IosTypeOK, ReportsOK, Placed
  <2>2. CASE ReportNetwork(pendingNetwork[1], TRUE)
    BY <1>1, <1>2, <2>2, ReportInv, Zenon DEF ReportNetwork
  <2> QED BY <1>3, <2>1, <2>2, Zenon
<1>5. IosTypeOK'
  BY <1>1, <1>4, Zenon DEF IosTypeOK, Maybe
<1>6. WatchOK'
  BY <1>1, <1>2, <1>4, Zenon DEF WatchOK
<1> QED BY <1>4, <1>5, <1>6, Zenon

LEMMA WifiNamedInv == ASSUME IosInv, NEW r \in fetches, WifiNamed(r), Remember PROVE IosInv'
<1> USE DEF IosInv
<1>1. /\ fetches' = fetches \ {r} /\ work' = Append(work, r)
      /\ UNCHANGED <<core, epoch, device, monitor, due, pendingNetwork, reported>>
  BY Zenon DEF WifiNamed, runVars, pathVars
<1>2. core # "nil" => seen' = seen
  BY <1>1, Zenon DEF Remember
<1>3. r \in Report /\ Placed(r, epoch, core, seen)
  BY Zenon DEF IosTypeOK, ReportsOK
<1>4. \A q \in Report : Placed(q, epoch, core, seen) => Placed(q, epoch', core', seen')
  BY <1>1, <1>2, Zenon DEF Placed
<1>5. IosTypeOK'
  BY <1>1, <1>3 DEF IosTypeOK
<1>6. \A i \in DOMAIN work' : work'[i] = r \/ (i \in DOMAIN work /\ work'[i] = work[i])
  BY <1>1, <1>3 DEF IosTypeOK
<1>7. ReportsOK'
  <2>1. ASSUME NEW q \in fetches' PROVE Placed(q, epoch', core', seen')
    BY <1>1, <1>4, <2>1, Zenon DEF IosTypeOK, ReportsOK
  <2>2. ASSUME NEW i \in DOMAIN work' PROVE Placed(work'[i], epoch', core', seen')
    <3>1. CASE work'[i] = r
      BY <1>3, <1>4, <3>1, Zenon
    <3>2. CASE i \in DOMAIN work /\ work'[i] = work[i]
      <4>1. work[i] \in Report /\ Placed(work[i], epoch, core, seen)
        BY <3>2 DEF IosTypeOK, ReportsOK
      <4> QED BY <1>4, <3>2, <4>1, Zenon
    <3> QED BY <1>6, <2>2, <3>1, <3>2, Zenon
  <2> QED BY <2>1, <2>2, Zenon DEF ReportsOK
<1>8. WatchOK'
  BY <1>1, <1>2, Zenon DEF WatchOK
<1> QED BY <1>5, <1>7, <1>8, Zenon

LEMMA DeliverInv == ASSUME IosInv, Deliver, Remember PROVE IosInv'
<1> USE DEF IosInv
<1>1. /\ work # <<>> /\ work' = Tail(work)
      /\ reported' = IF Delivers(Head(work)) THEN <<Head(work).path>> ELSE reported
      /\ UNCHANGED <<core, epoch, device, monitor, due, pendingNetwork, fetches>>
  BY Zenon DEF Deliver, runVars, pathVars
<1>2. core # "nil" => seen' = seen
  BY <1>1, Zenon DEF Remember
<1>3. Head(work) = work[1] /\ 1 \in DOMAIN work /\ Head(work) \in Report
  BY <1>1 DEF IosTypeOK
<1>4. \A q \in Report : Placed(q, epoch, core, seen) => Placed(q, epoch', core', seen')
  BY <1>1, <1>2, Zenon DEF Placed
<1>5. work' \in Seq(Report) /\ \A i \in DOMAIN work' : i + 1 \in DOMAIN work /\ work'[i] = work[i + 1]
  BY <1>1 DEF IosTypeOK
<1>6. IosTypeOK'
  BY <1>1, <1>3, <1>5, ZenonT(60) DEF IosTypeOK, Maybe, Report
<1>7. ReportsOK'
  BY <1>1, <1>4, <1>5 DEF IosTypeOK, ReportsOK
<1>8. Delivers(Head(work)) => core # "nil" /\ Head(work).path \in seen
  BY <1>3, Zenon DEF Delivers, Current, ReportsOK, Placed
<1>9. WatchOK'
  BY <1>1, <1>2, <1>8, Zenon DEF WatchOK
<1> QED BY <1>6, <1>7, <1>9, Zenon

LEMMA IosNextInv == ASSUME IosInv, [SeenNext]_seenVars PROVE IosInv'
<1>1. CASE UNCHANGED seenVars
  BY <1>1, Zenon DEF seenVars, iosVars, runVars, pathVars, reportVars, IosInv, IosTypeOK, ReportsOK, WatchOK
<1>2. ASSUME SeenNext PROVE IosInv'
  <2>1. Remember
    BY <1>2, Zenon DEF SeenNext
  <2>2. monitor \in BOOLEAN /\ due \in BOOLEAN /\ device \in Path /\ (core = "nil" => ~monitor /\ ~due)
    BY Zenon DEF IosInv, IosTypeOK, WatchOK
  <2>3. CASE StartTunnel \/ PathUpdate \/ PathSettled \/ Deliver \/ \E r \in fetches : WifiNamed(r)
    BY <2>1, <2>3, StartTunnelInv, PathUpdateInv, PathSettledInv, DeliverInv, WifiNamedInv, Zenon
  <2>4. CASE StartFails \/ StopTunnel \/ HealthCheck \/ PacketCallFails
    BY <2>4, ShutdownInv, Zenon DEF StartFails, StopTunnel, HealthCheck, PacketCallFails, Fail
  <2>5. CASE CoreStops
    <3>1. /\ UNCHANGED <<epoch, fetches, work, reported, pendingNetwork, device, monitor, due>>
          /\ core # "nil" /\ core' # "nil"
      BY <2>5, Zenon DEF CoreStops, pathVars, reportVars
    <3> QED BY <2>1, <2>2, <3>1, QuietInv, Zenon
  <2>6. ASSUME NEW p \in Path, Roam(p) PROVE IosInv'
    <3>1. /\ UNCHANGED <<core, epoch, fetches, work, reported, pendingNetwork, monitor>>
          /\ device' = p /\ due' = monitor
      BY <2>6, Zenon DEF Roam, runVars, reportVars
    <3> QED BY <2>1, <2>2, <3>1, QuietInv, Zenon
  <2>7. CASE CheckStall
    <3>1. UNCHANGED <<core, epoch, fetches, work, reported, pendingNetwork, device, monitor, due>>
      BY <2>7, Zenon DEF CheckStall, runVars, pathVars, reportVars
    <3> QED BY <2>1, <2>2, <3>1, QuietInv, Zenon
  <2>8. ASSUME NEW p, NEW answered, NEW refused, ProbeDone(p, answered, refused) PROVE IosInv'
    <3>1. Shutdown \/ UNCHANGED <<core, epoch, fetches, work, reported, pendingNetwork, device, monitor, due>>
      BY <2>8, Zenon DEF ProbeDone, runVars, pathVars, reportVars
    <3> QED BY <2>1, <2>2, <3>1, QuietInv, ShutdownInv
  <2>9. ASSUME NEW ok, SettingsDone(ok) PROVE IosInv'
    <3>1. \/ Shutdown
          \/ /\ UNCHANGED <<core, epoch, fetches, work, reported, pendingNetwork, device>>
             /\ UNCHANGED <<monitor, due>> \/ (monitor' = TRUE /\ due' = TRUE /\ core # "nil")
      BY <2>9, Zenon DEF SettingsDone, WatchNetwork, reportVars, Current
    <3>2. CASE UNCHANGED <<core, epoch, fetches, work, reported, pendingNetwork, device, monitor, due>>
      BY <2>1, <2>2, <3>2, QuietInv, Zenon
    <3>3. CASE /\ UNCHANGED <<core, epoch, fetches, work, reported, pendingNetwork, device>>
               /\ monitor' = TRUE /\ due' = TRUE /\ core # "nil"
      BY <2>1, <2>2, <3>3, QuietInv, ZenonT(60)
    <3> QED BY <3>1, <3>2, <3>3, ShutdownInv, Zenon
  <2> QED BY <1>2, <2>3, <2>4, <2>5, <2>6, <2>7, <2>8, <2>9, ZenonT(60) DEF SeenNext, IosNext, Prompted, Probe
<1> QED BY <1>1, <1>2, Zenon

\* What the tunnel keeps of its reports.
THEOREM IosInvariant == SeenSpec => []IosInv
BY IosInitInv, IosNextInv, PTL DEF SeenSpec

\* deliver of PacketTunnelProvider tells a core only of networks that its own run
\* has seen, for any number of networks, runs, moves and reports under way.
THEOREM ToldOwnNetworkAlways == SeenSpec => []ToldOwnNetwork
<1>1. IosInv => ToldOwnNetwork
  BY Zenon DEF IosInv, WatchOK, ToldOwnNetwork
<1> QED BY <1>1, IosInvariant, PTL
=============================================================================
