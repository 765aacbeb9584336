----------------------------- MODULE MCDesktop -----------------------------
(***************************************************************************)
(* Small instances of Desktop: the events that come from outside, the      *)
(* failures and the deaths of the process are counted and bounded.         *)
(***************************************************************************)
EXTENDS Desktop, Integers

CONSTANTS
    MaxFails, MaxDeaths, MaxLinks, MaxOthers, MaxUser,
    MaxEvents       \* bound on failures, deaths and outside events together

VARIABLE count  \* how often each kind of event happened

Bound == [fail |-> MaxFails, death |-> MaxDeaths, link |-> MaxLinks, other |-> MaxOthers, user |-> MaxUser]

Events == count.fail + count.death + count.link + count.other + count.user

Counted(kind) ==
    /\ count[kind] < Bound[kind]
    /\ Events < MaxEvents
    /\ count' = [count EXCEPT ![kind] = @ + 1]

mcVars == <<vars, count>>

MCInit == Init /\ count = [kind \in DOMAIN Bound |-> 0]

MCNext ==
    \/ (RouteStep \/ ServiceStep \/ RunStep \/ Stop \/ RecoverRoutes) /\ UNCHANGED count
    \/ (\E choice \in Choices : Reselect(choice) \/ Tick(choice)) /\ UNCHANGED count
    \/ (\E choice \in Choices, found \in BOOLEAN : OpenSession(choice, found)) /\ UNCHANGED count
    \/ Counted("fail") /\ Fails
    \/ Counted("death") /\ Dies
    \/ Counted("link") /\ LinkStep
    \/ Counted("other") /\ OtherStep
    \/ Counted("user") /\ UserStep

MCSpec == MCInit /\ [][MCNext]_mcVars

\* The process goes on while it lives; the service runs recover before every
\* session, so it is not put off for ever by sessions that cannot start.
FairSpec ==
    /\ MCSpec
    /\ WF_mcVars((RouteStep \/ ServiceStep \/ RunStep) /\ UNCHANGED count)
    /\ SF_mcVars((RecoverRoutes \/ RecoverDns) /\ UNCHANGED count)

LeftBehind == Own(table) # {} \/ \E s \in Service : servers[s] \in Address

\* What an interrupted or failed session left in the routing table and in the
\* DNS settings is gone again once recover ran, however often it was itself
\* interrupted.
RecoveryCleans == (stage = "down" /\ LeftBehind) ~> (stage = "down" /\ ~LeftBehind)
=============================================================================
