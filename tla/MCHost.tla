------------------------------- MODULE MCHost -------------------------------
(***************************************************************************)
(* HostHandle for TLC.  Each initial state fixes a plan: how often each    *)
(* function may be called.  The plans cover the lifecycle under racing     *)
(* threads, packets with callbacks, queries, Android descriptors, reuse of *)
(* the registry, and the calls that touch no handle.                       *)
(***************************************************************************)
EXTENDS HostContract, TLC

CONSTANT Main   \* the host thread that creates handles

VARIABLE plan
mcVars == <<hostVars, plan>>

\* "packets" and "lines" stand for what the core sends and logs.
Plan(some) == some @@ [f \in Functions \union {"packets", "lines"} |-> 0]

Plans == {
    Plan("create" :> 1 @@ "start" :> 2 @@ "stop" :> 1 @@ "destroy" :> 1),
    Plan("create_packet_tunnel" :> 1 @@ "start" :> 1 @@ "destroy" :> 1 @@ "packets" :> 2),
    Plan("create" :> 1 @@ "probe" :> 2 @@ "stop" :> 1),
    Plan("create" :> 1 @@ "test_route" :> 1 @@ "dns_leak" :> 1 @@ "destroy" :> 1),
    Plan("create_packet_tunnel" :> 1 @@ "set_fd" :> 1 @@ "start" :> 1 @@ "destroy" :> 1),
    Plan("create" :> 1 @@ "create_packet_tunnel" :> 2 @@ "destroy" :> 2),
    Plan("create_packet_tunnel" :> 1 @@ "start" :> 1 @@ "write_packet" :> 2 @@ "stop" :> 1),
    Plan("create" :> 1 @@ "network_changed" :> 2 @@ "start" :> 1),
    Plan("create" :> 1 @@ "drain_logs" :> 2 @@ "lines" :> 2) }
  \union {Plan(f :> 1) : f \in Conversions \union Transfers}
  \union {Plan("create" :> 1 @@ f :> 1) : f \in Behind}
  \union {Plan("create_packet_tunnel" :> 1 @@ "start" :> 1 @@ "snapshot" :> 1 @@ "packets" :> 1)}

MCInit == HostInit /\ plan \in Plans

Bounds ==
    /\ \A h \in Handle : sent'[h] <= plan["packets"]
    /\ logged' <= plan["lines"]
    /\ UNCHANGED plan

MCNext ==
    \/ HostStep /\ Bounds
    \/ \E t \in Thread, f \in {g \in Functions : plan[g] > 0} :
          /\ f \in Creates => t \in {Main, Callback}
          /\ Calls(t, f)
          /\ f \in Commands \union Queries \union Stops => call'[t].h < next
          /\ plan' = [plan EXCEPT ![f] = @ - 1]

\* Time passes, threads are scheduled, and the host keeps its side: callbacks
\* return and the tunnel's queue runs its turns.
Fairness ==
    /\ \A t \in Thread : WF_mcVars(CallStep(t) /\ Bounds)
    /\ \A h \in Handle :
          /\ WF_mcVars(WorkerStep(h) /\ Bounds)
          /\ WF_mcVars(QueryStep(h) /\ Bounds)
          /\ WF_mcVars(WriterStep(h) /\ UNCHANGED sent /\ Bounds)
          /\ WF_mcVars(DrainStep(h) /\ Bounds)

MCSpec == MCInit /\ [][MCNext]_mcVars /\ Fairness
=============================================================================
