----------------------------- MODULE MCRuntime -----------------------------
(***************************************************************************)
(* What surrounds the pipeline while a run is under way: the decisions to    *)
(* dispatch and stop, a user's connection pool, the list connections, the    *)
(* tunnels to spawned workers and the latency histogram.  They are checked   *)
(* one at a time: a behaviour picks a component and is one of its own, with  *)
(* that component's fairness.                                                *)
(***************************************************************************)
EXTENDS RunControl, ClientPool, ListClients, Tunnel, Latency

VARIABLE component  \* the component this behaviour is about

RuntimeInit ==
    /\ component \in {"control", "pool", "lists", "tunnel", "latency"}
    /\ ControlInit /\ PoolInit /\ ListInit /\ TunnelInit /\ LatencyInit
    /\ component # "tunnel" => running = [m \in Machines |-> NoSpawn]

\* Bound: what is left of a fault of some tunnel, and no second fault while
\* there is any, except what follows from a lost session.
FaultTraces ==
    ({"session"} \X {s \in Spawns : session[s] \in {"stalled", "lost"}})
      \cup ({"pkill"} \X unreached) \cup ({"ping"} \X {s \in Spawns : pings[s] > 0})

OneFaultAtATime ==
    FaultTraces = {} \/ \A f \in FaultTraces' \ FaultTraces : session[f[2]] = "lost"

IdleBut(name) ==
    /\ component = name /\ UNCHANGED component
    /\ name # "control" => UNCHANGED controlVars
    /\ name # "pool" => UNCHANGED poolVars
    /\ name # "lists" => UNCHANGED listVars
    /\ name # "tunnel" => UNCHANGED tunnelVars
    /\ name # "latency" => UNCHANGED latencyVars

RuntimeNext ==
    \/ IdleBut("control") /\ ControlNext
    \/ IdleBut("pool") /\ PoolNext
    \/ IdleBut("lists") /\ ListNext
    \/ IdleBut("tunnel") /\ TunnelNext /\ OneFaultAtATime
    \/ IdleBut("latency") /\ LatencyNext

runtimeVars == <<component, controlVars, poolVars, listVars, tunnelVars, latencyVars>>

\* ListFairness and FairTunnel, each where its component is the one that runs.
RuntimeFairness ==
    /\ \A p \in Pollers :
          /\ WF_listVars(component = "lists" /\ PollerStep(p))
          /\ SF_listVars(component = "lists" /\ PollReturns(p))
    /\ WF_listVars(component = "lists" /\ CloseListClients)
    /\ WF_listVars(component = "lists" /\ CloseList)
    /\ FairTunnel

RuntimeSpec == RuntimeInit /\ [][RuntimeNext]_runtimeVars /\ RuntimeFairness
=============================================================================
