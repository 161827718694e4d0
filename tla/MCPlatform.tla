------------------------------ MODULE MCPlatform ------------------------------
(* What runs beside the checks: the leader election of a Kubernetes cluster,  *)
(* the pool of threads and the server of statsd packets.  These components    *)
(* share no state: a behaviour is one of one of them, and the others stay in  *)
(* an initial state.                                                          *)
EXTENDS LeaderElector, ThreadPool, StatsdServer, TLC

CONSTANTS n1, n2

VARIABLE component

platformVars == <<component, vars, poolVars, statsdVars>>

MCInit ==
    /\ component \in {"election", "pool", "statsd"}
    /\ Init
    /\ PoolInit /\ (component # "pool" => howCalled = CHOOSE p \in CallPlans : TRUE)
    /\ StatsdInit

MCNext ==
    /\ UNCHANGED component
    /\ IF component = "election" THEN Next ELSE UNCHANGED vars
    /\ IF component = "pool" THEN PoolNext ELSE UNCHANGED poolVars
    /\ IF component = "statsd" THEN StatsdNext ELSE UNCHANGED statsdVars

\* The fairness of each specification, for the component of the behaviour.
MCSpec ==
    /\ MCInit /\ [][MCNext]_platformVars
    /\ \A n \in Nodes : WF_vars(component = "election" /\ TryAcquireOrRefresh(n))
    /\ \A n \in Nodes : WF_vars(component = "election" /\ Get(n))
                     /\ WF_vars(component = "election" /\ Write(n))
    /\ WF_vars(component = "election" /\ Tick)
    /\ \A w \in PoolWorkers : WF_poolVars(component = "pool" /\ WorkerStep(w))
    /\ \A c \in PoolCalls : WF_poolVars(component = "pool" /\ PutUnit(c))
                         /\ WF_poolVars(component = "pool" /\ NextResult(c))
    /\ WF_poolVars(component = "pool" /\ DrainOne)
    /\ WF_poolVars(component = "pool" /\ PutSentinels)
    /\ WF_poolVars(component = "pool" /\ Join)
    /\ WF_statsdVars(component = "statsd" /\ ServerStep)
    /\ WF_statsdVars(component = "statsd" /\ ReporterStep)

-------------------------------------------------------------------------------
\* LeaderElector.  The nodes are symmetric, but liveness is checked.
TwoNodes == {n1, n2}

\* Leadership moves on: an agent that has lost the lock finds out, and the cluster is
\* never left without a leader for good (leader_elector.py, where there is one).
LeadershipMoves == StaleLeaderStepsDown /\ (component = "election" => LeadersKeepComing)

\* ThreadPool: a call that maps nothing beside each kind of iteration, or one that is
\* applied beside a map.
How(kind, n, chunk) == [kind |-> kind, n |-> n, chunk |-> chunk]
Plans ==
    {"a" :> How("apply", 1, 1) @@ "b" :> How("map", 2, 1)}
        \cup {"a" :> How("map", 0, 1) @@ "b" :> How(kind, 2, IF kind = "imap" THEN 2 ELSE 1) :
                 kind \in {"imap", "imap_async", "unordered", "unordered_async"}}

\* StatsdServer: datagrams with several packets, and one that is none.
Received ==
    {<<"event", "event">>, <<"metric", "check", "event">>, <<"event", "bad", "check">>}
===============================================================================
