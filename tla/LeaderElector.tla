---------------------------- MODULE LeaderElector ----------------------------
(***************************************************************************)
(* The election of one agent among those of a Kubernetes cluster:          *)
(* utils/kubernetes/leader_elector.py, called by refresh_leader() of       *)
(* utils/kubernetes/kubeutil.py.  The agents share one ConfigMap, the lock, *)
(* and talk to the API server with one request at a time; the requests of  *)
(* different agents interleave.                                            *)
(*                                                                         *)
(* The clocks are synchronized.  Instants are kept as ages in ticks, which *)
(* stop growing at LeaseDuration since nothing tells older ones apart.     *)
(***************************************************************************)
EXTENDS Integers, FiniteSets

CONSTANTS
    Nodes,              \* the nodes, with one agent each
    LeaseDuration,      \* lease_duration, in ticks
    RefreshMargin,      \* the 30 seconds before the expiry, in ticks
    MaxFaults           \* bound: requests that fail and restarts

ASSUME LeaderElectorAssumption ==
    /\ LeaseDuration \in Nat \ {0}
    /\ RefreshMargin \in 0..LeaseDuration
    /\ MaxFaults \in Nat

Ages == 0..LeaseDuration
NoAge == -1             \* None, or an annotation that is missing
NoCM == [creator |-> {}, age |-> NoAge]
Lock(creators, age) == [creator |-> creators, age |-> age]

VARIABLES
    cm,                 \* the ConfigMap in the API server: {node} is its
                        \* creator, {} for nobody; there is none if NoCM
    malformed,          \* the ConfigMap has no acquired_time
    isLeader,           \* kubeutil.is_leader of each agent
    lastAcquire,        \* last_acquire_time of each agent
    pc,                 \* the request an agent waits for, or idle
    stamp,              \* acquired_time in the payload of that request
    faults,             \* requests that failed and restarts so far
    sawExpired          \* history: an agent has found an expired lock

agentVars == <<isLeader, lastAcquire, pc, stamp>>
vars == <<cm, malformed, agentVars, faults, sawExpired>>

Init ==
    /\ cm = NoCM /\ malformed \in BOOLEAN
    /\ isLeader = [n \in Nodes |-> FALSE]
    /\ lastAcquire = [n \in Nodes |-> NoAge]
    /\ pc = [n \in Nodes |-> "idle"]
    /\ stamp = [n \in Nodes |-> NoAge]
    /\ faults = 0 /\ sawExpired = FALSE

-----------------------------------------------------------------------------
Absent == cm = NoCM /\ ~malformed
Expired(age) == age >= LeaseDuration

RefreshTime(n) ==
    lastAcquire[n] # NoAge /\ lastAcquire[n] >= LeaseDuration - RefreshMargin

\* Mutant: an agent that knows of a leader does not try again.
AcquireTimeOnce(n) == lastAcquire[n] = NoAge
AcquireTime(n) == lastAcquire[n] = NoAge \/ Expired(lastAcquire[n])

\* The call ends.
Elected(n, leader) ==
    /\ isLeader' = [isLeader EXCEPT ![n] = leader]
    /\ pc' = [pc EXCEPT ![n] = "idle"]

\* A payload is built with the current time, and a request made.
Request(n, request) ==
    /\ pc' = [pc EXCEPT ![n] = request]
    /\ stamp' = [stamp EXCEPT ![n] = 0]

Fault == faults < MaxFaults /\ faults' = faults + 1

\* Mutant: the time of the payload is not kept.
HoldsSince(n) == UNCHANGED lastAcquire
HoldsFrom(n) == lastAcquire' = [lastAcquire EXCEPT ![n] = stamp[n]]

-----------------------------------------------------------------------------
(* try_acquire_or_refresh(), and the request of _get_cm() *)

TryAcquireOrRefresh(n) ==
    /\ pc[n] = "idle"
    /\ IF isLeader[n] THEN RefreshTime(n) ELSE AcquireTime(n)
    /\ pc' = [pc EXCEPT ![n] = "get"]
    /\ UNCHANGED <<cm, malformed, isLeader, lastAcquire, stamp, faults, sawExpired>>

\* There is a lock; what it says is what the agent knows from now on.
GetLock(n) ==
    /\ pc[n] = "get" /\ cm # NoCM
    /\ lastAcquire' = [lastAcquire EXCEPT ![n] = cm.age]
    /\ UNCHANGED <<cm, malformed, faults>>

GetExpired(n) ==
    /\ GetLock(n) /\ Expired(cm.age)
    /\ Request(n, "delete")
    /\ sawExpired' = TRUE
    /\ UNCHANGED isLeader

\* The lock is fresh: it is refreshed by its creator if it knows that it is the
\* leader, else its creator is the leader, after a restart for instance.
GetMineToRefresh(n) ==
    /\ GetLock(n) /\ ~Expired(cm.age) /\ cm.creator = {n} /\ isLeader[n]
    /\ Request(n, "update")
    /\ UNCHANGED <<isLeader, sawExpired>>

GetMineToAcquire(n) ==
    /\ GetLock(n) /\ ~Expired(cm.age) /\ cm.creator = {n} /\ ~isLeader[n]
    /\ Elected(n, TRUE)
    /\ UNCHANGED <<stamp, sawExpired>>

\* Mutant: a leader that lost the lock stays one.
GetOthersKept(n) ==
    /\ GetLock(n) /\ ~Expired(cm.age) /\ cm.creator # {n}
    /\ Elected(n, isLeader[n])
    /\ UNCHANGED <<stamp, sawExpired>>

GetOthers(n) ==
    /\ GetLock(n) /\ ~Expired(cm.age) /\ cm.creator # {n}
    /\ Elected(n, FALSE)
    /\ UNCHANGED <<stamp, sawExpired>>

\* strptime() raises on a missing annotation.
GetMalformed(n) ==
    /\ pc[n] = "get" /\ malformed
    /\ Elected(n, FALSE)
    /\ UNCHANGED <<cm, malformed, lastAcquire, stamp, faults, sawExpired>>

GetNone(n) ==
    /\ pc[n] = "get" /\ Absent
    /\ Request(n, "create")
    /\ UNCHANGED <<cm, malformed, isLeader, lastAcquire, faults, sawExpired>>

\* An HTTP error other than 404 passes for no ConfigMap.
GetError(n) ==
    /\ pc[n] = "get" /\ Fault
    /\ Request(n, "create")
    /\ UNCHANGED <<cm, malformed, isLeader, lastAcquire, sawExpired>>

-----------------------------------------------------------------------------
(* _try_lock_cm() and _try_refresh_cm() *)

Written(n) == cm' = Lock({n}, stamp[n]) /\ UNCHANGED malformed

\* The ConfigMap of that name is deleted, whatever it has become; another agent
\* may have deleted it.
Delete(n) ==
    /\ pc[n] = "delete"
    /\ cm' = NoCM /\ malformed' = FALSE
    /\ pc' = [pc EXCEPT ![n] = "create"]
    /\ UNCHANGED <<isLeader, lastAcquire, stamp, faults, sawExpired>>

\* Mutant: the lock that another agent created is replaced.
CreateOver(n) ==
    /\ pc[n] = "create" /\ ~malformed
    /\ Written(n) /\ HoldsFrom(n) /\ Elected(n, TRUE)
    /\ UNCHANGED <<stamp, faults, sawExpired>>

Create(n) ==
    /\ pc[n] = "create" /\ Absent
    /\ Written(n) /\ HoldsFrom(n) /\ Elected(n, TRUE)
    /\ UNCHANGED <<stamp, faults, sawExpired>>

\* Another agent won the race.
CreateConflict(n) ==
    /\ pc[n] = "create" /\ ~Absent
    /\ Elected(n, FALSE)
    /\ UNCHANGED <<cm, malformed, lastAcquire, stamp, faults, sawExpired>>

\* The payload carries no resource version: it replaces the lock that it finds.
Update(n) ==
    /\ pc[n] = "update" /\ cm # NoCM
    /\ Written(n) /\ HoldsFrom(n) /\ Elected(n, TRUE)
    /\ UNCHANGED <<stamp, faults, sawExpired>>

UpdateNone(n) ==
    /\ pc[n] = "update" /\ cm = NoCM
    /\ Elected(n, FALSE)
    /\ UNCHANGED <<cm, malformed, lastAcquire, stamp, faults, sawExpired>>

\* A request fails, and so does the call, which is not to say that the API
\* server has not done what was asked.
RequestFails(n) ==
    /\ pc[n] # "idle" /\ Fault
    /\ Elected(n, FALSE)
    /\ \/ UNCHANGED <<cm, malformed>>
       \/ pc[n] = "delete" /\ cm' = NoCM /\ malformed' = FALSE
       \/ pc[n] = "create" /\ Absent /\ Written(n)
       \/ pc[n] = "update" /\ cm # NoCM /\ Written(n)
    /\ UNCHANGED <<lastAcquire, stamp, sawExpired>>

-----------------------------------------------------------------------------
\* The agent of a node restarts.
Restart(n) ==
    /\ Fault
    /\ Elected(n, FALSE)
    /\ lastAcquire' = [lastAcquire EXCEPT ![n] = NoAge]
    /\ stamp' = [stamp EXCEPT ![n] = NoAge]
    /\ UNCHANGED <<cm, malformed, sawExpired>>

Older(age) == IF age = NoAge \/ age = LeaseDuration THEN age ELSE age + 1

Tick ==
    /\ cm' = [cm EXCEPT !.age = Older(@)]
    /\ lastAcquire' = [n \in Nodes |-> Older(lastAcquire[n])]
    /\ stamp' = [n \in Nodes |-> Older(stamp[n])]
    /\ UNCHANGED <<malformed, isLeader, pc, faults, sawExpired>>

Get(n) ==
    \/ GetExpired(n) \/ GetMineToRefresh(n) \/ GetMineToAcquire(n)
    \/ GetOthers(n) \/ GetMalformed(n) \/ GetNone(n)

Write(n) ==
    \/ Delete(n) \/ Create(n) \/ CreateConflict(n) \/ Update(n) \/ UpdateNone(n)

Next ==
    \/ (\E n \in Nodes : TryAcquireOrRefresh(n))
    \/ (\E n \in Nodes : Get(n))
    \/ (\E n \in Nodes : Write(n))
    \/ (\E n \in Nodes : GetError(n))
    \/ (\E n \in Nodes : RequestFails(n))
    \/ (\E n \in Nodes : Restart(n))
    \/ Tick

Spec == Init /\ [][Next]_vars

\* Each agent runs its checks again and again, the API server answers, and time
\* passes.
Fairness ==
    /\ \A n \in Nodes : WF_vars(TryAcquireOrRefresh(n))
    /\ \A n \in Nodes : WF_vars(Get(n)) /\ WF_vars(Write(n))
    /\ WF_vars(Tick)

FairSpec == Spec /\ Fairness

-----------------------------------------------------------------------------
(* Properties *)

LockType ==
    /\ cm = NoCM \/ \E n \in Nodes, age \in Ages : cm = Lock({n}, age)
    /\ malformed \in BOOLEAN /\ (malformed => cm = NoCM)

AgentsType ==
    /\ isLeader \in [Nodes -> BOOLEAN]
    /\ lastAcquire \in [Nodes -> Ages \cup {NoAge}]
    /\ pc \in [Nodes -> {"idle", "get", "delete", "create", "update"}]
    /\ stamp \in [Nodes -> Ages \cup {NoAge}]

\* Every variable has its type; what is written to the API server is dated.
TypeOK ==
    /\ LockType /\ AgentsType
    /\ \A n \in Nodes : pc[n] \in {"delete", "create", "update"} => stamp[n] \in Ages
    /\ faults \in Nat /\ sawExpired \in BOOLEAN

\* The leader refreshes in time only if it knows how old its lock is: whatever
\* others delete, create or replace meanwhile, a leader whose lock is in the API
\* server has the age of it.
LeaderKnowsItsLease ==
    \A n \in Nodes :
        isLeader[n] /\ cm.creator = {n} => lastAcquire[n] = cm.age

\* No request is sent undated, and no leader misjudges its lease.
LeasesKnown == TypeOK /\ LeaderKnowsItsLease

\* Until a lock has expired there is one leader at most, and the lock is its
\* own: of the agents that create it at once, one wins, and an API server that
\* fails, forgets to answer or takes the lock for missing changes nothing.
OneLeaderUntilExpiry ==
    ~sawExpired =>
        \A n \in Nodes : isLeader[n] => cm.creator = {n}

\* Two leaders do not last: an agent that has lost the lock finds out.
StaleLeaderStepsDown ==
    \A n \in Nodes :
        (isLeader[n] /\ cm.creator # {n}) ~> (~isLeader[n] \/ cm.creator = {n})

\* The cluster is never left without a leader for good, unless a ConfigMap
\* without acquired_time has the name of the lock.
LeadersKeepComing == []<>(malformed \/ \E n \in Nodes : isLeader[n])

-----------------------------------------------------------------------------
(* What the comments of the code say *)

\* leader_elector.py:33, "This mechanism doesn't ensure uniqueness of the leader
\* because of clock skew": with synchronized clocks, two agents do not both
\* believe in a lease that has not expired.
OneLeader ==
    \A n, m \in Nodes :
        isLeader[n] /\ isLeader[m] /\ n # m
            => Expired(lastAcquire[n]) \/ Expired(lastAcquire[m])

\* leader_elector.py:135, "acquired-time wasn't set correctly for the leader
\* lock. Assuming it's expired so we can reset it correctly."
MalformedReset == malformed ~> ~malformed
=============================================================================
