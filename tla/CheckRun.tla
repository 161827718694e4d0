------------------------------- MODULE CheckRun -------------------------------
(***************************************************************************)
(* One check from its run to its commit: AgentCheck and TopologyInstance of *)
(* checks/__init__.py, its part of Collector.run(), and the emitter, which *)
(* posts a payload in three parts of which the first has the topology.     *)
(*                                                                         *)
(* The check is free in what it calls.  A snapshot of a topology may take  *)
(* several runs.  The receiver of the payloads is outside the agent.       *)
(***************************************************************************)
EXTENDS Naturals, FiniteSets

CONSTANTS
    Keys,               \* topology instances
    NInstances,         \* instances of the check
    MaxData,            \* bound: components and relations that are announced
    MaxRuns             \* bound: runs

ASSUME CheckRunAssumption == NInstances \in Nat \ {0} /\ MaxData \in Nat /\ MaxRuns \in Nat

Data == 1..MaxData

VARIABLES
    pc,                 \* idle, check, collect, post, commit
    runs,               \* runs so far
    instance,           \* the instance that runs
    topology,           \* topology_instances, and what is in each
    announced,          \* components and relations so far
    payload,            \* topologies of the payload: what is told of each key
    part,               \* the part of the payload that is posted
    emission,           \* sent, failed, or none
    told,               \* the commit of this run: success, failure, or nothing
    received,           \* external: the topology the receiver has of each key
    snapshot,           \* history: what the check put in the snapshot of each key
    missed,             \* history: the receiver missed a part of the snapshot
    unposted,           \* history: a part of this payload was not posted
    reports             \* history: how often each thing was in a payload

checkVars == <<topology, announced, snapshot>>
postVars == <<part, emission, received, missed, unposted>>
vars == <<pc, runs, instance, checkVars, payload, told, postVars, reports>>

NoTopology == [exists |-> FALSE, inSnapshot |-> FALSE, start |-> FALSE, stop |-> FALSE, data |-> {}]

Init ==
    /\ pc = "idle" /\ runs = 0 /\ instance = 1
    /\ topology = [k \in Keys |-> NoTopology] /\ announced = 0
    /\ payload = <<>> /\ part = 0 /\ emission = "none" /\ told = "nothing"
    /\ received = [k \in Keys |-> {}] /\ snapshot = [k \in Keys |-> {}]
    /\ missed = [k \in Keys |-> FALSE] /\ unposted = FALSE
    /\ reports = [d \in Data |-> 0]

-----------------------------------------------------------------------------
(* AgentCheck.run() *)

RunBegin ==
    /\ pc = "idle" /\ runs < MaxRuns
    /\ runs' = runs + 1 /\ instance' = 1 /\ pc' = "check"
    /\ told' = "nothing"
    /\ UNCHANGED <<checkVars, payload, postVars, reports>>

\* An instance ends: it succeeds, it raises, or it is skipped since its
\* min_collection_interval is not over; the next one runs in any case.
InstanceEnds ==
    /\ pc = "check"
    /\ IF instance < NInstances THEN instance' = instance + 1 /\ UNCHANGED pc
                                ELSE pc' = "collect" /\ UNCHANGED instance
    /\ UNCHANGED <<runs, payload, told, postVars, reports>>

CheckReturns == InstanceEnds /\ UNCHANGED checkVars

\* The topology instance is made before the call is found not to be allowed.
CallRaises(k) ==
    /\ InstanceEnds
    /\ topology' = [topology EXCEPT ![k].exists = TRUE]
    /\ UNCHANGED <<announced, snapshot>>

Call(k, instanceOf) ==
    /\ pc = "check"
    /\ topology' = [topology EXCEPT ![k] = instanceOf]
    /\ UNCHANGED <<pc, runs, instance, payload, told, postVars, reports>>

\* Mutant: data is added after the snapshot was stopped.
AlwaysOpen(t) == TRUE
Accepts(t) == ~t.stop

\* component() and relation()
Announce(k) ==
    /\ announced < MaxData
    /\ announced' = announced + 1
    /\ Accepts(topology[k])
    /\ Call(k, [topology[k] EXCEPT !.exists = TRUE, !.data = @ \cup {announced'}])
    /\ snapshot' = [snapshot EXCEPT ![k] =
           IF topology[k].inSnapshot THEN @ \cup {announced'} ELSE @]

AnnounceRaises(k) == ~Accepts(topology[k]) /\ CallRaises(k)

StartSnapshot(k) ==
    /\ ~topology[k].stop /\ ~topology[k].inSnapshot
    /\ Call(k, [topology[k] EXCEPT !.exists = TRUE, !.inSnapshot = TRUE, !.start = TRUE])
    /\ snapshot' = [snapshot EXCEPT ![k] = topology[k].data]
    /\ UNCHANGED announced

StartRaises(k) == (topology[k].stop \/ topology[k].inSnapshot) /\ CallRaises(k)

StopSnapshot(k) ==
    /\ topology[k].inSnapshot
    /\ Call(k, [topology[k] EXCEPT !.inSnapshot = FALSE, !.stop = TRUE])
    /\ UNCHANGED <<announced, snapshot>>

StopRaises(k) == ~topology[k].inSnapshot /\ CallRaises(k)

\* clear_topology_and_snapshot(): what was announced in this run is dropped.
Cleared(t, clearInSnapshot) ==
    [exists |-> TRUE, inSnapshot |-> t.inSnapshot /\ ~clearInSnapshot,
     start |-> FALSE, stop |-> FALSE, data |-> {}]

\* _clear_topology(), as a check calls it
ClearTopology(k) ==
    /\ Call(k, Cleared(topology[k], TRUE))
    /\ snapshot' = [snapshot EXCEPT ![k] = @ \ topology[k].data]
    /\ UNCHANGED announced

-----------------------------------------------------------------------------
(* Collector.run() *)

\* Mutant: what was collected stays to be collected again.
CollectedOnceMore(t) == t
Collected(t) == Cleared(t, FALSE)

\* get_topology_instances(): an instance is kept as long as its snapshot is open.
CollectTopology ==
    /\ pc = "collect"
    /\ payload' = [k \in {l \in Keys : topology[l].exists} |-> topology[k]]
    /\ topology' = [k \in Keys |-> IF topology[k].inSnapshot THEN Collected(topology[k])
                                                             ELSE NoTopology]
    /\ reports' = [d \in Data |->
           reports[d] + Cardinality({k \in Keys : d \in topology[k].data})]
    /\ part' = 1 /\ emission' = "none" /\ unposted' = FALSE
    /\ pc' = "post"
    /\ UNCHANGED <<runs, instance, announced, snapshot, told, received, missed>>

Parts == 3
Topologies == 1

\* The receiver takes a snapshot from its start on, and adds what it is told.
Receive ==
    /\ received' = [k \in Keys |->
           IF k \notin DOMAIN payload THEN received[k]
           ELSE IF payload[k].start THEN payload[k].data
           ELSE received[k] \cup payload[k].data]
    /\ missed' = [k \in Keys |->
           missed[k] /\ ~(k \in DOMAIN payload /\ payload[k].start)]

Miss ==
    /\ missed' = [k \in Keys |-> missed[k] \/ k \in DOMAIN payload]
    /\ UNCHANGED received

Delivery == IF part = Topologies THEN Receive ELSE UNCHANGED <<received, missed>>
NoDelivery == IF part = Topologies THEN Miss ELSE UNCHANGED <<received, missed>>

Posting == pc = "post" /\ UNCHANGED <<runs, instance, checkVars, payload, told, reports>>

GoOn(outcome) ==
    IF part < Parts THEN part' = part + 1 /\ UNCHANGED <<pc, emission>>
                    ELSE pc' = "commit" /\ emission' = outcome /\ UNCHANGED part

Post ==
    /\ Posting /\ Delivery /\ GoOn("sent")
    /\ UNCHANGED unposted

\* A part that cannot be serialized, or split into parts that are small enough,
\* is left out with a line in the log.
PostNothing ==
    /\ Posting /\ NoDelivery /\ GoOn("sent")
    /\ unposted' = TRUE

\* The request fails, and may have been received nevertheless.
PostRaises ==
    /\ Posting /\ (Delivery \/ NoDelivery)
    /\ pc' = "commit" /\ emission' = "failed" /\ unposted' = TRUE
    /\ UNCHANGED part

Commitment == IF emission = "sent" THEN "success" ELSE "failure"

Commit ==
    /\ pc = "commit" /\ pc' = "idle"
    /\ told' = Commitment
    /\ payload' = <<>> /\ part' = 0
    /\ UNCHANGED <<runs, instance, checkVars, emission, received, missed, unposted, reports>>

Calls(k) ==
    \/ Announce(k) \/ AnnounceRaises(k)
    \/ StartSnapshot(k) \/ StartRaises(k) \/ StopSnapshot(k) \/ StopRaises(k)
    \/ ClearTopology(k)

Next ==
    \/ RunBegin \/ CheckReturns \/ (\E k \in Keys : Calls(k))
    \/ CollectTopology \/ Post \/ PostNothing \/ PostRaises \/ Commit

Spec == Init /\ [][Next]_vars

-----------------------------------------------------------------------------
(* Properties *)

Topology == [exists : BOOLEAN, inSnapshot : BOOLEAN, start : BOOLEAN, stop : BOOLEAN,
             data : SUBSET Data]

\* Every variable has its type.
TypeOK ==
    /\ pc \in {"idle", "check", "collect", "post", "commit"}
    /\ runs \in 0..MaxRuns /\ instance \in 1..NInstances
    /\ topology \in [Keys -> Topology] /\ announced \in 0..MaxData
    /\ DOMAIN payload \subseteq Keys
    /\ part \in 0..Parts /\ emission \in {"none", "sent", "failed"}
    /\ told \in {"nothing", "success", "failure"}
    /\ {received, snapshot} \subseteq [Keys -> SUBSET Data]
    /\ missed \in [Keys -> BOOLEAN] /\ unposted \in BOOLEAN
    /\ reports \in [Data -> Nat]

\* When the stop of a snapshot reaches a receiver that missed none of it, over
\* however many runs, failed checks and payloads, the receiver has what the
\* check put in the snapshot and nothing else.
SnapshotComplete ==
    [][\A k \in DOMAIN payload :
          Post /\ part = Topologies /\ payload[k].stop /\ ~missed'[k] =>
              received'[k] = snapshot[k]]_vars

\* What a check announces is in one payload at most, whatever fails in between.
ReportedOnce == TypeOK /\ \A d \in Data : reports[d] <= 1

\* What a check announces is delivered once, and a snapshot whole, over however many
\* runs and failures.
TopologyDelivered == []ReportedOnce /\ SnapshotComplete

\* checks/__init__.py:798, "The collector uses this function to report to the
\* check that the data it produced was committed": all of it was posted.
CommittedWasPosted == told = "success" => ~unposted
===============================================================================
