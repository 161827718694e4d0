---- MODULE KubeServices ----
(***************************************************************************)
(* The services of a pod as tags (utils/kubernetes): a mapper that keeps   *)
(* the selectors of the services and the services of each pod, events of   *)
(* the apiserver that keep both up to date, and the kubelet whose pods     *)
(* service discovery renders.  All of it runs in the collector's thread,   *)
(* while the cluster changes.                                              *)
(***************************************************************************)
EXTENDS Naturals, Sequences, FiniteSets

CONSTANTS
    KubePods,       \* uids of pods
    Labels,         \* the labels of each pod
    KubeServiceIds, \* uids of services
    Selectors,      \* selectors that a service may have
    Max403,         \* MAX_403_RETRIES
    InitRetries,    \* init_retries
    MaxKubeEvents,  \* bound on the events of the cluster
    MaxFailures     \* bound on the failed requests

ASSUME KubeAssumption ==
    /\ IsFiniteSet(KubePods) /\ IsFiniteSet(KubeServiceIds)
    /\ {} \notin Selectors
    /\ \A p \in KubePods : IsFiniteSet(Labels[p])
    /\ Max403 \in Nat \ {0} /\ InitRetries \in Nat /\ MaxKubeEvents \in Nat /\ MaxFailures \in Nat

VARIABLES
    services,       \* cluster: the selector of each service; {} if it has none or is gone
    runningPods,    \* cluster: pods in the list of the kubelet
    events,         \* cluster: events [reason, uid]; the place of one is its version
    lastVersion,    \* KubeEventRetriever.last_resversion
    kubePc,         \* "idle" or "events"
    batch,          \* versions of the events that are not processed yet
    checked,        \* service_cache_checked
    impacted,       \* pods that the events of the batch change
    cache,          \* PodServiceMapper: [selectors, invalid, forbidden, failed]
    mapping,        \* _pod_services_mapping; the labels of the same pods are cached
    kubelet,        \* the url of the kubelet: "none", "http" or "https"
    initLeft,       \* left_init_retries
    retryDue,       \* the last try was more than init_retry_interval ago
    rendered,       \* services in the tags that service discovery last gave a pod
    refresh,        \* pods whose checks service discovery is told to refresh
    failures,
    blind,          \* history: pods and services looked at without the services
    unreported      \* history: pods of a batch whose containers could not be listed

clusterVars == <<services, runningPods, events>>
kubeletVars == <<kubelet, initLeft, retryDue>>
loopVars == <<lastVersion, kubePc, batch, checked, impacted>>
kubeVars == <<clusterVars, loopVars, cache, mapping, kubeletVars, rendered, refresh, failures,
              blind, unreported>>

NoSelectors == [u \in {} |-> {}]

KubeInit ==
    /\ services \in [KubeServiceIds -> Selectors \union {{}}]
    /\ runningPods = {} /\ events = <<>>
    /\ lastVersion = 0 /\ kubePc = "idle" /\ batch = {} /\ checked = FALSE /\ impacted = {}
    /\ cache = [selectors |-> NoSelectors, invalid |-> TRUE, forbidden |-> 0, failed |-> FALSE]
    /\ mapping = NoSelectors
    /\ kubelet = "none" /\ initLeft = InitRetries + 1 /\ retryDue = TRUE
    /\ rendered = NoSelectors /\ refresh = {}
    /\ failures = 0 /\ blind = {} /\ unreported = {}

(***************************************************************************)
(* The cluster                                                             *)
(***************************************************************************)
Post1(reason, uid) ==
    /\ Len(events) < MaxKubeEvents
    /\ events' = Append(events, [reason |-> reason, uid |-> uid])

\* A uid is used once.
New(uid) == \A n \in DOMAIN events : events[n].uid # uid

PodStarts(p) ==
    /\ p \notin runningPods /\ New(p)
    /\ runningPods' = runningPods \union {p}
    /\ UNCHANGED <<services, events, loopVars, cache, mapping, kubeletVars, rendered, refresh,
                   failures, blind, unreported>>

PodKilled(p) ==
    /\ p \in runningPods
    /\ Post1("Killing", p)
    /\ runningPods' = runningPods \ {p}
    /\ UNCHANGED <<services, loopVars, cache, mapping, kubeletVars, rendered, refresh,
                   failures, blind, unreported>>

ServiceChanges(u, selector) ==
    /\ services[u] # selector
    /\ services[u] = {} => New(u)
    /\ Post1(IF selector = {} THEN "DeletedLoadBalancer"
             ELSE IF services[u] = {} THEN "CreatedLoadBalancer" ELSE "UpdatedLoadBalancer", u)
    /\ services' = [services EXCEPT ![u] = selector]
    /\ UNCHANGED <<runningPods, loopVars, cache, mapping, kubeletVars, rendered, refresh,
                   failures, blind, unreported>>

(***************************************************************************)
(* KubeUtil.init_kubelet(), _locate_kubelet()                              *)
(***************************************************************************)
\* Without any retry left the client has failed for good.
TryKubelet ==
    /\ kubelet = "none" /\ initLeft > 0 /\ retryDue
    /\ initLeft' = initLeft - 1
    /\ retryDue' = FALSE
    /\ UNCHANGED <<clusterVars, loopVars, cache, mapping, rendered, refresh, blind, unreported>>

\* Whatever answers over http is taken, even if it refuses the request.
FindKubelet ==
    /\ TryKubelet
    /\ kubelet' \in {"http", "https"}
    /\ UNCHANGED failures
NoKubelet ==
    /\ TryKubelet
    /\ failures < MaxFailures /\ failures' = failures + 1
    /\ UNCHANGED kubelet

RetryIntervalPasses ==
    /\ kubelet = "none" /\ ~retryDue
    /\ retryDue' = TRUE
    /\ UNCHANGED <<clusterVars, loopVars, cache, mapping, kubelet, initLeft, rendered, refresh,
                   failures, blind, unreported>>

(***************************************************************************)
(* PodServiceMapper                                                        *)
(***************************************************************************)
Disabled == cache.forbidden = Max403

\* _does_pod_fulfill_selectors()
Fulfills(p, selector) == selector # {} /\ selector \subseteq Labels[p]

\* _fill_services_cache(): after an error the cache is empty, and as good as filled.
Listed == [u \in {v \in KubeServiceIds : services[v] # {}} |-> services[u]]
FilledCache(c) == [c EXCEPT !.selectors = Listed, !.invalid = FALSE, !.failed = FALSE]
Emptied(c) == [c EXCEPT !.selectors = NoSelectors, !.invalid = FALSE, !.failed = TRUE]
Forbidden(c) == [Emptied(c) EXCEPT !.forbidden = @ + 1]

\* The cache c, filled if it has to be.
Fill(c) ==
    IF ~c.invalid \/ Disabled THEN cache' = c /\ UNCHANGED failures
    ELSE \/ cache' = FilledCache(c) /\ UNCHANGED failures
         \/ /\ cache' \in {Emptied(c), Forbidden(c)}
            /\ failures < MaxFailures /\ failures' = failures + 1

MatchingServices(p, selectors) == {u \in DOMAIN selectors : Fulfills(p, selectors[u])}
With(f, x, value) == [y \in DOMAIN f \union {x} |-> IF y = x THEN value ELSE f[y]]
Without(f, x) == [y \in DOMAIN f \ {x} |-> f[y]]

\* match_services_for_pod(): what a pod once matched is not looked up again.
Match(p) ==
    IF p \in DOMAIN mapping THEN UNCHANGED <<cache, mapping, failures>>
    ELSE Fill(cache) /\ mapping' = With(mapping, p, MatchingServices(p, cache'.selectors))

\* Service discovery renders the checks of a pod, and a service without a cached
\* name makes no tag.
RenderPod(p) ==
    /\ kubePc = "idle" /\ kubelet # "none" /\ p \in runningPods /\ ~Disabled
    /\ Match(p)
    /\ rendered' = With(rendered, p, mapping'[p] \intersect DOMAIN cache'.selectors)
    /\ refresh' = refresh \ {p}
    /\ blind' = IF cache'.failed THEN blind \union {p} ELSE blind
    /\ unreported' = unreported \ {p}
    /\ UNCHANGED <<clusterVars, loopVars, kubeletVars>>

RenderPodDisabled(p) ==
    /\ kubePc = "idle" /\ kubelet # "none" /\ p \in runningPods /\ Disabled
    /\ rendered' = With(rendered, p, {})
    /\ refresh' = refresh \ {p}
    /\ UNCHANGED <<clusterVars, loopVars, cache, mapping, kubeletVars, failures, blind, unreported>>

(***************************************************************************)
(* get_event_array(), and process_events() of what it returns              *)
(***************************************************************************)
FirstCheck == checked' = FALSE
\* Mutant: the flag is the mapper's, and set once.
KeepChecked == checked' = checked
StartChecks == FirstCheck

\* Events that are newer than the last ones, in the order of the apiserver, which is
\* any.  A request that fails leaves them to the next.
GetEventArray ==
    /\ kubePc = "idle" /\ lastVersion < Len(events)
    /\ lastVersion' = Len(events)
    /\ IF Disabled THEN UNCHANGED <<kubePc, batch, checked, impacted>>
       ELSE /\ kubePc' = "events"
            /\ batch' = (lastVersion + 1)..Len(events)
            /\ impacted' = {}
            /\ StartChecks
    /\ UNCHANGED <<clusterVars, cache, mapping, kubeletVars, rendered, refresh, failures, blind, unreported>>

Take1(n) == kubePc = "events" /\ n \in batch /\ batch' = batch \ {n}

ProcessKilling(n) ==
    /\ Take1(n) /\ events[n].reason = "Killing"
    /\ mapping' = Without(mapping, events[n].uid)
    /\ UNCHANGED <<clusterVars, lastVersion, kubePc, checked, impacted, cache, kubeletVars,
                   rendered, refresh, failures, blind, unreported>>

\* The first event about a service invalidates the cache.
Invalidated == IF checked THEN cache ELSE [cache EXCEPT !.invalid = TRUE]
Impact(pods, gone, found) ==
    /\ mapping' = [p \in DOMAIN mapping |-> IF p \in pods THEN (mapping[p] \ gone) \union found
                                             ELSE mapping[p]]
    /\ impacted' = impacted \union pods

ProcessDeleted(n) ==
    LET u == events[n].uid
    IN  /\ Take1(n) /\ events[n].reason = "DeletedLoadBalancer"
        /\ checked' = TRUE /\ cache' = Invalidated
        /\ Impact({p \in DOMAIN mapping : u \in mapping[p]}, {u}, {})
        /\ UNCHANGED <<clusterVars, lastVersion, kubePc, kubeletVars, rendered, refresh, failures,
                       blind, unreported>>

\* search_pods_for_service(): nothing, once the mapper was disabled by this batch.
\* A pod that does not match an updated service any more keeps it.
FoundFor(u) ==
    IF u \notin DOMAIN cache'.selectors THEN {}
    ELSE {p \in DOMAIN mapping : Fulfills(p, cache'.selectors[u]) /\ u \notin mapping[p]}

ProcessChanged(n) ==
    LET u == events[n].uid
    IN  /\ Take1(n) /\ events[n].reason \in {"CreatedLoadBalancer", "UpdatedLoadBalancer"}
        /\ checked' = TRUE
        /\ Fill(Invalidated)
        /\ Impact(FoundFor(u), {}, {u})
        /\ blind' = IF cache'.failed THEN blind \union {u} ELSE blind
        /\ UNCHANGED <<clusterVars, lastVersion, kubePc, kubeletVars, rendered, refresh, unreported>>

\* match_containers_for_pods(): the pods are listed once more.
EventsDone ==
    /\ kubePc = "events" /\ batch = {}
    /\ kubePc' = "idle"
    /\ UNCHANGED <<clusterVars, lastVersion, batch, checked, impacted, cache, mapping, kubeletVars,
                   rendered, blind>>

ReportPods ==
    /\ EventsDone
    /\ refresh' = refresh \union (impacted \intersect runningPods)
    /\ UNCHANGED <<failures, unreported>>

\* An error is logged, and the pods are forgotten.
ReportFails ==
    /\ EventsDone /\ impacted # {}
    /\ failures < MaxFailures /\ failures' = failures + 1
    /\ unreported' = unreported \union impacted
    /\ UNCHANGED refresh

ProcessEvent ==
    \E n \in batch : ProcessKilling(n) \/ ProcessDeleted(n) \/ ProcessChanged(n)

KubeNext ==
    \/ \E p \in KubePods : PodStarts(p) \/ PodKilled(p) \/ RenderPod(p) \/ RenderPodDisabled(p)
    \/ \E u \in KubeServiceIds : \E s \in Selectors \union {{}} : ServiceChanges(u, s)
    \/ FindKubelet \/ NoKubelet \/ RetryIntervalPasses
    \/ GetEventArray \/ ProcessEvent \/ ReportPods \/ ReportFails

KubeSpec == KubeInit /\ [][KubeNext]_kubeVars

----
AllProcessed == kubePc = "idle" /\ lastVersion = Len(events) /\ ~Disabled

\* Once every event is processed, a pod that was matched has every service whose
\* selector it fulfills and none that is gone, and its tags say so or service
\* discovery is told; unless the services, or the containers, could not be listed.
ServicesFollow ==
    AllProcessed => \A p \in DOMAIN mapping \intersect runningPods :
        /\ \A u \in KubeServiceIds :
              Fulfills(p, services[u]) /\ {p, u} \intersect blind = {} => u \in mapping[p]
        /\ \A u \in mapping[p] : services[u] # {}
        /\ p \in DOMAIN rendered /\ p \notin refresh \union unreported \union blind
              => rendered[p] = mapping[p]
====
