------------------------------ MODULE ConfigStore ------------------------------
(***************************************************************************)
(* Service discovery: the cache of configuration templates and the crawl   *)
(* of utils/service_discovery/abstract_config_store.py, the configurations *)
(* of containers and the refreshes that sd_docker_backend.py asks for, and *)
(* the part of the loop of agent.py that ties them.                        *)
(*                                                                         *)
(* The agent has one thread; each key it reads from the store is a request *)
(* of its own. Meanwhile an operator publishes templates, one key after    *)
(* another, and containers come and go.  The checks are those in Python    *)
(* that no file configures, and each of them starts (Agent is about        *)
(* others).                                                                *)
(***************************************************************************)
EXTENDS Naturals, Sequences, FiniteSets

CONSTANTS
    Ids,            \* identifiers of templates: images and labels
    Ident,          \* _get_image_ident() of each: the image without its tag
    Published,      \* identifiers the operator publishes templates for
    Checks,         \* names of checks
    AutoConf,       \* the checks of the auto_conf files, for each identifier
    Containers,
    IdOf,           \* get_config_id() of each container
    MaxRevisions,   \* bound: templates published
    CheckOf,        \* the check that each revision of a template configures
    Removals,       \* whether containers are removed
    MaxFailures     \* bound: requests to the store that fail

\* Asks for a reload of everything: True in the code, where others are sets of checks.
All == "*"

ASSUME ConfigStoreAssumption ==
    /\ All \notin Checks
    /\ Ident \in [Ids -> Ids] /\ \A i \in Ids : Ident[Ident[i]] = Ident[i]
    /\ Published \subseteq Ids /\ AutoConf \in [Ids -> SUBSET Checks]
    /\ IdOf \in [Containers -> Ids]
    /\ MaxRevisions \in Nat \ {0} /\ CheckOf \in [1..MaxRevisions -> Checks]
    /\ Removals \in BOOLEAN /\ MaxFailures \in Nat

VARIABLES
    store,          \* the revision of each of the three keys of a template
    index,          \* the index of the store: that of its last modification
    revisions,      \* templates published so far
    writing,        \* the keys left to write of the last one: <<id, key>>
    containers,     \* what became of each container
    changed,        \* containers whose changes the docker check has not seen
    failures,       \* requests that failed so far
    pc,             \* where the agent is
    reloadFlag,     \* reload_configs_flag: {}, {All} or checks
    sdFlag,         \* sd_backend.reload_check_configs, likewise
    loaded,         \* what each check was configured with when it was loaded
    indexZero,      \* the one of Checks at index 0 of initialized_checks, if any
    kvTemplates,    \* template_cache.kv_templates
    previousIndex,  \* previous_config_index
    todo,           \* calls of get_configs() left in this reload
    listing,        \* containers that the call in progress has still to look up
    found,          \* what the call in progress has found
    seen,           \* containers that update_checks() has still to look up
    refresh,        \* conf_reload_set
    reading,        \* identifiers whose template is being read: one at most
    got,            \* the keys that the read has got
    hidden,         \* history: entries that the first crawl found outdated
    unread          \* history: entries whose read failed

storeVars == <<store, index, revisions, writing>>
worldVars == <<containers, changed>>
flagVars  == <<reloadFlag, sdFlag>>
cacheVars == <<kvTemplates, previousIndex, hidden, unread>>
passVars  == <<todo, listing, found, loaded, indexZero>>
nameVars  == <<seen, refresh>>
readVars  == <<reading, got>>
vars == <<storeVars, worldVars, failures, pc, flagVars, cacheVars, passVars,
          nameVars, readVars>>

\* A template: the revisions of check_names, init_configs and instances.
Uncached   == <<>>
NoTemplate == <<0>>
AutoEntry  == <<0, 0>>      \* stands for the template of an auto_conf file
Templates  == [1..3 -> 1..MaxRevisions]
IsTemplate(entry) == Len(entry) = 3
KvNames(entry) == IF IsTemplate(entry) THEN {CheckOf[entry[1]]} ELSE {}

\* What a read of an identifier returns if nothing is published meanwhile.
InStore(i) == IF 0 \in {store[i][k] : k \in 1..3} THEN NoTemplate ELSE store[i]
StoreEmpty == \A i \in Ids : store[i] = <<0, 0, 0>>

Init ==
    /\ \E r \in {0, 1} : \E i \in Published :
        /\ revisions = r
        /\ store = [j \in Ids |-> IF j = i THEN <<r, r, r>> ELSE <<0, 0, 0>>]
        /\ index = 3 * r
    /\ writing = {}
    /\ containers \in [Containers -> {"new", "running"}] /\ changed = {}
    /\ failures = 0 /\ pc = "top" /\ reloadFlag = {All} /\ sdFlag = {}
    /\ loaded = [c \in Checks |-> {}] /\ indexZero = {}
    /\ kvTemplates = [i \in Ids |-> Uncached] /\ previousIndex = 0
    /\ todo = {} /\ listing = {} /\ found = {} /\ seen = {} /\ refresh = {}
    /\ reading = {} /\ got = <<>> /\ hidden = {} /\ unread = {}

-----------------------------------------------------------------------------
(* _TemplateCache *)

\* get_templates(): the user's template, and those of the auto_conf files for
\* the checks that it does not configure.
GetTemplates(entry, i) ==
    {<<c, entry>> : c \in KvNames(entry)}
        \cup {<<c, AutoEntry>> : c \in AutoConf[i] \ KvNames(entry)}

\* read_config_from_store(): the image without its tag if there is none.
SourceOf(cache, i) ==
    IF IsTemplate(cache[i]) \/ AutoConf[i] # {} THEN i ELSE Ident[i]

\* Mutant: the image without its tag is looked up in any case.
ConfigsOfBoth(cache, i) == UNION {GetTemplates(cache[j], j) : j \in {i, Ident[i]}}

ConfigsOf(cache, i) ==
    LET j == SourceOf(cache, i) IN GetTemplates(cache[j], j)

\* get_check_names(): the store is asked only about an identifier that is
\* neither in the cache nor in an auto_conf file.
NamesKnown(i) == kvTemplates[i] # Uncached \/ AutoConf[i] # {}
GetCheckNames(i) == KvNames(kvTemplates[i]) \cup AutoConf[i]

\* The identifiers a caller has to read before it can go on.
ToRead ==
    IF pc = "configs"
    THEN {i \in Ids : \E c \in listing :
             /\ kvTemplates[i] = Uncached
             /\ \/ i = IdOf[c]
                \/ /\ kvTemplates[IdOf[c]] # Uncached
                   /\ i = SourceOf(kvTemplates, IdOf[c])}
    ELSE {i \in Ids : /\ pc = "names" /\ ~NamesKnown(i)
                      /\ \E c \in seen : /\ containers[c] # "removed"
                                         /\ i \in {IdOf[c], Ident[IdOf[c]]}}

\* _issue_read(): three requests.
BeginRead(i) ==
    /\ reading = {} /\ i \in ToRead
    /\ reading' = {i} /\ got' = <<>>
    /\ UNCHANGED <<storeVars, worldVars, failures, pc, flagVars, cacheVars,
                   passVars, nameVars>>

\* The entry is kept, so that the next lookup does not read it again.
Keep(i, entry) ==
    /\ kvTemplates' = [kvTemplates EXCEPT ![i] = entry]
    /\ reading' = {} /\ got' = <<>>

ReadKey(i) ==
    /\ i \in reading /\ Len(got) < 3 /\ store[i][Len(got) + 1] # 0
    /\ got' = Append(got, store[i][Len(got) + 1])
    /\ UNCHANGED <<storeVars, worldVars, failures, pc, flagVars, cacheVars,
                   passVars, nameVars, reading>>

AllKeysRead == Len(got) = 3

KeepTemplate(i) ==
    /\ i \in reading /\ AllKeysRead
    /\ Keep(i, got)
    /\ UNCHANGED <<storeVars, worldVars, failures, pc, flagVars, previousIndex,
                   hidden, unread, passVars, nameVars>>

KeepMissing(i) ==
    /\ i \in reading /\ Len(got) < 3 /\ store[i][Len(got) + 1] = 0
    /\ Keep(i, NoTemplate)
    /\ UNCHANGED <<storeVars, worldVars, failures, pc, flagVars, previousIndex,
                   hidden, unread, passVars, nameVars>>

Fails == failures < MaxFailures /\ failures' = failures + 1

\* An error is taken for the absence of a template.
ReadFails(i) ==
    /\ i \in reading /\ Fails
    /\ Keep(i, NoTemplate)
    /\ unread' = unread \cup {i}
    /\ UNCHANGED <<storeVars, worldVars, pc, flagVars, previousIndex, hidden,
                   passVars, nameVars>>

ReadStep ==
    \E i \in Ids : \/ BeginRead(i) \/ ReadKey(i) \/ KeepTemplate(i)
                   \/ KeepMissing(i) \/ ReadFails(i)

-----------------------------------------------------------------------------
(* reload_configs(), load_check() and SDDockerBackend.get_configs() *)

NoReload ==
    /\ pc = "top" /\ reloadFlag = {} /\ pc' = "collect"
    /\ UNCHANGED <<storeVars, worldVars, failures, flagVars, cacheVars, passVars,
                   nameVars, readVars>>

\* One call of get_configs() loads all checks, or each of those to refresh.
BeginReload ==
    /\ pc = "top" /\ reloadFlag # {} /\ pc' = "reload"
    /\ todo' = reloadFlag
    /\ UNCHANGED <<storeVars, worldVars, failures, flagVars, cacheVars, listing,
                   found, loaded, indexZero, nameVars, readVars>>

ListContainers ==
    /\ pc = "reload" /\ todo # {} /\ pc' = "configs"
    /\ listing' = {c \in Containers : containers[c] = "running"}
    /\ found' = {}
    /\ UNCHANGED <<storeVars, worldVars, failures, flagVars, cacheVars, todo,
                   loaded, indexZero, nameVars, readVars>>

\* _get_check_configs(); a container removed meanwhile may lack the values that
\* its templates ask for.
ConfigureContainer(c) ==
    /\ pc = "configs" /\ reading = {} /\ c \in listing
    /\ LET i == IdOf[c] IN
        /\ kvTemplates[i] # Uncached
        /\ kvTemplates[SourceOf(kvTemplates, i)] # Uncached
        /\ LET configs == {<<t[1], c, t[2]>> : t \in ConfigsOf(kvTemplates, i)} IN
            \/ found' = found \cup configs
            \/ containers[c] = "removed" /\ found' \in {found \cup S : S \in SUBSET configs}
    /\ listing' = listing \ {c}
    /\ UNCHANGED <<storeVars, worldVars, failures, pc, flagVars, cacheVars, todo,
                   loaded, indexZero, nameVars, readVars>>

FoundFor(check) == {<<f[2], f[3]>> : f \in {g \in found : g[1] = check}}

\* load_check_directory(): the order of the list is that of a dict.
LoadAll ==
    /\ pc = "configs" /\ listing = {} /\ pc' = "reload"
    /\ All \in todo /\ todo' = {}
    /\ loaded' = [c \in Checks |-> FoundFor(c)]
    /\ indexZero' \in {{}} \cup {{c} : c \in {d \in Checks : FoundFor(d) # {}}}
    /\ found' = {}
    /\ UNCHANGED <<storeVars, worldVars, failures, flagVars, cacheVars, listing,
                   nameVars, readVars>>

\* refresh_specific_checks(), one check. Index 0 is taken for none: the check that is
\* there is replaced, but not dropped. What is appended is never first, as the docker
\* check, which brought the events, is in the list.
RefreshCheck(c) ==
    /\ pc = "configs" /\ listing = {} /\ pc' = "reload"
    /\ c \in todo /\ todo' = todo \ {c}
    /\ \/ FoundFor(c) = {} /\ c \in indexZero /\ UNCHANGED loaded
       \/ /\ FoundFor(c) # {} \/ c \notin indexZero
          /\ loaded' = [loaded EXCEPT ![c] = FoundFor(c)]
    /\ found' = {}
    /\ UNCHANGED <<storeVars, worldVars, failures, flagVars, cacheVars, listing,
                   indexZero, nameVars, readVars>>

ReloadDone ==
    /\ pc = "reload" /\ todo = {} /\ pc' = "collect"
    /\ UNCHANGED <<storeVars, worldVars, failures, flagVars, cacheVars, passVars,
                   nameVars, readVars>>

-----------------------------------------------------------------------------
(* The run of the docker check: SDDockerBackend.update_checks() *)

CollectQuiet ==
    /\ pc = "collect" /\ changed = {} /\ pc' = "crawl"
    /\ reloadFlag' = {}
    /\ UNCHANGED <<storeVars, worldVars, failures, sdFlag, cacheVars, passVars,
                   nameVars, readVars>>

BeginUpdate ==
    /\ pc = "collect" /\ changed # {} /\ pc' = "names"
    /\ seen' = changed /\ changed' = {} /\ refresh' = {}
    /\ UNCHANGED <<storeVars, containers, failures, flagVars, cacheVars, passVars,
                   readVars>>

\* The checks of a container that is gone cannot be told: everything reloads.
LookUpRemoved(c) ==
    /\ pc = "names" /\ reading = {} /\ c \in seen /\ containers[c] = "removed"
    /\ sdFlag' = {All}
    /\ seen' = seen \ {c}
    /\ UNCHANGED <<storeVars, worldVars, failures, pc, reloadFlag, cacheVars,
                   passVars, refresh, readVars>>

RefreshOf(i) == GetCheckNames(i) \cup GetCheckNames(Ident[i])

LookUpChanged(c) ==
    /\ pc = "names" /\ reading = {} /\ c \in seen /\ containers[c] # "removed"
    /\ NamesKnown(IdOf[c]) /\ NamesKnown(Ident[IdOf[c]])
    /\ refresh' = refresh \cup RefreshOf(IdOf[c])
    /\ seen' = seen \ {c}
    /\ UNCHANGED <<storeVars, worldVars, failures, pc, flagVars, cacheVars,
                   passVars, readVars>>

FlagAfter == IF refresh # {} THEN refresh ELSE sdFlag

UpdateDone ==
    /\ pc = "names" /\ seen = {} /\ pc' = "crawl"
    /\ sdFlag' = FlagAfter
    /\ refresh' = {} /\ reloadFlag' = {}
    /\ UNCHANGED <<storeVars, worldVars, failures, cacheVars, passVars, seen,
                   readVars>>

-----------------------------------------------------------------------------
(* The end of the loop: crawl_config_template() and the flags *)

PickUp(flag) ==
    /\ pc = "crawl" /\ pc' = "top"
    /\ reloadFlag' = flag /\ sdFlag' = {}
    /\ UNCHANGED <<storeVars, worldVars, passVars, nameVars, readVars>>

\* The store is not crawled when a reload is to come already.
CrawlSkipped ==
    /\ sdFlag # {}
    /\ PickUp(sdFlag)
    /\ UNCHANGED <<cacheVars, failures>>

CrawlFails ==
    /\ sdFlag = {} /\ Fails
    /\ PickUp({})
    /\ UNCHANGED cacheVars

\* Of an empty store some clients raise KeyNotFound, others return an index.
CrawlEmpty ==
    /\ sdFlag = {} /\ StoreEmpty
    /\ PickUp({})
    /\ UNCHANGED <<cacheVars, failures>>

\* The index is kept one higher, so that 0 stands for None.
CrawlFirst ==
    /\ sdFlag = {} /\ previousIndex = 0
    /\ PickUp({})
    /\ previousIndex' = index + 1
    /\ hidden' = {i \in Ids : kvTemplates[i] \notin {Uncached, InStore(i)}}
    /\ UNCHANGED <<kvTemplates, unread, failures>>

\* Mutant: the index is updated and the cache is not cleared.
Kept == kvTemplates' = kvTemplates
Invalidate == kvTemplates' = [i \in Ids |-> Uncached]

CrawlChanged ==
    /\ sdFlag = {} /\ previousIndex \notin {0, index + 1}
    /\ PickUp({All})
    /\ previousIndex' = index + 1
    /\ Invalidate
    /\ hidden' = {} /\ unread' = {}
    /\ UNCHANGED failures

CrawlUnchanged ==
    /\ sdFlag = {} /\ previousIndex = index + 1
    /\ PickUp({})
    /\ UNCHANGED <<cacheVars, failures>>

Agent ==
    \/ ReadStep
    \/ NoReload \/ BeginReload \/ ListContainers
    \/ (\E c \in Containers : ConfigureContainer(c))
    \/ LoadAll \/ (\E c \in Checks : RefreshCheck(c)) \/ ReloadDone
    \/ CollectQuiet \/ BeginUpdate \/ (\E c \in Containers : LookUpRemoved(c))
    \/ (\E c \in Containers : LookUpChanged(c)) \/ UpdateDone
    \/ CrawlSkipped \/ CrawlFails \/ CrawlEmpty \/ CrawlFirst \/ CrawlChanged
    \/ CrawlUnchanged

-----------------------------------------------------------------------------
(* The store and the containers *)

AgentVars == <<failures, pc, flagVars, cacheVars, passVars, nameVars, readVars>>

Publish(i) ==
    /\ writing = {} /\ revisions < MaxRevisions
    /\ revisions' = revisions + 1
    /\ writing' = {i} \X (1..3)
    /\ UNCHANGED <<store, index, worldVars, AgentVars>>

WriteKey(i, k) ==
    /\ <<i, k>> \in writing /\ writing' = writing \ {<<i, k>>}
    /\ store' = [store EXCEPT ![i][k] = revisions]
    /\ index' = index + 1
    /\ UNCHANGED <<revisions, worldVars, AgentVars>>

Becomes(c, from, to) ==
    /\ containers[c] \in from /\ containers' = [containers EXCEPT ![c] = to]
    /\ changed' = changed \cup {c}
    /\ UNCHANGED <<storeVars, AgentVars>>

Start(c) == Becomes(c, {"new"}, "running")
Stop(c) == Becomes(c, {"running"}, "stopped")
RemoveContainer(c) == Removals /\ Becomes(c, {"running", "stopped"}, "removed")

World ==
    \/ (\E i \in Published : Publish(i)) \/ (\E i \in Ids, k \in 1..3 : WriteKey(i, k))
    \/ (\E c \in Containers : Start(c)) \/ (\E c \in Containers : Stop(c))
    \/ (\E c \in Containers : RemoveContainer(c))

Next == Agent \/ World

Spec == Init /\ [][Next]_vars

\* The loop of the agent goes on, and a publication that began is finished.
FairSpec ==
    /\ Spec /\ WF_vars(Agent)
    /\ WF_vars(\E i \in Ids, k \in 1..3 : WriteKey(i, k))

-----------------------------------------------------------------------------
(* Properties *)

Flags == {{}, {All}} \cup SUBSET Checks

TypeOK ==
    /\ store \in [Ids -> [1..3 -> 0..MaxRevisions]] /\ index \in Nat
    /\ revisions \in 0..MaxRevisions /\ writing \subseteq Ids \X (1..3)
    /\ containers \in [Containers -> {"new", "running", "stopped", "removed"}]
    /\ changed \cup listing \cup seen \subseteq Containers
    /\ failures \in 0..MaxFailures
    /\ pc \in {"top", "reload", "configs", "collect", "names", "crawl"}
    /\ reloadFlag \in Flags /\ sdFlag \in Flags /\ todo \in Flags
    /\ kvTemplates \in [Ids -> {Uncached, NoTemplate} \cup Templates]
    /\ previousIndex \in 0..(index + 1)
    /\ found \subseteq Checks \X Containers \X ({AutoEntry} \cup Templates)
    /\ loaded \in [Checks -> SUBSET (Containers \X ({AutoEntry} \cup Templates))]
    /\ indexZero \subseteq Checks /\ Cardinality(indexZero) <= 1
    /\ refresh \subseteq Checks /\ Cardinality(reading) <= 1 /\ Len(got) <= 3
    /\ hidden \cup unread \subseteq Ids

\* While the index that the agent knows is the store's, what it has cached is
\* what the store holds, for the identifiers in S.
CachedAsStored(S) ==
    previousIndex = index + 1 =>
        \A i \in S : kvTemplates[i] \in {Uncached, InStore(i)}

\* Templates that are written key by key while the agent reads them key by key
\* never leave a mixed or outdated entry behind that the crawl takes as current,
\* save for reads that failed and what was outdated before the first crawl.
CacheFollowsStore == TypeOK /\ CachedAsStored(Ids \ (hidden \cup unread))

\* No container has one check configured both by a user's template and by an
\* auto_conf file.
OneSource ==
    \A c \in Checks, k \in Containers :
        <<k, AutoEntry>> \in loaded[c] => \A t \in Templates : <<k, t>> \notin loaded[c]

\* What the checks would be configured with by an agent started now.
Wanted(check) ==
    {p \in Containers \X ({AutoEntry} \cup Templates) :
        /\ containers[p[1]] = "running"
        /\ <<check, p[2]>> \in ConfigsOf([i \in Ids |-> InStore(i)], IdOf[p[1]])}


-----------------------------------------------------------------------------
(* What the comments of the code say *)

\* abstract_config_store.py:49, "The cache must be invalidated when an update is
\* made to templates.": also by the first crawl.
CacheInvalidated == CachedAsStored(Ids \ unread)

\* abstract_config_store.py:102, "Templates from kv_templates take precedence.":
\* no check runs on the template of a file when the user's has it.
KvTakesPrecedence ==
    pc = "collect" /\ previousIndex = index + 1 /\ hidden = {} =>
        \A c \in Checks, k \in Containers :
            <<k, AutoEntry>> \in loaded[c] => c \notin KvNames(InStore(IdOf[k]))

\* agent.py:170, "disable the check if no new config was found": that at index 0 too.
DisabledIfNotFound ==
    [][\A c \in Checks : RefreshCheck(c) /\ FoundFor(c) = {} => loaded'[c] = {}]_vars

\* abstract_config_store.py:147, "Return a set of all check names associated with
\* an identifier": also those the store knows and the cache does not yet.
AllNamesFound ==
    [][\A c \in Containers :
        /\ LookUpChanged(c)
        /\ previousIndex = index + 1 /\ IdOf[c] \notin hidden \cup unread
        => KvNames(InStore(IdOf[c])) \subseteq refresh']_vars
================================================================================
