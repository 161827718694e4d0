----------------------------- MODULE StoreClients -----------------------------
(* What crawl_config_template() (abstract_config_store.py) takes for the index *)
(* of the templates, in each configuration store: the clients for consul, etcd *)
(* and ZooKeeper compute it from different things.  ConfigStore.tla is about   *)
(* what follows when the index has changed.                                    *)
EXTENDS Integers, Sequences, FiniteSetsExt, Functions

CONSTANTS
    StoreImages,         \* names of images, in the order ZooKeeper lists them
    StoreParams,         \* names of the keys of a template, likewise
    MaxWrites

StoreKeys == Range(StoreImages) \X Range(StoreParams)

ASSUME ClientsAssumption ==
    /\ StoreImages \in Seq(Range(StoreImages)) /\ StoreParams \in Seq(Range(StoreParams))
    /\ StoreImages # <<>> /\ StoreParams # <<>>
    /\ MaxWrites \in Nat

VARIABLES
    backend,        \* sd_config_backend
    stored,        \* each key: which write it is from, or 0
    directories,    \* the directories of images
    rootExists,     \* sd_template_dir exists
    stamp,          \* modifiedIndex, or mtime in ZooKeeper, of keys and directories
    writes, millis,
    previousConfigIndex,
    reference,      \* history: the templates when that was taken
    crawl           \* "none", or the outcome of a crawl that nothing has followed

treeVars == <<stored, directories, rootExists, stamp>>
storeClientVars == <<backend, treeVars, writes, millis, previousConfigIndex, reference, crawl>>

RootDir == <<>>
Directory(i) == <<i>>
StoreNodes == StoreKeys \cup {Directory(i) : i \in Range(StoreImages)} \cup {RootDir}
NoConfigIndex == 0

ClientsInit ==
    /\ backend \in {"consul", "etcd", "zk"}
    /\ stored = [k \in StoreKeys |-> 0] /\ directories = {} /\ rootExists = TRUE
    /\ stamp = [n \in StoreNodes |-> 1]
    /\ writes = 1 /\ millis = 1
    /\ previousConfigIndex = NoConfigIndex
    /\ reference = stored
    /\ crawl = "none"

-------------------------------------------------------------------------------
(* The users of the store                                                      *)
StoreWrite ==
    /\ writes < MaxWrites
    /\ writes' = writes + 1
    /\ millis' \in {millis, millis + 1}
    /\ crawl' = "none"
    /\ UNCHANGED <<backend, previousConfigIndex, reference>>
Stamp == IF backend = "zk" THEN millis' ELSE writes'

PutKey(k) ==
    LET created == ({Directory(k[1])} \ directories) \cup (IF rootExists THEN {} ELSE {RootDir}) IN
    /\ StoreWrite
    /\ stored' = [stored EXCEPT ![k] = writes']
    /\ directories' = directories \cup {Directory(k[1])}
    /\ rootExists' = TRUE
    /\ stamp' = [n \in StoreNodes |-> IF n \in {k} \cup created THEN Stamp ELSE stamp[n]]

DeleteKey(k) ==
    /\ StoreWrite
    /\ stored[k] # 0
    /\ stored' = [stored EXCEPT ![k] = 0]
    /\ UNCHANGED <<directories, rootExists, stamp>>

DeleteAll ==
    /\ StoreWrite
    /\ rootExists
    /\ stored' = [k \in StoreKeys |-> 0]
    /\ directories' = {} /\ rootExists' = FALSE
    /\ UNCHANGED stamp

-------------------------------------------------------------------------------
(* client_read(watch=True)                                                     *)
StoreKeysOf(d) == {k \in StoreKeys : Directory(k[1]) = d /\ stored[k] # 0}

\* etcd: a directory without children is a leaf.
StoreLeaves == UNION {IF StoreKeysOf(d) = {} THEN {d} ELSE StoreKeysOf(d) : d \in directories}
\* Mutant: The directory is not read recursively.
DirectoryIndex == Max({stamp[n] : n \in {RootDir} \cup directories})
EtcdIndex == Max({stamp[n] : n \in {RootDir} \cup StoreLeaves})

\* ZookeeperStore.recursive_mtime() goes on with the last child.
LastOf(names, exist) == names[Max({j \in DOMAIN names : names[j] \in exist})]
LastDirectories ==
    IF directories = {} THEN {}
    ELSE {Directory(LastOf(StoreImages, {i \in Range(StoreImages) : Directory(i) \in directories}))}
LastKeys ==
    {<<d[1], LastOf(StoreParams, {k[2] : k \in StoreKeysOf(d)})>> :
        d \in {e \in LastDirectories : StoreKeysOf(e) # {}}}
Mtime == Max({stamp[n] : n \in {RootDir} \cup LastDirectories \cup LastKeys})

\* The answer of consul has the index of the last change under the key.
IndexFound == backend = "consul" \/ rootExists
ConfigIndex ==
    IF backend = "consul" THEN writes ELSE IF backend = "etcd" THEN EtcdIndex ELSE Mtime

-------------------------------------------------------------------------------
(* crawl_config_template()                                                     *)
Crawled(outcome) ==
    /\ crawl' = outcome
    /\ previousConfigIndex' = ConfigIndex
    /\ reference' = IF outcome = "same" THEN reference ELSE stored
    /\ UNCHANGED <<backend, treeVars, writes, millis>>

FirstCrawl ==
    /\ IndexFound /\ previousConfigIndex = NoConfigIndex
    /\ Crawled("first")

ChangeFound ==
    /\ IndexFound /\ previousConfigIndex \notin {NoConfigIndex, ConfigIndex}
    /\ Crawled("changed")

NoChangeFound ==
    /\ IndexFound /\ previousConfigIndex = ConfigIndex
    /\ Crawled("same")

\* KeyNotFound is taken for auto configuration alone.
NothingFound ==
    /\ ~IndexFound
    /\ crawl' = "not found"
    /\ UNCHANGED <<backend, treeVars, writes, millis, previousConfigIndex, reference>>

ClientsNext ==
    \/ \E k \in StoreKeys : PutKey(k) \/ DeleteKey(k)
    \/ DeleteAll
    \/ FirstCrawl \/ ChangeFound \/ NoChangeFound \/ NothingFound

ClientsSpec == ClientsInit /\ [][ClientsNext]_storeClientVars

-------------------------------------------------------------------------------
\* A crawl that finds no change has missed none with consul, only deletions with
\* etcd, and with ZooKeeper any but those of the last key, unless it was written in
\* the same millisecond.
ChangesNoticed ==
    crawl = "same" =>
        /\ backend = "consul" => stored = reference
        /\ backend = "etcd" => \A k \in StoreKeys : stored[k] \in {0, reference[k]}
        /\ backend = "zk" => \A k \in LastKeys :
              stored[k] = reference[k] \/ stamp[k] = previousConfigIndex
===============================================================================
